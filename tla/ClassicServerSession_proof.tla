---------------------- MODULE ClassicServerSession_proof ----------------------
(***************************************************************************)
(* Proofs about the callback server's session, for every block size and    *)
(* every length of the peer's stream.                                      *)
(*                                                                         *)
(* IInv is inductive: the lemmas below take one action each.  The theorems *)
(* at the end draw from it the invariants, the fact that nothing is        *)
(* launched after an error, the refinement of EchoStream, and the numbers  *)
(* that every step of a session lowers.                                    *)
(***************************************************************************)
EXTENDS ClassicServerSession, TLAPS

-------------------------------------------------------------------------------
(* The operations that the session launches, and what becomes of them, are   *)
(* well typed.                                                               *)
LEMMA ReadOpTypes ==
  /\ \A b \in Buffers : async_read_some(b) \in ReadOps
  /\ \A op \in ReadOps : /\ [op EXCEPT !.state = "none"] \in ReadOps
                         /\ [op EXCEPT !.state = "done", !.err = TRUE] \in ReadOps
  /\ \A op \in ReadOps, n \in Offsets :
       [op EXCEPT !.state = "done", !.length = n] \in ReadOps
<1>1. ASSUME NEW b \in Buffers PROVE async_read_some(b) \in ReadOps
  BY BlockSizeAssumption DEF async_read_some, ReadOps, OpStates
<1>2. ASSUME NEW op \in ReadOps PROVE [op EXCEPT !.state = "none"] \in ReadOps
  BY DEF ReadOps, OpStates
<1>3. ASSUME NEW op \in ReadOps
      PROVE  [op EXCEPT !.state = "done", !.err = TRUE] \in ReadOps
  BY DEF ReadOps, OpStates
<1>4. ASSUME NEW op \in ReadOps, NEW n \in Offsets
      PROVE  [op EXCEPT !.state = "done", !.length = n] \in ReadOps
  <2>1. n \in 0..BlockSize
    BY BlockSizeAssumption DEF Offsets
  <2> QED
    BY <2>1 DEF ReadOps, OpStates
<1> QED
  BY <1>1, <1>2, <1>3, <1>4

LEMMA WriteOpTypes ==
  /\ \A b \in Buffers, len \in 0..BlockSize : async_write(b, len) \in WriteOps
  /\ \A op \in WriteOps :
       /\ [op EXCEPT !.state = "none"] \in WriteOps
       /\ [op EXCEPT !.state = "done", !.err = TRUE] \in WriteOps
       /\ op.sent < op.length =>
            [op EXCEPT !.sent = @ + 1,
                       !.state = IF op.sent + 1 = op.length THEN "done" ELSE @]
              \in WriteOps
<1>1. ASSUME NEW b \in Buffers, NEW len \in 0..BlockSize
      PROVE  async_write(b, len) \in WriteOps
  BY BlockSizeAssumption DEF async_write, WriteOps, OpStates
<1>2. ASSUME NEW op \in WriteOps PROVE [op EXCEPT !.state = "none"] \in WriteOps
  BY DEF WriteOps, OpStates
<1>3. ASSUME NEW op \in WriteOps
      PROVE  [op EXCEPT !.state = "done", !.err = TRUE] \in WriteOps
  BY DEF WriteOps, OpStates
<1>4. ASSUME NEW op \in WriteOps, op.sent < op.length, NEW st \in OpStates
      PROVE  [op EXCEPT !.sent = @ + 1, !.state = st] \in WriteOps
  <2>1. op.sent + 1 \in 0..BlockSize
    BY <1>4, BlockSizeAssumption DEF WriteOps
  <2> QED
    BY <2>1, <1>4 DEF WriteOps, OpStates
<1>5. ASSUME NEW op \in WriteOps, op.sent < op.length
      PROVE  [op EXCEPT !.sent = @ + 1,
                        !.state = IF op.sent + 1 = op.length THEN "done" ELSE @]
               \in WriteOps
  <2>1. (IF op.sent + 1 = op.length THEN "done" ELSE op.state) \in OpStates
    BY DEF WriteOps, OpStates
  <2> QED
    BY <2>1, <1>4, <1>5
<1> QED
  BY <1>1, <1>2, <1>3, <1>5

-------------------------------------------------------------------------------
LEMMA InitIInv == Init => IInv
<1> SUFFICES ASSUME Init PROVE IInv
  OBVIOUS
<1> USE BlockSizeAssumption, MaxBytesAssumption DEF Init, Outstanding
<1>1. TypeOK
  <2>1. rd \in ReadOps
    BY DEF ReadOps, OpStates, Buffers
  <2>2. wr \in WriteOps
    BY DEF WriteOps, OpStates, Buffers
  <2> QED
    BY <2>1, <2>2 DEF TypeOK, Buffers
<1>2. OpCountIsOutstanding /\ DestroyedOnceAndQuiet
  BY DEF OpCountIsOutstanding, DestroyedOnceAndQuiet
<1>3. OpsWellFormed /\ PointersFollowOps /\ UnsentTellsState /\ BeforeAccept
  BY DEF OpsWellFormed, PointersFollowOps, UnsentTellsState, BeforeAccept
<1>4. BytesInPlace /\ EchoInOrder /\ NothingLost
  BY DEF BytesInPlace, EchoInOrder, NothingLost, InWrite, HeldBack, JustRead
<1> QED
  BY <1>1, <1>2, <1>3, <1>4 DEF IInv

LEMMA AcceptIInv == IInv /\ HandleAccept => IInv'
<1> SUFFICES ASSUME IInv, HandleAccept PROVE IInv'
  OBVIOUS
<1> USE BlockSizeAssumption, MaxBytesAssumption
    DEF IInv, HandleAccept, Start, Outstanding, stream, pointers
<1>1. TypeOK'
  <2>1. rd' \in ReadOps
    BY ReadOpTypes DEF TypeOK
  <2>2. op_count' \in 0..2 /\ destroys' \in 0..1
    BY DEF TypeOK, OpCountIsOutstanding, BeforeAccept
  <2> QED
    BY <2>1, <2>2 DEF TypeOK
<1> USE DEF TypeOK, async_read_some
<1>2. OpCountIsOutstanding' /\ DestroyedOnceAndQuiet'
  BY DEF OpCountIsOutstanding, DestroyedOnceAndQuiet, BeforeAccept
<1>3. OpsWellFormed' /\ PointersFollowOps'
  BY DEF OpsWellFormed, PointersFollowOps, BeforeAccept
<1>4. UnsentTellsState' /\ BeforeAccept'
  BY DEF UnsentTellsState, BeforeAccept
<1>5. BytesInPlace'
  BY DEF BytesInPlace, Holds, BeforeAccept
<1>6. EchoInOrder'
  BY DEF EchoInOrder
<1>7. NothingLost'
  BY DEF NothingLost, InWrite, HeldBack, JustRead, BeforeAccept
<1> QED
  BY <1>1, <1>2, <1>3, <1>4, <1>5, <1>6, <1>7 DEF IInv

-------------------------------------------------------------------------------
(* The socket. *)

(* The message lands in read_data_, behind the bytes that were there before; *)
(* the buffer being written is the other one.                                *)
LEMMA ReadCompletesIInv ==
  ASSUME IInv, NEW n \in Offsets, ReadCompletes(n)
  PROVE  IInv'
<1> USE BlockSizeAssumption, MaxBytesAssumption
    DEF IInv, ReadCompletes, Outstanding, pointers, counters
<1>1. TypeOK'
  <2>1. rd' \in ReadOps
    BY ReadOpTypes DEF TypeOK
  <2>2. received' \in 0..MaxBytes
    BY DEF TypeOK, Offsets
  <2>3. mem' \in [Buffers -> [Offsets -> 0..MaxBytes]]
    <3>1. \A i \in Offsets : i <= n => received + i \in 0..MaxBytes
      BY DEF TypeOK, Offsets
    <3>2. mem \in [Buffers -> [Offsets -> 0..MaxBytes]] /\ rd.buf \in Buffers
      BY DEF TypeOK, ReadOps
    <3>3. [i \in Offsets |-> IF i <= n THEN received + i ELSE mem[rd.buf][i]]
            \in [Offsets -> 0..MaxBytes]
      BY <3>1, <3>2
    <3> QED
      BY <3>2, <3>3
  <2> QED
    BY <2>1, <2>2, <2>3 DEF TypeOK
<1>2. rd' = [rd EXCEPT !.state = "done", !.length = n] /\ rd \in ReadOps
  BY DEF TypeOK
<1>3. /\ rd'.state = "done" /\ rd'.length = n
      /\ rd'.buf = rd.buf /\ rd'.err = rd.err /\ ~rd.err
      /\ rd.buf = read_data /\ read_data # write_data /\ unsent_count # 2
  BY <1>2 DEF ReadOps, OpsWellFormed, PointersFollowOps, UnsentTellsState
<1>4. OpCountIsOutstanding' /\ DestroyedOnceAndQuiet'
  BY <1>3 DEF OpCountIsOutstanding, DestroyedOnceAndQuiet
<1>5. OpsWellFormed' /\ PointersFollowOps'
  BY <1>3 DEF OpsWellFormed, PointersFollowOps, Offsets
<1>6. UnsentTellsState' /\ BeforeAccept'
  BY <1>3 DEF UnsentTellsState, BeforeAccept
<1>7. BytesInPlace'
  <2>1. \A i \in Offsets : i <= n => mem'[read_data][i] = received + i
    BY <1>3 DEF TypeOK
  <2>2. Outstanding(wr) => mem'[wr.buf] = mem[wr.buf]
    BY <1>3 DEF TypeOK, PointersFollowOps
  <2>3. received' - n = received
    BY DEF TypeOK, Offsets
  <2> QED
    BY <1>3, <2>1, <2>2, <2>3 DEF BytesInPlace, Holds
<1>8. EchoInOrder'
  BY DEF EchoInOrder, TypeOK, Offsets
<1>9. NothingLost'
  BY <1>3 DEF NothingLost, InWrite, HeldBack, JustRead, TypeOK, WriteOps, Offsets
<1> QED
  BY <1>1, <1>4, <1>5, <1>6, <1>7, <1>8, <1>9 DEF IInv

LEMMA ReadFailsIInv == IInv /\ ReadFails => IInv'
<1> SUFFICES ASSUME IInv, ReadFails PROVE IInv'
  OBVIOUS
<1> USE DEF IInv, ReadFails, Outstanding, pointers, counters, stream
<1>1. rd' \in ReadOps
  BY ReadOpTypes, BlockSizeAssumption DEF TypeOK, Offsets
<1>2. rd'.state = "done" /\ rd'.buf = rd.buf /\ rd'.err
  BY DEF TypeOK, ReadOps
<1>3. TypeOK'
  BY <1>1 DEF TypeOK
<1>4. OpCountIsOutstanding' /\ DestroyedOnceAndQuiet'
  BY <1>2 DEF OpCountIsOutstanding, DestroyedOnceAndQuiet
<1>5. OpsWellFormed' /\ PointersFollowOps'
  BY <1>2 DEF OpsWellFormed, PointersFollowOps
<1>6. UnsentTellsState' /\ BeforeAccept'
  BY <1>2 DEF UnsentTellsState, BeforeAccept
<1>7. BytesInPlace' /\ EchoInOrder'
  BY <1>2 DEF BytesInPlace, Holds, EchoInOrder
<1>8. NothingLost'
  BY <1>2 DEF NothingLost, InWrite, HeldBack, JustRead
<1> QED
  BY <1>3, <1>4, <1>5, <1>6, <1>7, <1>8 DEF IInv

(* The next byte of the write in progress is the next byte of the stream.    *)
LEMMA WriteSomeIInv == IInv /\ WriteSome => IInv'
<1> SUFFICES ASSUME IInv, WriteSome PROVE IInv'
  OBVIOUS
<1> USE BlockSizeAssumption, MaxBytesAssumption
    DEF IInv, WriteSome, Outstanding, pointers, counters
<1>1. /\ wr \in WriteOps /\ wr.buf \in Buffers /\ ~wr.err
      /\ wr.sent \in Nat /\ wr.length \in 0..BlockSize /\ wr.sent < wr.length
      /\ wr.sent + 1 \in Offsets
      /\ received \in Nat /\ Len(echoed) \in Nat /\ echoed \in Seq(0..MaxBytes)
  BY DEF TypeOK, WriteOps, OpsWellFormed, Offsets
<1>2. /\ wr'.state = IF wr.sent + 1 = wr.length THEN "done" ELSE "pending"
      /\ wr'.sent = wr.sent + 1
      /\ wr'.buf = wr.buf /\ wr'.err = wr.err /\ wr'.length = wr.length
  BY <1>1 DEF WriteOps
<1>3. mem[wr.buf][wr.sent + 1] = Len(echoed) + 1
  <2>1. wr.sent + 1 <= wr.length
    BY <1>1
  <2>2. mem[wr.buf][wr.sent + 1] = (Len(echoed) - wr.sent) + (wr.sent + 1)
    BY <1>1, <2>1 DEF BytesInPlace, Holds
  <2> QED
    BY <1>1, <2>2
<1>4. mem[wr.buf][wr.sent + 1] \in 0..MaxBytes
  BY <1>1 DEF TypeOK
<1>5. /\ echoed' \in Seq(0..MaxBytes)
      /\ Len(echoed') = Len(echoed) + 1
      /\ \A i \in 1..Len(echoed) : echoed'[i] = echoed[i]
      /\ echoed'[Len(echoed) + 1] = Len(echoed) + 1
  BY <1>1, <1>3, <1>4
<1>6. TypeOK'
  <2>1. wr' \in WriteOps
    BY <1>1, WriteOpTypes
  <2> QED
    BY <1>5, <2>1 DEF TypeOK
<1>7. OpCountIsOutstanding' /\ DestroyedOnceAndQuiet'
  BY <1>2 DEF OpCountIsOutstanding, DestroyedOnceAndQuiet
<1>8. OpsWellFormed' /\ PointersFollowOps'
  BY <1>1, <1>2 DEF OpsWellFormed, PointersFollowOps
<1>9. UnsentTellsState' /\ BeforeAccept'
  BY <1>1, <1>2 DEF UnsentTellsState, BeforeAccept
<1>10. BytesInPlace'
  <2>1. Len(echoed') - wr'.sent = Len(echoed) - wr.sent
    <3>1. Len(echoed') = Len(echoed) + 1 /\ wr'.sent = wr.sent + 1
      BY <1>2, <1>5
    <3>2. Len(echoed) \in Nat /\ wr.sent \in Nat
      BY <1>1
    <3> HIDE DEF WriteSome, IInv
    <3> QED
      BY <3>1, <3>2
  <2> QED
    BY <1>1, <1>2, <2>1 DEF BytesInPlace, Holds
<1>11. NothingLost'
  <2>1. InWrite = InWrite' + 1
    BY <1>1, <1>2 DEF InWrite
  <2>2. HeldBack' = HeldBack /\ JustRead' = JustRead
    BY DEF HeldBack, JustRead
  <2>3. InWrite' \in Nat /\ HeldBack \in Nat /\ JustRead \in Nat
    BY <1>1, <1>2 DEF InWrite, HeldBack, JustRead, TypeOK, ReadOps
  <2> QED
    BY <1>1, <1>2, <1>5, <2>1, <2>2, <2>3 DEF NothingLost
<1>12. EchoInOrder'
  <2>1. Len(echoed') <= received
    <3>1. InWrite \in Nat /\ HeldBack \in Nat /\ JustRead \in Nat /\ InWrite > 0
      BY <1>1 DEF InWrite, HeldBack, JustRead, TypeOK, ReadOps
    <3> QED
      BY <1>1, <1>5, <3>1 DEF NothingLost
  <2>2. ASSUME NEW i \in 1..Len(echoed') PROVE echoed'[i] = i
    <3>1. CASE i = Len(echoed) + 1
      BY <1>5, <3>1
    <3>2. CASE i # Len(echoed) + 1
      <4>1. i \in 1..Len(echoed)
        BY <1>1, <1>5, <3>2
      <4> QED
        BY <1>5, <4>1 DEF EchoInOrder
    <3> QED
      BY <3>1, <3>2
  <2> QED
    BY <2>1, <2>2 DEF EchoInOrder
<1> QED
  BY <1>6, <1>7, <1>8, <1>9, <1>10, <1>11, <1>12 DEF IInv

LEMMA WriteFailsIInv == IInv /\ WriteFails => IInv'
<1> SUFFICES ASSUME IInv, WriteFails PROVE IInv'
  OBVIOUS
<1> USE DEF IInv, WriteFails, Outstanding, pointers, counters, stream
<1>1. wr' \in WriteOps
  BY WriteOpTypes, BlockSizeAssumption DEF TypeOK
<1>2. /\ wr'.state = "done" /\ wr'.buf = wr.buf /\ wr'.err
      /\ wr'.length = wr.length /\ wr'.sent = wr.sent
  BY DEF TypeOK, WriteOps
<1>3. TypeOK'
  BY <1>1 DEF TypeOK
<1>4. OpCountIsOutstanding' /\ DestroyedOnceAndQuiet'
  BY <1>2 DEF OpCountIsOutstanding, DestroyedOnceAndQuiet
<1>5. OpsWellFormed' /\ PointersFollowOps'
  BY <1>2 DEF OpsWellFormed, PointersFollowOps
<1>6. UnsentTellsState' /\ BeforeAccept'
  BY <1>2 DEF UnsentTellsState, BeforeAccept
<1>7. BytesInPlace' /\ EchoInOrder'
  BY <1>2 DEF BytesInPlace, Holds, EchoInOrder
<1>8. NothingLost'
  BY <1>2 DEF NothingLost
<1> QED
  BY <1>3, <1>4, <1>5, <1>6, <1>7, <1>8 DEF IInv

-------------------------------------------------------------------------------
(* The handlers. *)

(* What a launch leaves: the buffers have changed places and both operations *)
(* are fresh.  The message that is written was in read_data_, and the stream *)
(* has come as far as that message, so nothing else is on its way.           *)
LEMMA LaunchIInv ==
  ASSUME IInv, NEW len \in 0..BlockSize, SwapAndLaunch(len),
         session = "open", len > 0, op_count = 1, ~wr.err, destroys = 0,
         Holds(read_data, len, Len(echoed)),
         received = Len(echoed) + len,
         unsent_count' = 1, read_data_length' \in 0..BlockSize,
         destroys' = 0, UNCHANGED <<session, mem, stream>>
  PROVE  IInv'
<1> USE BlockSizeAssumption DEF IInv, SwapAndLaunch, Outstanding, stream
<1>1. /\ read_data \in Buffers /\ write_data \in Buffers /\ read_data # write_data
      /\ Len(echoed) \in Nat /\ received \in Nat
  BY DEF TypeOK, PointersFollowOps
<1>2. /\ rd'.state = "pending" /\ rd'.buf = read_data' /\ ~rd'.err
      /\ wr'.state = "pending" /\ wr'.buf = write_data' /\ ~wr'.err
      /\ wr'.length = len /\ wr'.sent = 0
      /\ read_data' = write_data /\ write_data' = read_data
      /\ op_count' = 2
  BY DEF async_read_some, async_write
<1>3. TypeOK'
  <2>1. rd' \in ReadOps /\ wr' \in WriteOps
    BY <1>1, ReadOpTypes, WriteOpTypes
  <2> QED
    BY <1>1, <1>2, <2>1 DEF TypeOK
<1>4. OpCountIsOutstanding' /\ DestroyedOnceAndQuiet'
  BY <1>2 DEF OpCountIsOutstanding, DestroyedOnceAndQuiet
<1>5. OpsWellFormed' /\ PointersFollowOps'
  BY <1>1, <1>2 DEF OpsWellFormed, PointersFollowOps
<1>6. UnsentTellsState' /\ BeforeAccept'
  BY <1>2 DEF UnsentTellsState, BeforeAccept
<1>7. BytesInPlace'
  BY <1>1, <1>2 DEF BytesInPlace, Holds
<1>8. EchoInOrder'
  BY DEF EchoInOrder
<1>9. NothingLost'
  <2>1. InWrite' = len /\ HeldBack' = 0 /\ JustRead' = 0
    BY <1>2 DEF InWrite, HeldBack, JustRead
  <2> QED
    BY <1>1, <2>1 DEF NothingLost
<1> QED
  BY <1>3, <1>4, <1>5, <1>6, <1>7, <1>8, <1>9 DEF IInv

LEMMA HandleReadIInv == IInv /\ HandleRead => IInv'
<1> SUFFICES ASSUME IInv, HandleRead PROVE IInv'
  OBVIOUS
<1>0. /\ rd.state = "done" /\ rd \in ReadOps /\ wr \in WriteOps
      /\ session = "open" /\ destroys = 0
      /\ unsent_count \in 0..2 /\ op_count \in {1, 2}
      /\ op_count = 1 <=> ~Outstanding(wr)
      /\ rd.buf = read_data
  BY DEF IInv, HandleRead, Outstanding, TypeOK, OpCountIsOutstanding,
         DestroyedOnceAndQuiet, BeforeAccept, PointersFollowOps
<1>1. CASE ~rd.err /\ unsent_count' = 1
  <2>1. unsent_count = 0 /\ ~Outstanding(wr) /\ ~wr.err
    BY <1>0, <1>1 DEF IInv, HandleRead, UnsentTellsState, Outstanding
  <2>2. SwapAndLaunch(rd.length) /\ rd.length \in 0..BlockSize /\ rd.length > 0
    BY <1>0, <1>1 DEF HandleRead, IInv, OpsWellFormed, ReadOps
  <2>3. received = Len(echoed) + rd.length
    BY <1>0, <1>1, <2>1 DEF IInv, NothingLost, InWrite, HeldBack, JustRead,
                            TypeOK, ReadOps
  <2>4. Holds(read_data, rd.length, Len(echoed))
    <3>1. received - rd.length = Len(echoed)
      BY <2>2, <2>3 DEF IInv, TypeOK
    <3> QED
      BY <1>0, <1>1, <3>1 DEF IInv, BytesInPlace
  <2>5. op_count = 1 /\ op_count' = 2
    BY <1>0, <2>1, <2>2 DEF SwapAndLaunch
  <2>6. destroys' = 0 /\ read_data_length' \in 0..BlockSize
    BY <1>0, <1>1, <2>2, <2>5 DEF HandleRead, PostDestroyWhenIdle
  <2> QED
    BY <1>0, <1>1, <2>1, <2>2, <2>3, <2>4, <2>5, <2>6, LaunchIInv DEF HandleRead
<1>2. CASE ~(~rd.err /\ unsent_count' = 1)
  <2>1. /\ rd' = [rd EXCEPT !.state = "none"] /\ op_count' = op_count - 1
        /\ UNCHANGED <<read_data, write_data, wr, session, mem, received, echoed>>
        /\ rd.err => UNCHANGED <<read_data_length, unsent_count>>
        /\ ~rd.err => /\ read_data_length' = rd.length
                      /\ unsent_count' = unsent_count + 1
    BY <1>2 DEF HandleRead, pointers, stream
  <2>2. /\ rd'.state = "none" /\ rd'.buf = rd.buf /\ rd'.err = rd.err
        /\ rd'.length = rd.length /\ rd' \in ReadOps
    BY <1>0, <2>1, ReadOpTypes DEF ReadOps
  <2>3. ~rd.err => unsent_count = 1 /\ (~Outstanding(wr) => wr.err)
    BY <1>0, <1>2, <2>1 DEF IInv, UnsentTellsState, Outstanding
  <2>4. destroys' = IF op_count' = 0 THEN 1 ELSE 0
    BY <1>0 DEF HandleRead, PostDestroyWhenIdle
  <2>5. TypeOK'
    BY <1>0, <2>1, <2>2, <2>3, <2>4 DEF IInv, TypeOK, ReadOps
  <2>6. OpCountIsOutstanding' /\ DestroyedOnceAndQuiet'
    BY <1>0, <2>1, <2>2, <2>4
       DEF IInv, OpCountIsOutstanding, DestroyedOnceAndQuiet, Outstanding
  <2>7. OpsWellFormed' /\ PointersFollowOps'
    BY <2>1, <2>2 DEF IInv, OpsWellFormed, PointersFollowOps, Outstanding
  <2>8. UnsentTellsState' /\ BeforeAccept'
    BY <1>0, <2>1, <2>2, <2>3
       DEF IInv, UnsentTellsState, BeforeAccept, Outstanding, OpsWellFormed
  <2>9. BytesInPlace'
    BY <1>0, <2>1, <2>2, <2>3
       DEF IInv, BytesInPlace, Holds, UnsentTellsState, Outstanding
  <2>10. EchoInOrder'
    BY <2>1 DEF IInv, EchoInOrder
  <2>11. NothingLost'
    <3>1. CASE rd.err
      BY <1>0, <2>1, <2>2, <3>1
         DEF IInv, NothingLost, InWrite, HeldBack, JustRead, Outstanding
    <3>2. CASE ~rd.err
      <4>1. /\ HeldBack = 0 /\ JustRead = rd.length
            /\ HeldBack' = rd.length /\ JustRead' = 0 /\ InWrite' = InWrite
        BY <1>0, <2>1, <2>2, <2>3, <3>2 DEF HeldBack, JustRead, InWrite, Outstanding
      <4>2. InWrite \in Int /\ rd.length \in Nat
        BY <1>0 DEF InWrite, WriteOps, ReadOps
      <4> QED
        BY <2>1, <4>1, <4>2 DEF IInv, NothingLost, TypeOK
    <3> QED
      BY <3>1, <3>2
  <2> QED
    BY <2>5, <2>6, <2>7, <2>8, <2>9, <2>10, <2>11 DEF IInv
<1> QED
  BY <1>1, <1>2

LEMMA HandleWriteIInv == IInv /\ HandleWrite => IInv'
<1> SUFFICES ASSUME IInv, HandleWrite PROVE IInv'
  OBVIOUS
<1>0. /\ wr.state = "done" /\ rd \in ReadOps /\ wr \in WriteOps
      /\ session = "open" /\ destroys = 0
      /\ unsent_count \in 0..2 /\ op_count \in {1, 2}
      /\ op_count = 1 <=> ~Outstanding(rd)
      /\ ~wr.err => wr.sent = wr.length
  BY DEF IInv, HandleWrite, Outstanding, TypeOK, OpCountIsOutstanding,
         DestroyedOnceAndQuiet, BeforeAccept, OpsWellFormed
<1>1. CASE ~wr.err /\ unsent_count' = 1
  <2>1. unsent_count = 2 /\ ~Outstanding(rd)
    BY <1>0, <1>1 DEF IInv, HandleWrite, UnsentTellsState, Outstanding
  <2>2. /\ SwapAndLaunch(read_data_length)
        /\ read_data_length \in 0..BlockSize /\ read_data_length > 0
        /\ read_data_length' = read_data_length
    BY <1>1, <2>1 DEF HandleWrite, IInv, UnsentTellsState, TypeOK
  <2>3. received = Len(echoed) + read_data_length
    <3>1. InWrite = 0 /\ HeldBack = read_data_length /\ JustRead = 0
      BY <1>0, <1>1, <2>1 DEF InWrite, HeldBack, JustRead, Outstanding, WriteOps
    <3> QED
      BY <1>1, <2>2, <3>1 DEF IInv, NothingLost, TypeOK
  <2>4. Holds(read_data, read_data_length, Len(echoed))
    <3>1. received - read_data_length = Len(echoed)
      BY <2>2, <2>3 DEF IInv, TypeOK
    <3> QED
      BY <1>0, <2>1, <3>1 DEF IInv, BytesInPlace, Outstanding
  <2>5. op_count = 1 /\ op_count' = 2
    BY <1>0, <2>1, <2>2 DEF SwapAndLaunch
  <2>6. destroys' = 0
    BY <1>0, <2>5 DEF HandleWrite, PostDestroyWhenIdle
  <2> QED
    BY <1>0, <1>1, <2>1, <2>2, <2>3, <2>4, <2>5, <2>6, LaunchIInv DEF HandleWrite
<1>2. CASE ~(~wr.err /\ unsent_count' = 1)
  <2>1. /\ wr' = [wr EXCEPT !.state = "none"] /\ op_count' = op_count - 1
        /\ UNCHANGED <<read_data, write_data, rd, session, mem, received, echoed,
                       read_data_length>>
        /\ unsent_count' = IF wr.err THEN unsent_count ELSE unsent_count - 1
    BY <1>2 DEF HandleWrite, pointers, stream
  <2>2. /\ wr'.state = "none" /\ wr'.buf = wr.buf /\ wr'.err = wr.err
        /\ wr'.length = wr.length /\ wr'.sent = wr.sent /\ wr' \in WriteOps
    BY <1>0, <2>1, WriteOpTypes DEF WriteOps
  <2>3. ~wr.err => unsent_count = 1 /\ unsent_count' = 0
    BY <1>0, <1>2, <2>1 DEF IInv, UnsentTellsState, Outstanding
  <2>4. destroys' = IF op_count' = 0 THEN 1 ELSE 0
    BY <1>0 DEF HandleWrite, PostDestroyWhenIdle
  <2>5. TypeOK'
    BY <1>0, <2>1, <2>2, <2>3, <2>4 DEF IInv, TypeOK
  <2>6. OpCountIsOutstanding' /\ DestroyedOnceAndQuiet'
    BY <1>0, <2>1, <2>2, <2>4
       DEF IInv, OpCountIsOutstanding, DestroyedOnceAndQuiet, Outstanding
  <2>7. OpsWellFormed' /\ PointersFollowOps'
    BY <2>1, <2>2 DEF IInv, OpsWellFormed, PointersFollowOps, Outstanding
  <2>8. UnsentTellsState' /\ BeforeAccept'
    BY <1>0, <2>1, <2>2, <2>3 DEF IInv, UnsentTellsState, BeforeAccept, Outstanding
  <2>9. BytesInPlace'
    BY <1>0, <2>1, <2>2 DEF IInv, BytesInPlace, Holds, Outstanding
  <2>10. EchoInOrder'
    BY <2>1 DEF IInv, EchoInOrder
  <2>11. NothingLost'
    <3>1. CASE wr.err
      BY <2>2, <3>1 DEF NothingLost
    <3>2. CASE ~wr.err
      <4>1. /\ InWrite = 0 /\ InWrite' = 0 /\ HeldBack = 0 /\ HeldBack' = 0
            /\ JustRead' = JustRead
        BY <1>0, <2>1, <2>2, <2>3, <3>2
           DEF HeldBack, JustRead, InWrite, Outstanding, WriteOps
      <4> QED
        BY <2>1, <3>2, <4>1 DEF IInv, NothingLost
    <3> QED
      BY <3>1, <3>2
  <2> QED
    BY <2>5, <2>6, <2>7, <2>8, <2>9, <2>10, <2>11 DEF IInv
<1> QED
  BY <1>1, <1>2

LEMMA DestroyIInv == IInv /\ Destroy => IInv'
<1> SUFFICES ASSUME IInv, Destroy PROVE IInv'
  OBVIOUS
<1> USE DEF IInv, Destroy, pointers, counters, stream, Outstanding
<1>1. TypeOK' /\ OpCountIsOutstanding' /\ DestroyedOnceAndQuiet'
  BY DEF TypeOK, OpCountIsOutstanding, DestroyedOnceAndQuiet
<1>2. OpsWellFormed' /\ PointersFollowOps' /\ UnsentTellsState' /\ BeforeAccept'
  BY DEF OpsWellFormed, PointersFollowOps, UnsentTellsState, BeforeAccept
<1>3. BytesInPlace' /\ EchoInOrder'
  BY DEF BytesInPlace, Holds, EchoInOrder
<1>4. NothingLost'
  BY DEF NothingLost, InWrite, HeldBack, JustRead
<1> QED
  BY <1>1, <1>2, <1>3, <1>4 DEF IInv

LEMMA StutterIInv == IInv /\ UNCHANGED vars => IInv'
<1> SUFFICES ASSUME IInv, UNCHANGED vars PROVE IInv'
  OBVIOUS
<1> USE DEF IInv, vars, pointers, counters, stream, Outstanding
<1>1. TypeOK' /\ OpCountIsOutstanding' /\ DestroyedOnceAndQuiet'
  BY DEF TypeOK, OpCountIsOutstanding, DestroyedOnceAndQuiet
<1>2. OpsWellFormed' /\ PointersFollowOps' /\ UnsentTellsState' /\ BeforeAccept'
  BY DEF OpsWellFormed, PointersFollowOps, UnsentTellsState, BeforeAccept
<1>3. BytesInPlace' /\ EchoInOrder'
  BY DEF BytesInPlace, Holds, EchoInOrder
<1>4. NothingLost'
  BY DEF NothingLost, InWrite, HeldBack, JustRead
<1> QED
  BY <1>1, <1>2, <1>3, <1>4 DEF IInv

-------------------------------------------------------------------------------
LEMMA NextIInv == IInv /\ [Next]_vars => IInv'
<1> SUFFICES ASSUME IInv, [Next]_vars PROVE IInv'
  OBVIOUS
<1>1. CASE HandleAccept
  BY <1>1, AcceptIInv
<1>2. ASSUME NEW n \in Offsets, ReadCompletes(n) PROVE IInv'
  BY <1>2, ReadCompletesIInv
<1>3. CASE ReadFails
  BY <1>3, ReadFailsIInv
<1>4. CASE WriteSome
  BY <1>4, WriteSomeIInv
<1>5. CASE WriteFails
  BY <1>5, WriteFailsIInv
<1>6. CASE HandleRead
  BY <1>6, HandleReadIInv
<1>7. CASE HandleWrite
  BY <1>7, HandleWriteIInv
<1>8. CASE Destroy
  BY <1>8, DestroyIInv
<1>9. CASE Deleted \/ UNCHANGED vars
  BY <1>9, StutterIInv DEF Deleted
<1> QED
  BY <1>1, <1>2, <1>3, <1>4, <1>5, <1>6, <1>7, <1>8, <1>9 DEF Next

(* The inductive invariant holds in every reachable state. *)
THEOREM SessionInvariant == Spec => []IInv
<1>1. Init => IInv
  BY InitIInv
<1>2. IInv /\ [Next]_vars => IInv'
  BY NextIInv
<1> QED
  BY <1>1, <1>2, PTL DEF Spec

(* unsent_count_ never leaves 0..2 nor op_count_ 0..2, whatever fails. *)
THEOREM TypeCorrect == Spec => []TypeOK
<1>1. IInv => TypeOK
  BY DEF IInv
<1> QED
  BY <1>1, SessionInvariant, PTL

(* op_count_ counts the handlers that have still to run, and the session is  *)
(* destroyed once, when there are none.                                      *)
THEOREM NoUseAfterDelete == Spec => [](OpCountIsOutstanding /\ DestroyedOnceAndQuiet)
<1>1. IInv => OpCountIsOutstanding /\ DestroyedOnceAndQuiet
  BY DEF IInv
<1> QED
  BY <1>1, SessionInvariant, PTL

(* The kernel never reads into the buffer it writes from, nor into one that  *)
(* holds a message still to be sent.                                         *)
THEOREM BuffersStayDisjoint == Spec => []BuffersDisjoint
<1>1. IInv => BuffersDisjoint
  BY DEF IInv, BuffersDisjoint, PointersFollowOps, UnsentTellsState, TypeOK,
         Outstanding
<1> QED
  BY <1>1, SessionInvariant, PTL

(* The bytes sent back are a prefix of the bytes received, and while no      *)
(* write fails the rest of them are in the session's hands.                  *)
THEOREM EchoIsFaithful == Spec => [](EchoInOrder /\ NothingLost)
<1>1. IInv => EchoInOrder /\ NothingLost
  BY DEF IInv
<1> QED
  BY <1>1, SessionInvariant, PTL

-------------------------------------------------------------------------------
(* When a handler launches, neither operation has failed. *)
LEMMA LaunchesAreClean ==
  ASSUME IInv, [Next]_vars
  PROVE  rd.err \/ wr.err => ~Launched(rd, rd') /\ ~Launched(wr, wr')
<1> USE DEF IInv, Launched, Outstanding, pointers, counters, stream
<1>1. CASE HandleAccept
  BY <1>1 DEF HandleAccept, Start, BeforeAccept
<1>2. ASSUME NEW n \in Offsets, ReadCompletes(n)
      PROVE  ~Launched(rd, rd') /\ ~Launched(wr, wr')
  BY <1>2 DEF ReadCompletes
<1>3. CASE ReadFails
  BY <1>3 DEF ReadFails
<1>4. CASE WriteSome
  BY <1>4 DEF WriteSome
<1>5. CASE WriteFails
  BY <1>5 DEF WriteFails
<1>6. CASE HandleRead
  <2>1. CASE ~rd.err /\ unsent_count' = 1
    BY <1>6, <2>1 DEF HandleRead, UnsentTellsState, TypeOK
  <2>2. CASE ~(~rd.err /\ unsent_count' = 1)
    <3>1. rd' = [rd EXCEPT !.state = "none"] /\ wr' = wr /\ rd \in ReadOps
      BY <1>6, <2>2 DEF HandleRead, TypeOK
    <3> QED
      BY <3>1 DEF ReadOps
  <2> QED
    BY <2>1, <2>2
<1>7. CASE HandleWrite
  <2>1. CASE ~wr.err /\ unsent_count' = 1
    BY <1>7, <2>1 DEF HandleWrite, UnsentTellsState, TypeOK
  <2>2. CASE ~(~wr.err /\ unsent_count' = 1)
    <3>1. wr' = [wr EXCEPT !.state = "none"] /\ rd' = rd /\ wr \in WriteOps
      BY <1>7, <2>2 DEF HandleWrite, TypeOK
    <3> QED
      BY <3>1 DEF WriteOps
  <2> QED
    BY <2>1, <2>2
<1>8. CASE Destroy
  BY <1>8 DEF Destroy
<1>9. CASE Deleted \/ UNCHANGED vars
  BY <1>9 DEF Deleted, vars
<1> QED
  BY <1>1, <1>2, <1>3, <1>4, <1>5, <1>6, <1>7, <1>8, <1>9 DEF Next

(* After a failed read or write the session launches nothing any more. *)
THEOREM NothingLaunchedAfterError == Spec => NoLaunchAfterError
<1>1. IInv /\ [Next]_vars =>
        [rd.err \/ wr.err => ~Launched(rd, rd') /\ ~Launched(wr, wr')]_vars
  BY LaunchesAreClean
<1> QED
  BY <1>1, SessionInvariant, PTL DEF Spec, NoLaunchAfterError

-------------------------------------------------------------------------------
(* When no operation is outstanding and no write has failed, the session     *)
(* holds no byte: closing it then is what EchoStream allows.                 *)
LEMMA QuietIsDrained ==
  ASSUME IInv, ~Outstanding(rd), ~Outstanding(wr), ~wr.err
  PROVE  Len(echoed) = received
<1>1. unsent_count = 0
  BY DEF IInv, UnsentTellsState
<1>2. InWrite = 0 /\ HeldBack = 0 /\ JustRead = 0
  BY <1>1 DEF InWrite, HeldBack, JustRead, Outstanding
<1> QED
  BY <1>2 DEF IInv, NothingLost, TypeOK

LEMMA StreamStep ==
  ASSUME IInv, [Next]_vars
  PROVE  [Stream!StreamNext]_(Stream!streamVars)
<1> USE DEF Stream!StreamNext, Stream!streamVars, StreamPhase
<1>1. CASE HandleAccept
  <2>1. session = "accepting" /\ wr' = wr /\ ~wr.err
        /\ UNCHANGED <<received, echoed>>
    BY <1>1 DEF HandleAccept, IInv, BeforeAccept, stream
  <2>2. CASE session' = "open"
    BY <2>1, <2>2
  <2>3. CASE session' = "deleted"
    <3>1. Len(echoed) = received
      BY <2>1, QuietIsDrained DEF IInv, BeforeAccept
    <3> QED
      BY <2>1, <2>3, <3>1 DEF Stream!Close
  <2> QED
    BY <1>1, <2>2, <2>3 DEF HandleAccept, Start
<1>2. ASSUME NEW n \in Offsets, ReadCompletes(n) PROVE Stream!Receive
  <2>1. n \in 1..MaxBytes /\ received + n <= MaxBytes /\ received' = received + n
    BY <1>2, MaxBytesAssumption, BlockSizeAssumption
       DEF ReadCompletes, IInv, TypeOK, Offsets
  <2>2. StreamPhase # "closed"
    BY <1>2 DEF ReadCompletes, IInv, DestroyedOnceAndQuiet, Outstanding
  <2>3. echoed' = echoed /\ StreamPhase' = StreamPhase
    BY <1>2 DEF ReadCompletes
  <2> QED
    BY <2>1, <2>2, <2>3 DEF Stream!Receive
<1>3. CASE ReadFails
  BY <1>3 DEF ReadFails, stream
<1>4. CASE WriteSome
  <2>1. /\ session # "deleted" /\ ~wr.err /\ wr \in WriteOps
        /\ wr.sent < wr.length
    BY <1>4 DEF WriteSome, IInv, DestroyedOnceAndQuiet, OpsWellFormed,
                Outstanding, TypeOK
  <2>2. IInv'
    BY <1>4, WriteSomeIInv
  <2>3. Len(echoed) \in Nat /\ Len(echoed') = Len(echoed) + 1
    BY <1>4 DEF WriteSome, IInv, TypeOK
  <2>4. Len(echoed) < received
    BY <1>4, <2>2, <2>3 DEF WriteSome, IInv, EchoInOrder, TypeOK
  <2>5. echoed' = Append(echoed, Len(echoed) + 1)
    <3>1. echoed' = Append(echoed, mem[wr.buf][wr.sent + 1])
      BY <1>4 DEF WriteSome
    <3>2. echoed'[Len(echoed) + 1] = Len(echoed) + 1
      BY <2>2, <2>3 DEF IInv, EchoInOrder
    <3>3. echoed \in Seq(0..MaxBytes)
      BY DEF IInv, TypeOK
    <3>4. echoed'[Len(echoed) + 1] = mem[wr.buf][wr.sent + 1]
      BY <3>1, <3>3
    <3> QED
      BY <3>1, <3>2, <3>4
  <2>6. session' = session /\ received' = received /\ wr'.err = wr.err
    BY <1>4, <2>1 DEF WriteSome, WriteOps
  <2>7. Stream!Echo
    BY <2>1, <2>4, <2>5, <2>6 DEF Stream!Echo
  <2> QED
    BY <2>7
<1>5. CASE WriteFails
  <2>1. /\ session # "deleted" /\ ~wr.err /\ wr'.err
        /\ session' = session /\ UNCHANGED <<received, echoed>>
    BY <1>5 DEF WriteFails, IInv, DestroyedOnceAndQuiet, OpsWellFormed,
                Outstanding, TypeOK, WriteOps, stream
  <2> QED
    BY <2>1 DEF Stream!Break
<1>6. CASE HandleRead
  <2>1. session' = session /\ UNCHANGED <<received, echoed>>
    BY <1>6 DEF HandleRead, stream
  <2>2. wr'.err <=> wr.err
    <3>1. CASE ~rd.err /\ unsent_count' = 1
      <4>1. ~wr'.err
        BY <1>6, <3>1 DEF HandleRead, SwapAndLaunch, async_write
      <4>2. ~wr.err
        BY <1>6, <3>1 DEF HandleRead, IInv, TypeOK, UnsentTellsState, Outstanding
      <4> QED
        BY <4>1, <4>2
    <3>2. CASE ~(~rd.err /\ unsent_count' = 1)
      BY <1>6, <3>2 DEF HandleRead
    <3> QED
      BY <3>1, <3>2
  <2> QED
    BY <2>1, <2>2
<1>7. CASE HandleWrite
  <2>1. session' = session /\ UNCHANGED <<received, echoed>>
    BY <1>7 DEF HandleWrite, stream
  <2>2. wr'.err <=> wr.err
    <3>1. CASE ~wr.err /\ unsent_count' = 1
      <4>1. ~wr'.err
        <5>1. SwapAndLaunch(read_data_length)
          BY <1>7, <3>1 DEF HandleWrite
        <5> QED
          BY <5>1 DEF SwapAndLaunch, async_write
      <4> QED
        BY <3>1, <4>1
    <3>2. CASE ~(~wr.err /\ unsent_count' = 1)
      BY <1>7, <3>2 DEF HandleWrite, IInv, TypeOK, WriteOps
    <3> QED
      BY <3>1, <3>2
  <2> QED
    BY <2>1, <2>2
<1>8. CASE Destroy
  <2>1. /\ session = "open" /\ ~Outstanding(rd) /\ ~Outstanding(wr)
        /\ session' = "deleted" /\ wr' = wr /\ UNCHANGED <<received, echoed>>
    BY <1>8 DEF Destroy, IInv, DestroyedOnceAndQuiet, stream
  <2>2. ~wr.err => Len(echoed) = received
    BY <2>1, QuietIsDrained
  <2> QED
    BY <2>1, <2>2 DEF Stream!Close
<1>9. CASE Deleted \/ UNCHANGED vars
  BY <1>9 DEF Deleted, vars, stream
<1> QED
  BY <1>1, <1>2, <1>3, <1>4, <1>5, <1>6, <1>7, <1>8, <1>9 DEF Next

(* The session implements EchoStream: whatever the order of completions,     *)
(* its peer sees only what that specification lets an echo service do.       *)
THEOREM SessionImplementsEchoStream == Spec => ImplementsEchoStream
<1>1. Init => Stream!StreamInit
  BY DEF Init, Stream!StreamInit, StreamPhase
<1>2. IInv /\ [Next]_vars => [Stream!StreamNext]_(Stream!streamVars)
  BY StreamStep
<1> QED
  BY <1>1, <1>2, SessionInvariant, PTL DEF Spec, ImplementsEchoStream,
                                           Stream!StreamSpec
-------------------------------------------------------------------------------
(* What EveryByteEchoed and FailedSessionDeleted rest on, as far as safety  *)
(* goes: while something is due a step that brings it nearer is possible,   *)
(* one that Fairness speaks of, and what is left of a session that has      *)
(* failed is a number that each of its steps makes smaller.                 *)

(* A byte that has been read and not been sent back is in a write, or the   *)
(* handler that will write it is ready to run.                              *)
HeldBytesMove ==
  ~wr.err /\ Len(echoed) < received => Outstanding(wr) \/ rd.state = "done"

(* A handler is ready to run, the socket can end the write, or, after a     *)
(* write that failed, the read.                                             *)
FailedCanEnd ==
  (rd.err \/ wr.err) /\ session # "deleted" =>
    \/ destroys > 0
    \/ "done" \in {rd.state, wr.state}
    \/ wr.state = "pending"
    \/ wr.err /\ rd.state = "pending"

ReadLeft == IF rd.state = "pending" THEN 2 ELSE IF rd.state = "done" THEN 1 ELSE 0

(* A byte less, or the end of the write, or its handler. *)
WriteLeft ==
  IF wr.state = "pending" THEN 1 + (wr.length - wr.sent)
  ELSE IF wr.state = "done" THEN 1
  ELSE 0

ObjectLeft == IF session = "deleted" THEN 0 ELSE IF destroys > 0 THEN 1 ELSE 2

Left == ReadLeft + WriteLeft + ObjectLeft

FailedRunsDown ==
  rd.err \/ wr.err =>
    /\ rd'.err \/ wr'.err
    /\ vars' # vars => Left' < Left

LEMMA LeftTypes ==
  ASSUME IInv
  PROVE  ReadLeft \in 0..2 /\ WriteLeft \in Nat /\ ObjectLeft \in 0..2
<1>1. wr \in WriteOps /\ (wr.state = "pending" => wr.sent < wr.length)
  BY DEF IInv, TypeOK, OpsWellFormed
<1>2. WriteLeft \in Nat
  BY <1>1, BlockSizeAssumption DEF WriteLeft, WriteOps
<1> QED
  BY <1>2 DEF ReadLeft, ObjectLeft

LEMMA LeftIsLess ==
  ASSUME IInv, ReadLeft' \in Int, WriteLeft' \in Int, ObjectLeft' \in Int,
         ReadLeft' <= ReadLeft, WriteLeft' <= WriteLeft, ObjectLeft' <= ObjectLeft,
         ReadLeft' < ReadLeft \/ WriteLeft' < WriteLeft \/ ObjectLeft' < ObjectLeft
  PROVE  Left' < Left
<1>1. PICK r \in Int : r = ReadLeft'
  OBVIOUS
<1>2. PICK w \in Int : w = WriteLeft'
  OBVIOUS
<1>3. PICK o \in Int : o = ObjectLeft'
  OBVIOUS
<1>4. /\ r <= ReadLeft /\ w <= WriteLeft /\ o <= ObjectLeft
      /\ r < ReadLeft \/ w < WriteLeft \/ o < ObjectLeft
  BY <1>1, <1>2, <1>3
<1>5. r + w + o < ReadLeft + WriteLeft + ObjectLeft
  BY <1>4, LeftTypes
<1> QED
  BY <1>1, <1>2, <1>3, <1>5 DEF Left

(* An operation comes to an end. *)
LEMMA KernelLeft ==
  ASSUME IInv, rd.err \/ wr.err,
         ReadFails \/ WriteFails \/ WriteSome \/ \E n \in Offsets : ReadCompletes(n)
  PROVE  (rd'.err \/ wr'.err) /\ Left' < Left
<1>1. /\ rd \in ReadOps /\ wr \in WriteOps
      /\ wr.state = "pending" => wr.sent < wr.length
  BY DEF IInv, TypeOK, OpsWellFormed
<1>2. ReadLeft \in 0..2 /\ WriteLeft \in Nat /\ ObjectLeft \in 0..2
  BY LeftTypes
<1>3. CASE ReadFails \/ \E n \in Offsets : ReadCompletes(n)
  <2>1. /\ rd.state = "pending" /\ rd'.state = "done" /\ (rd.err => rd'.err)
        /\ UNCHANGED <<wr, session, destroys>>
    BY <1>1, <1>3 DEF ReadFails, ReadCompletes, ReadOps
  <2>2. ReadLeft = 2 /\ ReadLeft' = 1 /\ WriteLeft' = WriteLeft /\ ObjectLeft' = ObjectLeft
    BY <2>1 DEF ReadLeft, WriteLeft, ObjectLeft
  <2>3. rd'.err \/ wr'.err
    BY <2>1
  <2> QED
    BY <1>2, <2>2, <2>3 DEF Left
<1>4. CASE WriteFails \/ WriteSome
  <2>1. /\ wr.state = "pending" /\ UNCHANGED <<rd, session, destroys>>
        /\ \/ wr'.state = "done" /\ wr'.err = wr.err
           \/ wr'.state = "done" /\ wr'.err
           \/ /\ wr'.state = "pending" /\ wr'.err = wr.err
              /\ wr'.sent = wr.sent + 1 /\ wr'.length = wr.length
    BY <1>1, <1>4 DEF WriteFails, WriteSome, WriteOps
  <2>2. wr.sent \in Int /\ wr.length \in Int /\ wr.sent < wr.length
    BY <1>1, <2>1, BlockSizeAssumption DEF WriteOps
  <2>3. WriteLeft' < WriteLeft /\ WriteLeft' \in Int
    BY <2>1, <2>2 DEF WriteLeft
  <2>4. ReadLeft' = ReadLeft /\ ObjectLeft' = ObjectLeft
    BY <2>1 DEF ReadLeft, ObjectLeft
  <2>5. rd'.err \/ wr'.err
    BY <2>1
  <2>6. Left' < Left
    BY <1>2, <2>3, <2>4, LeftIsLess
  <2> QED
    BY <2>5, <2>6
<1> QED
  BY <1>3, <1>4

(* A handler launches nothing, because of the error. *)
LEMMA HandlersLeft ==
  ASSUME IInv, rd.err \/ wr.err, HandleRead \/ HandleWrite
  PROVE  (rd'.err \/ wr'.err) /\ Left' < Left
<1>1. /\ rd \in ReadOps /\ wr \in WriteOps /\ destroys \in 0..1
      /\ session = "open" /\ destroys = 0
  BY DEF IInv, TypeOK, DestroyedOnceAndQuiet, BeforeAccept, HandleRead, HandleWrite,
     Outstanding
<1>2. ReadLeft \in 0..2 /\ WriteLeft \in Nat /\ ObjectLeft = 2
  BY <1>1, LeftTypes DEF ObjectLeft
<1>3. ~Launched(rd, rd') /\ ~Launched(wr, wr')
  BY LaunchesAreClean DEF Next
<1>4. session' = session /\ ObjectLeft' \in {1, 2}
  BY <1>1 DEF HandleRead, HandleWrite, ObjectLeft
<1>5. CASE HandleRead
  <2>1. rd.state = "done"
    BY <1>5 DEF HandleRead
  <2>2. rd' = [rd EXCEPT !.state = "none"] /\ wr' = wr
    BY <1>3, <1>5, <2>1
       DEF HandleRead, SwapAndLaunch, async_read_some, Launched
  <2>3. rd'.state = "none" /\ rd'.err = rd.err
    BY <1>1, <2>2 DEF ReadOps
  <2>4. ReadLeft = 1 /\ ReadLeft' = 0 /\ WriteLeft' = WriteLeft
    BY <2>1, <2>2, <2>3 DEF ReadLeft, WriteLeft
  <2>5. rd'.err \/ wr'.err
    BY <2>2, <2>3
  <2>6. Left' < Left
    BY <1>2, <1>4, <2>4, LeftIsLess
  <2> QED
    BY <2>5, <2>6
<1>6. CASE HandleWrite
  <2>1. wr.state = "done"
    BY <1>6 DEF HandleWrite
  <2>2. wr' = [wr EXCEPT !.state = "none"] /\ rd' = rd
    BY <1>3, <1>6, <2>1 DEF HandleWrite, SwapAndLaunch, async_write, Launched
  <2>3. wr'.state = "none" /\ wr'.err = wr.err
    BY <1>1, <2>2 DEF WriteOps
  <2>4. WriteLeft = 1 /\ WriteLeft' = 0 /\ ReadLeft' = ReadLeft
    BY <2>1, <2>2, <2>3 DEF ReadLeft, WriteLeft
  <2>5. rd'.err \/ wr'.err
    BY <2>2, <2>3
  <2>6. Left' < Left
    BY <1>2, <1>4, <2>4, LeftIsLess
  <2> QED
    BY <2>5, <2>6
<1> QED
  BY <1>5, <1>6

LEMMA NextLeft == IInv /\ [Next]_vars => FailedRunsDown
<1> SUFFICES ASSUME IInv, [Next]_vars, rd.err \/ wr.err
             PROVE  (rd'.err \/ wr'.err) /\ (vars' # vars => Left' < Left)
  BY DEF FailedRunsDown
<1>1. ~HandleAccept
  BY DEF HandleAccept, IInv, BeforeAccept
<1>2. CASE ReadFails \/ WriteFails \/ WriteSome \/ \E n \in Offsets : ReadCompletes(n)
  BY <1>2, KernelLeft
<1>3. CASE HandleRead \/ HandleWrite
  BY <1>3, HandlersLeft
<1>4. CASE Destroy
  <2>1. destroys > 0 /\ session # "deleted"
    BY <1>4 DEF Destroy, IInv, DestroyedOnceAndQuiet
  <2>2. ObjectLeft = 1 /\ ObjectLeft' = 0 /\ rd' = rd /\ wr' = wr
    BY <1>4, <2>1 DEF Destroy, ObjectLeft
  <2>3. ReadLeft' = ReadLeft /\ WriteLeft' = WriteLeft
    BY <2>2 DEF ReadLeft, WriteLeft
  <2> QED
    BY <2>2, <2>3, LeftTypes DEF Left
<1>5. CASE Deleted \/ UNCHANGED vars
  BY <1>5 DEF Deleted, vars
<1> QED
  BY <1>1, <1>2, <1>3, <1>4, <1>5 DEF Next

(* No byte is ever stuck behind a buffer swap: while the session owes the   *)
(* peer a byte, and no write has failed, the byte is in a write or the      *)
(* handler that writes it is about to run.  And a session that has failed   *)
(* never comes to rest before it is deleted.                                *)
THEOREM SessionIsNeverStuck == Spec => [](HeldBytesMove /\ FailedCanEnd)
<1>1. IInv => HeldBytesMove
  <2> SUFFICES ASSUME IInv, ~wr.err, Len(echoed) < received,
                      ~Outstanding(wr), rd.state # "done"
               PROVE  FALSE
    BY DEF HeldBytesMove
  <2>1. InWrite = 0 /\ JustRead = 0 /\ unsent_count = 0
    BY DEF InWrite, JustRead, IInv, UnsentTellsState
  <2>2. HeldBack = 0
    BY <2>1 DEF HeldBack
  <2> QED
    BY <2>1, <2>2 DEF IInv, NothingLost, TypeOK
<1>2. IInv => FailedCanEnd
  <2> SUFFICES ASSUME IInv, rd.err \/ wr.err, session # "deleted"
               PROVE  \/ destroys > 0
                      \/ "done" \in {rd.state, wr.state}
                      \/ wr.state = "pending"
                      \/ wr.err /\ rd.state = "pending"
    BY DEF FailedCanEnd
  <2>1. /\ rd.state \in OpStates /\ wr.state \in OpStates
        /\ session = "open"
    BY DEF IInv, TypeOK, ReadOps, WriteOps, BeforeAccept
  <2>2. rd.err => rd.state # "pending"
    BY DEF IInv, OpsWellFormed
  <2>3. CASE ~Outstanding(rd) /\ ~Outstanding(wr)
    BY <2>1, <2>3 DEF IInv, DestroyedOnceAndQuiet
  <2>4. CASE Outstanding(rd) \/ Outstanding(wr)
    BY <2>1, <2>2, <2>4 DEF Outstanding, OpStates
  <2> QED
    BY <2>3, <2>4
<1> QED
  BY <1>1, <1>2, SessionInvariant, PTL

(* After an error each step takes the session nearer to its deletion,       *)
(* whichever operation failed and whatever the other one was doing.         *)
THEOREM FailedSessionRunsDown == Spec => [][FailedRunsDown]_vars
<1>1. IInv /\ [Next]_vars => [FailedRunsDown]_vars
  BY NextLeft
<1> QED
  BY <1>1, SessionInvariant, PTL DEF Spec

-------------------------------------------------------------------------------
(* The work that a session has before it, when nothing more comes in.  A    *)
(* message that waits for its write, in the handler's hands or held back,   *)
(* takes at most four steps for each of its bytes: to be written, with the  *)
(* handler of the write, and to be read behind, with the handler of that.   *)
AcceptLeft == IF session = "accepting" THEN 3 ELSE 0

Work == 4 * (JustRead + HeldBack) + AcceptLeft + Left

(* Whatever the order in which its operations complete and fail, a session  *)
(* never launches more than the bytes that it has read pay for: between one *)
(* read and the next it comes to rest, and it does not spin on an error.    *)
SpendsWhatItReads ==
  /\ Work \in Nat
  /\ received' >= received
  /\ Work' < Work + 4 * (received' - received)

WorkTyped ==
  /\ JustRead \in Nat /\ HeldBack \in Nat /\ AcceptLeft \in {0, 3}
  /\ ReadLeft \in 0..2 /\ WriteLeft \in Nat /\ ObjectLeft \in 0..2

LEMMA WorkTypes == IInv => WorkTyped
<1> SUFFICES ASSUME IInv PROVE WorkTyped
  OBVIOUS
<1>1. rd.length \in Nat /\ read_data_length \in Nat
  BY BlockSizeAssumption DEF IInv, TypeOK, ReadOps
<1> QED
  BY <1>1, LeftTypes DEF WorkTyped, JustRead, HeldBack, AcceptLeft

LEMMA WorkNow ==
  ASSUME IInv
  PROVE  /\ JustRead \in Nat /\ HeldBack \in Nat /\ ReadLeft \in Nat
         /\ WriteLeft \in Nat /\ ObjectLeft \in Nat /\ AcceptLeft \in Nat
         /\ Work = 4 * (JustRead + HeldBack) + AcceptLeft
                      + (ReadLeft + WriteLeft + ObjectLeft)
<1>1. WorkTyped
  BY WorkTypes
<1>2. Work = 4 * (JustRead + HeldBack) + AcceptLeft
               + (ReadLeft + WriteLeft + ObjectLeft)
  BY Zenon DEF Work, Left
<1> QED
  BY <1>1, <1>2 DEF WorkTyped

LEMMA WorkNext ==
  ASSUME IInv'
  PROVE  /\ JustRead' \in Nat /\ HeldBack' \in Nat /\ ReadLeft' \in Nat
         /\ WriteLeft' \in Nat /\ ObjectLeft' \in Nat /\ AcceptLeft' \in Nat
         /\ Work' = 4 * (JustRead' + HeldBack') + AcceptLeft'
                       + (ReadLeft' + WriteLeft' + ObjectLeft')
<1>1. (IInv => WorkTyped)'
  BY WorkTypes, PTL
<1>2. Work' = 4 * (JustRead' + HeldBack') + AcceptLeft'
                + (ReadLeft' + WriteLeft' + ObjectLeft')
  BY Zenon DEF Work, Left
<1> QED
  BY <1>1, <1>2 DEF WorkTyped

(* What the socket does: a read takes in as much as it adds. *)
LEMMA SocketWork ==
  ASSUME IInv, IInv',
         ReadFails \/ WriteFails \/ WriteSome \/ \E n \in Offsets : ReadCompletes(n)
  PROVE  received' >= received /\ Work' < Work + 4 * (received' - received)
<1>now. PICK j, h, r, w, o, a \in Nat :
          /\ j = JustRead /\ h = HeldBack /\ r = ReadLeft /\ w = WriteLeft
          /\ o = ObjectLeft /\ a = AcceptLeft
  BY WorkNow
<1>next. PICK jj, hh, rr, ww, oo, aa \in Nat :
           /\ jj = JustRead' /\ hh = HeldBack' /\ rr = ReadLeft' /\ ww = WriteLeft'
           /\ oo = ObjectLeft' /\ aa = AcceptLeft'
  BY WorkNext
<1>work. /\ Work = 4 * (j + h) + a + (r + w + o)
         /\ Work' = 4 * (jj + hh) + aa + (rr + ww + oo)
  BY <1>now, <1>next, WorkNow, WorkNext
<1>b. PICK v, vv \in Nat : v = received /\ vv = received'
  BY MaxBytesAssumption DEF IInv, TypeOK
<1>c. /\ session' = session /\ destroys' = destroys /\ unsent_count' = unsent_count
      /\ read_data_length' = read_data_length
  BY DEF ReadFails, WriteFails, WriteSome, ReadCompletes, counters
<1>d. hh = h /\ oo = o /\ aa = a
  BY <1>now, <1>next, <1>c DEF HeldBack, ObjectLeft, AcceptLeft
<1>e. rd \in ReadOps /\ wr \in WriteOps /\ (wr.state = "pending" => wr.sent < wr.length)
  BY DEF IInv, TypeOK, OpsWellFormed
<1>1. CASE ReadFails
  <2>1. rd.state = "pending" /\ rd'.state = "done" /\ rd'.err /\ wr' = wr
    BY <1>1, <1>e DEF ReadFails, ReadOps
  <2>2. j = 0 /\ jj = 0 /\ r = 2 /\ rr = 1 /\ ww = w
    BY <1>now, <1>next, <2>1 DEF JustRead, ReadLeft, WriteLeft
  <2>3. vv = v
    BY <1>1, <1>b DEF ReadFails, stream
  <2>4. 4 * (jj + hh) + aa + (rr + ww + oo) < 4 * (j + h) + a + (r + w + o)
    BY <1>d, <2>2
  <2>5. 4 * (jj + hh) + aa + (rr + ww + oo) < 4 * (j + h) + a + (r + w + o) + 4 * (vv - v)
        /\ vv >= v
    BY <1>b, <2>3, <2>4
  <2> QED
    BY <1>work, <1>b, <2>5
<1>2. CASE WriteFails \/ WriteSome
  <2>1. /\ wr.state = "pending" /\ rd' = rd
        /\ \/ wr'.state = "done"
           \/ /\ wr'.state = "pending"
              /\ wr'.sent = wr.sent + 1 /\ wr'.length = wr.length
    BY <1>2, <1>e DEF WriteFails, WriteSome, WriteOps
  <2>2. wr.sent \in Int /\ wr.length \in Int /\ wr.sent < wr.length
    BY <1>e, <2>1, BlockSizeAssumption DEF WriteOps
  <2>3. WriteLeft' < WriteLeft
    BY <2>1, <2>2 DEF WriteLeft
  <2>4. j = jj /\ rr = r /\ ww < w
    BY <1>now, <1>next, <2>1, <2>3 DEF JustRead, ReadLeft
  <2>5. vv = v
    BY <1>2, <1>b DEF WriteFails, WriteSome, stream
  <2>6. 4 * (jj + hh) + aa + (rr + ww + oo) < 4 * (j + h) + a + (r + w + o)
    BY <1>d, <2>4
  <2>7. 4 * (jj + hh) + aa + (rr + ww + oo) < 4 * (j + h) + a + (r + w + o) + 4 * (vv - v)
        /\ vv >= v
    BY <1>b, <2>5, <2>6
  <2> QED
    BY <1>work, <1>b, <2>7
<1>3. ASSUME NEW n \in Offsets, ReadCompletes(n)
      PROVE  received' >= received /\ Work' < Work + 4 * (received' - received)
  <2>1. n \in Nat
    BY BlockSizeAssumption DEF Offsets
  <2>2. /\ rd.state = "pending" /\ rd'.state = "done" /\ rd'.length = n /\ wr' = wr
        /\ rd'.err = rd.err
    BY <1>3, <1>e DEF ReadCompletes, ReadOps
  <2>3. ~rd.err
    BY <2>2 DEF IInv, OpsWellFormed
  <2>4. j = 0 /\ jj = n /\ r = 2 /\ rr = 1 /\ ww = w
    BY <1>now, <1>next, <2>2, <2>3 DEF JustRead, ReadLeft, WriteLeft
  <2>5. vv = v + n
    BY <1>3, <1>b DEF ReadCompletes
  <2>6. vv >= v /\ 4 * (jj + hh) + aa + (rr + ww + oo)
                     < 4 * (j + h) + a + (r + w + o) + 4 * (vv - v)
    BY <1>d, <2>1, <2>4, <2>5
  <2> QED
    BY <1>work, <1>b, <2>6
<1> QED
  BY <1>1, <1>2, <1>3

(* A handler that launches pays with the message that it writes. *)
LEMMA LaunchWork ==
  ASSUME IInv, IInv', NEW len \in Nat, len > 0, SwapAndLaunch(len),
         received' = received, session' = session,
         ~(destroys > 0) /\ session # "deleted",
         unsent_count' # 2,
         JustRead + HeldBack = len, ReadLeft + WriteLeft = 1
  PROVE  Work' < Work
<1>now. PICK j, h, r, w, o, a \in Nat :
          /\ j = JustRead /\ h = HeldBack /\ r = ReadLeft /\ w = WriteLeft
          /\ o = ObjectLeft /\ a = AcceptLeft
  BY WorkNow
<1>next. PICK jj, hh, rr, ww, oo, aa \in Nat :
           /\ jj = JustRead' /\ hh = HeldBack' /\ rr = ReadLeft' /\ ww = WriteLeft'
           /\ oo = ObjectLeft' /\ aa = AcceptLeft'
  BY WorkNext
<1>work. /\ Work = 4 * (j + h) + a + (r + w + o)
         /\ Work' = 4 * (jj + hh) + aa + (rr + ww + oo)
  BY <1>now, <1>next, WorkNow, WorkNext
<1>1. /\ rd'.state = "pending" /\ wr'.state = "pending"
      /\ wr'.sent = 0 /\ wr'.length = len
  BY DEF SwapAndLaunch, async_read_some, async_write
<1>2. jj = 0 /\ hh = 0 /\ rr = 2 /\ ww = 1 + len
  BY <1>now, <1>next, <1>1 DEF JustRead, HeldBack, ReadLeft, WriteLeft
<1>3. o = 2 /\ oo \in 0..2 /\ aa = a
  <2>1. o = 2 /\ aa = a
    BY <1>now, <1>next DEF ObjectLeft, AcceptLeft
  <2>2. ObjectLeft' \in 0..2
    BY DEF ObjectLeft
  <2> QED
    BY <1>next, <2>1, <2>2
<1>4. j + h = len /\ r + w = 1
  BY <1>now, <1>next
<1>5. 4 * (jj + hh) + aa + (rr + ww + oo) < 4 * (j + h) + a + (r + w + o)
  BY <1>2, <1>3, <1>4
<1> QED
  BY <1>work, <1>5

LEMMA HandlerWork ==
  ASSUME IInv, IInv', HandleRead \/ HandleWrite PROVE Work' < Work
<1>now. PICK j, h, r, w, o, a \in Nat :
          /\ j = JustRead /\ h = HeldBack /\ r = ReadLeft /\ w = WriteLeft
          /\ o = ObjectLeft /\ a = AcceptLeft
  BY WorkNow
<1>next. PICK jj, hh, rr, ww, oo, aa \in Nat :
           /\ jj = JustRead' /\ hh = HeldBack' /\ rr = ReadLeft' /\ ww = WriteLeft'
           /\ oo = ObjectLeft' /\ aa = AcceptLeft'
  BY WorkNext
<1>work. /\ Work = 4 * (j + h) + a + (r + w + o)
         /\ Work' = 4 * (jj + hh) + aa + (rr + ww + oo)
  BY <1>now, <1>next, WorkNow, WorkNext
<1>b. /\ rd \in ReadOps /\ wr \in WriteOps /\ unsent_count \in 0..2
      /\ session = "open" /\ destroys = 0 /\ session' = session
      /\ received' = received
      /\ rd.length \in Nat /\ read_data_length \in Nat
  BY BlockSizeAssumption DEF IInv, TypeOK, DestroyedOnceAndQuiet, BeforeAccept,
     HandleRead, HandleWrite, Outstanding, ReadOps, stream
<1>c. aa = a /\ oo <= o
  <2>1. aa = a /\ o = 2
    BY <1>now, <1>next, <1>b DEF AcceptLeft, ObjectLeft
  <2>2. ObjectLeft' \in 0..2
    BY DEF ObjectLeft
  <2> QED
    BY <1>next, <2>1, <2>2
<1>1. CASE HandleRead
  <2>1. rd.state = "done" /\ r = 1
    BY <1>1, <1>now, <1>next DEF HandleRead, ReadLeft
  <2>2. unsent_count = 0 => wr.state = "none"
    BY <2>1 DEF IInv, UnsentTellsState, Outstanding
  <2>3. unsent_count \in 0..1
    BY <1>b, <2>1 DEF IInv, UnsentTellsState, Outstanding
  <2>4. h = 0
    BY <1>now, <1>next, <2>3 DEF HeldBack
  <2>5. CASE ~rd.err /\ unsent_count = 0
    <3>1. unsent_count' = 1 /\ SwapAndLaunch(rd.length)
      BY <1>1, <2>5 DEF HandleRead
    <3>2. rd.length > 0 /\ JustRead = rd.length /\ HeldBack = 0
      BY <1>now, <1>next, <2>1, <2>4, <2>5 DEF IInv, OpsWellFormed, JustRead
    <3>3. ReadLeft = 1 /\ WriteLeft = 0
      BY <1>now, <1>next, <2>1, <2>2, <2>5 DEF WriteLeft
    <3>4. JustRead + HeldBack = rd.length /\ ReadLeft + WriteLeft = 1
      BY <1>b, <3>2, <3>3
    <3> QED
      BY <1>b, <3>1, <3>2, <3>4, LaunchWork
  <2>6. CASE ~rd.err /\ unsent_count = 1
    <3>1. /\ unsent_count' = 2 /\ read_data_length' = rd.length
          /\ rd' = [rd EXCEPT !.state = "none"] /\ wr' = wr
      BY <1>1, <2>6 DEF HandleRead
    <3>2. rd'.state = "none"
      BY <1>b, <3>1 DEF ReadOps
    <3>3. j = rd.length /\ jj = 0 /\ hh = rd.length /\ rr = 0 /\ ww = w
      BY <1>now, <1>next, <2>1, <2>6, <3>1, <3>2
         DEF JustRead, HeldBack, ReadLeft, WriteLeft
    <3>4. 4 * (jj + hh) + aa + (rr + ww + oo) < 4 * (j + h) + a + (r + w + o)
      BY <1>c, <2>1, <2>4, <3>3
    <3> QED
      BY <1>work, <3>4
  <2>7. CASE rd.err
    <3>1. /\ unsent_count' = unsent_count /\ read_data_length' = read_data_length
          /\ rd' = [rd EXCEPT !.state = "none"] /\ wr' = wr
      BY <1>1, <2>7 DEF HandleRead
    <3>2. rd'.state = "none"
      BY <1>b, <3>1 DEF ReadOps
    <3>3. j = 0 /\ jj = 0 /\ hh = h /\ rr = 0 /\ ww = w
      BY <1>now, <1>next, <2>1, <2>7, <3>1, <3>2
         DEF JustRead, HeldBack, ReadLeft, WriteLeft
    <3>4. 4 * (jj + hh) + aa + (rr + ww + oo) < 4 * (j + h) + a + (r + w + o)
      BY <1>c, <2>1, <3>3
    <3> QED
      BY <1>work, <3>4
  <2> QED
    BY <2>3, <2>5, <2>6, <2>7
<1>2. CASE HandleWrite
  <2>1. wr.state = "done" /\ w = 1
    BY <1>2, <1>now, <1>next DEF HandleWrite, WriteLeft
  <2>2. CASE ~wr.err /\ unsent_count = 2
    <3>1. unsent_count' = 1 /\ SwapAndLaunch(read_data_length)
      BY <1>2, <2>2 DEF HandleWrite
    <3>2. rd.state = "none" /\ read_data_length > 0
      BY <2>1, <2>2 DEF IInv, UnsentTellsState, Outstanding
    <3>3. JustRead = 0 /\ HeldBack = read_data_length
      BY <2>2, <3>2 DEF JustRead, HeldBack
    <3>4. ReadLeft = 0 /\ WriteLeft = 1
      BY <1>now, <1>next, <2>1, <3>2 DEF ReadLeft
    <3>5. JustRead + HeldBack = read_data_length /\ ReadLeft + WriteLeft = 1
      BY <1>b, <3>3, <3>4
    <3> QED
      BY <1>b, <3>1, <3>2, <3>5, LaunchWork
  <2>3. CASE ~(~wr.err /\ unsent_count = 2)
    <3>1. /\ wr' = [wr EXCEPT !.state = "none"] /\ rd' = rd
          /\ read_data_length' = read_data_length
          /\ unsent_count' = unsent_count \/ unsent_count' = unsent_count - 1
          /\ unsent_count = 2 => unsent_count' = 2
      BY <1>2, <1>b, <2>3 DEF HandleWrite
    <3>2. wr'.state = "none"
      BY <1>b, <3>1 DEF WriteOps
    <3>3. jj = j /\ hh <= h /\ rr = r /\ ww = 0
      <4>1. jj = j /\ rr = r /\ ww = 0
        BY <1>now, <1>next, <3>1, <3>2 DEF JustRead, ReadLeft, WriteLeft
      <4>2. hh = h \/ hh = 0
        BY <1>now, <1>next, <1>b, <3>1 DEF HeldBack
      <4> QED
        BY <4>1, <4>2
    <3>4. 4 * (jj + hh) + aa + (rr + ww + oo) < 4 * (j + h) + a + (r + w + o)
      BY <1>c, <2>1, <3>3
    <3> QED
      BY <1>work, <3>4
  <2> QED
    BY <2>2, <2>3
<1> QED
  BY <1>1, <1>2

LEMMA AcceptWork ==
  ASSUME IInv, IInv', HandleAccept \/ Destroy PROVE Work' < Work
<1>now. PICK j, h, r, w, o, a \in Nat :
          /\ j = JustRead /\ h = HeldBack /\ r = ReadLeft /\ w = WriteLeft
          /\ o = ObjectLeft /\ a = AcceptLeft
  BY WorkNow
<1>next. PICK jj, hh, rr, ww, oo, aa \in Nat :
           /\ jj = JustRead' /\ hh = HeldBack' /\ rr = ReadLeft' /\ ww = WriteLeft'
           /\ oo = ObjectLeft' /\ aa = AcceptLeft'
  BY WorkNext
<1>work. /\ Work = 4 * (j + h) + a + (r + w + o)
         /\ Work' = 4 * (jj + hh) + aa + (rr + ww + oo)
  BY <1>now, <1>next, WorkNow, WorkNext
<1>1. hh = h /\ ww = w
  BY <1>now, <1>next DEF HandleAccept, Destroy, counters, HeldBack, WriteLeft
<1>2. CASE HandleAccept
  <2>1. /\ session = "accepting" /\ session' # "accepting"
        /\ rd.state = "none" /\ destroys = 0
        /\ rd' = rd \/ rd'.state = "pending"
    BY <1>2 DEF HandleAccept, Start, async_read_some, IInv, BeforeAccept, Outstanding
  <2>2. j = 0 /\ jj = 0 /\ r = 0 /\ rr <= 2 /\ a = 3 /\ aa = 0 /\ o = 2 /\ oo <= 2
    BY <1>now, <1>next, <2>1 DEF JustRead, ReadLeft, AcceptLeft, ObjectLeft
  <2>3. 4 * (jj + hh) + aa + (rr + ww + oo) < 4 * (j + h) + a + (r + w + o)
    BY <1>1, <2>2
  <2> QED
    BY <1>work, <2>3
<1>3. CASE Destroy
  <2>1. /\ session = "open" /\ session' = "deleted" /\ rd' = rd /\ destroys > 0
    BY <1>3 DEF Destroy, IInv, DestroyedOnceAndQuiet
  <2>2. j = jj /\ r = rr /\ a = 0 /\ aa = 0 /\ o = 1 /\ oo = 0
    BY <1>now, <1>next, <2>1 DEF JustRead, ReadLeft, AcceptLeft, ObjectLeft
  <2>3. 4 * (jj + hh) + aa + (rr + ww + oo) < 4 * (j + h) + a + (r + w + o)
    BY <1>1, <2>2
  <2> QED
    BY <1>work, <2>3
<1> QED
  BY <1>2, <1>3

LEMMA NextWork == IInv /\ IInv' /\ [Next]_vars => [SpendsWhatItReads]_vars
<1> SUFFICES ASSUME IInv, IInv', Next, vars' # vars PROVE SpendsWhatItReads
  OBVIOUS
<1>1. Work \in Nat
  BY WorkTypes DEF WorkTyped, Work, Left
<1>2. CASE ReadFails \/ WriteFails \/ WriteSome \/ \E n \in Offsets : ReadCompletes(n)
  BY <1>1, <1>2, SocketWork DEF SpendsWhatItReads
<1>3. CASE HandleRead \/ HandleWrite \/ HandleAccept \/ Destroy
  <2>1. received' = received
    BY <1>3 DEF HandleRead, HandleWrite, HandleAccept, Destroy, stream
  <2>2. Work' < Work
    BY <1>3, HandlerWork, AcceptWork
  <2>3. PICK v \in Nat : v = received
    BY MaxBytesAssumption DEF IInv, TypeOK
  <2>4. v >= v /\ v - v = 0 /\ Work + 4 * (v - v) = Work
    BY <1>1, <2>3
  <2>5. received' >= received /\ Work + 4 * (received' - received) = Work
    BY <2>1, <2>3, <2>4
  <2> QED
    BY <1>1, <2>2, <2>5 DEF SpendsWhatItReads
<1> QED
  BY <1>2, <1>3 DEF Next, Deleted

(* A session takes at most five steps, and four for each byte that it reads *)
(* (Work is 5 initially), whatever completes, fails or is held back.        *)
THEOREM SessionSpendsWhatItReads ==
  Spec => [][SpendsWhatItReads]_vars
<1>1. IInv /\ IInv' /\ [Next]_vars => [SpendsWhatItReads]_vars
  BY NextWork
<1> QED
  BY <1>1, SessionInvariant, PTL DEF Spec
===============================================================================
