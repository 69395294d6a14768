-------------------------- MODULE ClassicClient_proof --------------------------
(***************************************************************************)
(* Proofs about the callback client, for any set of sessions, every block  *)
(* size and every bound on the bytes that a session reads.                 *)
(*                                                                         *)
(* The invariant has a part that speaks of one session object, SessionInv, *)
(* and a part that ties the objects to the timer, the list and main,       *)
(* ShutdownInv.  A handler or a completion turns one object into another,  *)
(* so that the first part is a matter of lemmas about objects.  At the end *)
(* come what the program's end rests on, and the sums that it prints.      *)
(***************************************************************************)
EXTENDS ClassicClient, FiniteSetTheorems, WellFoundedInduction, TLAPS

(* An operation in the kernel has not failed, and messages are never empty. *)
OpsWellFormed(o) ==
  /\ o.connect.state = "pending" => ~o.connect.err
  /\ o.rd.state = "pending" => ~o.rd.err
  /\ o.rd.state = "done" /\ ~o.rd.err =>
       o.rd.length > 0 /\ o.bytes_read + o.rd.length <= MaxBytes
  /\ o.wr.state = "pending" => ~o.wr.err
  /\ Outstanding(o.wr) => o.wr.length > 0

(* Until handle_connect has launched the first two operations, and for good *)
(* if it does not, nothing was read or written.                             *)
Unlaunched(o) == Outstanding(o.connect) \/ o.connect.err

UnlaunchedIsFresh(o) ==
  Unlaunched(o) =>
    /\ ~Outstanding(o.rd) /\ ~Outstanding(o.wr) /\ ~o.rd.err /\ ~o.wr.err
    /\ o.unwritten_count = 0 /\ o.bytes_written = 0 /\ o.bytes_read = 0

PointersFollowOps(o) ==
  /\ o.read_data # o.write_data
  /\ Outstanding(o.rd) => o.rd.buf = o.read_data
  /\ Outstanding(o.wr) => o.wr.buf = o.write_data

(* unwritten_count_ tells the states apart, as unsent_count_ does in the    *)
(* server: an operation that fails leaves it one short or one over, so that *)
(* no handler finds it at 1 again.                                          *)
UnwrittenTellsState(o) ==
  /\ ~Unlaunched(o) =>
       /\ Outstanding(o.rd) /\ Outstanding(o.wr) => o.unwritten_count = 1
       /\ Outstanding(o.rd) /\ ~Outstanding(o.wr) =>
            o.unwritten_count = IF o.wr.err THEN 1 ELSE 0
       /\ ~Outstanding(o.rd) /\ Outstanding(o.wr) =>
            o.unwritten_count = IF o.rd.err THEN 1 ELSE 2
       /\ ~Outstanding(o.rd) /\ ~Outstanding(o.wr) =>
            o.wr.err \/ (o.rd.err /\ o.unwritten_count = 0)
  /\ o.unwritten_count = 2 => o.read_data_length > 0

(* A read that has failed does not disturb the balance, a write that has    *)
(* failed leaves something uncounted for good.                              *)
Balance(o) ==
  /\ o.bytes_written <= BlockSize + o.bytes_read
  /\ ~Unlaunched(o) /\ ~o.wr.err =>
       o.bytes_written + Unwritten(o) = BlockSize + o.bytes_read

SessionInv(o) ==
  /\ o \in SessionObjects
  /\ OpsWellFormed(o)
  /\ UnlaunchedIsFresh(o)
  /\ PointersFollowOps(o)
  /\ UnwrittenTellsState(o)
  /\ Balance(o)

(* The timeout closes every session once, run() returns when that is done   *)
(* and nothing is outstanding, and sessions are deleted after that.         *)
ShutdownInv ==
  /\ \A s \in Sessions :
       IF stop_timer = "handled"
         THEN session[s].closes = IF session[s].socket = "open" THEN 1 ELSE 0
         ELSE session[s].closes = 0 /\ session[s].socket = "open"
  /\ program # "running" =>
       stop_timer = "handled" /\ \A s \in Sessions : ~SessionWork(s)
  /\ sessions_ # Sessions => program # "running"

IInv ==
  /\ TypeOK
  /\ \A s \in Sessions : SessionInv(session[s])
  /\ ShutdownInv

-------------------------------------------------------------------------------
LEMMA InitIInv == Init => IInv
<1> SUFFICES ASSUME Init PROVE IInv
  OBVIOUS
<1> USE ClientBlockSizeAssumption, ClientMaxBytesAssumption DEF Outstanding
<1>1. SessionInv(NewSession)
  <2>1. /\ NewSession.connect \in Connects
        /\ NewSession.rd \in ReadOps /\ NewSession.wr \in WriteOps
    BY DEF NewSession, Connects, ReadOps, WriteOps, OpStates, Buffers
  <2>2. NewSession \in SessionObjects
    BY <2>1 DEF NewSession, SessionObjects, Buffers
  <2>3. OpsWellFormed(NewSession) /\ UnlaunchedIsFresh(NewSession)
    BY DEF NewSession, OpsWellFormed, UnlaunchedIsFresh
  <2>4. /\ PointersFollowOps(NewSession) /\ UnwrittenTellsState(NewSession)
        /\ Balance(NewSession)
    BY DEF NewSession, PointersFollowOps, UnwrittenTellsState, Unlaunched, Balance
  <2> QED
    BY <2>2, <2>3, <2>4 DEF SessionInv
<1>2. TypeOK
  BY <1>1 DEF Init, TypeOK, SessionInv
<1>3. \A s \in Sessions : SessionInv(session[s])
  BY <1>1 DEF Init
<1>4. ShutdownInv
  BY DEF Init, ShutdownInv, NewSession
<1> QED
  BY <1>2, <1>3, <1>4 DEF IInv

(* An action on one session that is not its close: it has work before, so   *)
(* run() has not returned, and the shutdown is as far as it was.            *)
LEMMA BecomesIInv ==
  ASSUME IInv, NEW s \in Sessions, SessionWork(s), NEW p, Becomes(s, p),
         SessionInv(p),
         p.closes = session[s].closes, p.socket = session[s].socket
  PROVE  IInv'
<1>1. session \in [Sessions -> SessionObjects] /\ p \in SessionObjects
  BY DEF IInv, TypeOK, SessionInv
<1>2. /\ session' \in [Sessions -> SessionObjects]
      /\ session'[s] = p
      /\ \A t \in Sessions : t # s => session'[t] = session[t]
  BY <1>1 DEF Becomes
<1>3. TypeOK'
  BY <1>2 DEF IInv, TypeOK, Becomes
<1>4. \A t \in Sessions : SessionInv(session[t])'
  BY <1>2 DEF IInv
<1>5. program = "running"
  BY DEF IInv, ShutdownInv
<1>6. ShutdownInv'
  BY <1>2, <1>5 DEF IInv, ShutdownInv, Becomes
<1> QED
  BY <1>3, <1>4, <1>6 DEF IInv

-------------------------------------------------------------------------------
(* The kernel.  The object keeps its shape; what is left to show of it is   *)
(* how its operations look afterwards.                                      *)

LEMMA ConnectEndsIInv ==
  ASSUME IInv, NEW s \in Sessions, ConnectCompletes(s) \/ ConnectFails(s)
  PROVE  IInv'
<1>1. PICK o : o = session[s]
  OBVIOUS
<1>2. SessionInv(o) /\ o.connect.state = "pending" /\ SessionWork(s)
  BY <1>1 DEF IInv, ConnectCompletes, ConnectFails, SessionWork, Outstanding
<1>3. PICK c \in Connects : c.state = "done" /\ Becomes(s, [o EXCEPT !.connect = c])
  <2>1. o.connect \in Connects
    BY <1>2 DEF SessionInv, SessionObjects
  <2>2. /\ [o.connect EXCEPT !.state = "done"] \in Connects
        /\ [o.connect EXCEPT !.state = "done"].state = "done"
        /\ [o.connect EXCEPT !.state = "done", !.err = TRUE] \in Connects
        /\ [o.connect EXCEPT !.state = "done", !.err = TRUE].state = "done"
    BY <2>1 DEF Connects, OpStates
  <2>3. [o EXCEPT !.connect.state = "done", !.connect.err = TRUE]
          = [o EXCEPT !.connect = [o.connect EXCEPT !.state = "done", !.err = TRUE]]
    BY <1>2 DEF SessionInv, SessionObjects
  <2> QED
    BY <1>1, <2>2, <2>3 DEF ConnectCompletes, ConnectFails
<1>4. PICK p : p = [o EXCEPT !.connect = c]
  OBVIOUS
<1>5. SessionInv(p)
  <2>1. o \in SessionObjects
    BY <1>2 DEF SessionInv
  <2>2. p \in SessionObjects /\ p.connect = c
    BY <1>4, <2>1 DEF SessionObjects
  <2>3. Unlaunched(o) /\ Unlaunched(p)
    BY <1>2, <1>3, <2>2 DEF Unlaunched, Outstanding
  <2>4. /\ OpsWellFormed(p) /\ UnlaunchedIsFresh(p) /\ PointersFollowOps(p)
        /\ UnwrittenTellsState(p) /\ Balance(p)
    BY <1>2, <1>3, <1>4, <2>1, <2>2, <2>3
       DEF SessionInv, SessionObjects, OpsWellFormed, UnlaunchedIsFresh,
           PointersFollowOps, UnwrittenTellsState, Balance, Unwritten, Outstanding
  <2> QED
    BY <2>2, <2>4 DEF SessionInv
<1>6. p.closes = o.closes /\ p.socket = o.socket
  BY <1>2, <1>4 DEF SessionInv, SessionObjects
<1> QED
  BY <1>1, <1>2, <1>3, <1>4, <1>5, <1>6, BecomesIInv

LEMMA ReadEndsIInv ==
  ASSUME IInv, NEW s \in Sessions,
         ReadFails(s) \/ \E n \in 1..BlockSize : ReadCompletes(s, n)
  PROVE  IInv'
<1> USE ClientBlockSizeAssumption, ClientMaxBytesAssumption
<1>1. PICK o : o = session[s]
  OBVIOUS
<1>2. SessionInv(o) /\ o.rd.state = "pending" /\ SessionWork(s)
  BY <1>1 DEF IInv, ReadFails, ReadCompletes, SessionWork, Outstanding
<1>3. PICK r \in ReadOps :
        /\ r.state = "done" /\ r.buf = o.rd.buf
        /\ ~r.err => r.length > 0 /\ o.bytes_read + r.length <= MaxBytes
        /\ Becomes(s, [o EXCEPT !.rd = r])
  <2>1. o.rd \in ReadOps /\ ~o.rd.err
    BY <1>2 DEF SessionInv, SessionObjects, OpsWellFormed
  <2>2. CASE ReadFails(s)
    <3>1. PICK r : r = [o.rd EXCEPT !.state = "done", !.err = TRUE]
      OBVIOUS
    <3>2. r \in ReadOps /\ r.state = "done" /\ r.buf = o.rd.buf /\ r.err
      BY <2>1, <3>1 DEF ReadOps, OpStates
    <3>3. [o EXCEPT !.rd.state = "done", !.rd.err = TRUE] = [o EXCEPT !.rd = r]
      BY <1>2, <3>1 DEF SessionInv, SessionObjects
    <3>4. Becomes(s, [o EXCEPT !.rd = r])
      BY <1>1, <2>2, <3>3 DEF ReadFails
    <3> QED
      BY <3>2, <3>4
  <2>3. ASSUME NEW n \in 1..BlockSize, ReadCompletes(s, n)
        PROVE  \E r \in ReadOps :
                 /\ r.state = "done" /\ r.buf = o.rd.buf
                 /\ ~r.err => r.length > 0 /\ o.bytes_read + r.length <= MaxBytes
                 /\ Becomes(s, [o EXCEPT !.rd = r])
    <3>1. PICK r : r = [o.rd EXCEPT !.state = "done", !.length = n]
      OBVIOUS
    <3>2. n \in 0..BlockSize /\ n > 0
      OBVIOUS
    <3>3. r \in ReadOps /\ r.state = "done" /\ r.buf = o.rd.buf /\ r.length = n
      BY <2>1, <3>1, <3>2 DEF ReadOps, OpStates
    <3>4. [o EXCEPT !.rd.state = "done", !.rd.length = n] = [o EXCEPT !.rd = r]
      BY <1>2, <3>1 DEF SessionInv, SessionObjects
    <3>5. o.bytes_read + n <= MaxBytes /\ Becomes(s, [o EXCEPT !.rd = r])
      BY <1>1, <2>3, <3>4 DEF ReadCompletes
    <3> QED
      BY <3>2, <3>3, <3>5
  <2> QED
    BY <2>2, <2>3
<1>4. PICK p : p = [o EXCEPT !.rd = r]
  OBVIOUS
<1>5. SessionInv(p)
  <2>1. o \in SessionObjects
    BY <1>2 DEF SessionInv
  <2>2. p \in SessionObjects /\ p.rd = r
    BY <1>4, <2>1 DEF SessionObjects
  <2>3. Outstanding(o.rd) /\ Outstanding(p.rd)
    BY <1>2, <1>3, <2>2 DEF Outstanding
  <2>4. /\ p.connect = o.connect /\ p.wr = o.wr
        /\ p.read_data = o.read_data /\ p.write_data = o.write_data
        /\ p.read_data_length = o.read_data_length
        /\ p.unwritten_count = o.unwritten_count
        /\ p.bytes_written = o.bytes_written /\ p.bytes_read = o.bytes_read
    BY <1>4, <2>1 DEF SessionObjects
  <2>5. OpsWellFormed(p) /\ PointersFollowOps(p) /\ Balance(p)
    BY <1>2, <1>3, <2>2, <2>3, <2>4
       DEF SessionInv, OpsWellFormed, PointersFollowOps, Balance, Unlaunched, Unwritten
  <2>6. UnlaunchedIsFresh(p) /\ UnwrittenTellsState(p)
    BY <1>2, <2>2, <2>3, <2>4
       DEF SessionInv, UnlaunchedIsFresh, UnwrittenTellsState, Unlaunched
  <2> QED
    BY <2>2, <2>5, <2>6 DEF SessionInv
<1>6. p.closes = o.closes /\ p.socket = o.socket
  BY <1>2, <1>4 DEF SessionInv, SessionObjects
<1> QED
  BY <1>1, <1>2, <1>3, <1>4, <1>5, <1>6, BecomesIInv

(* Whatever becomes of a write, the balance counts its whole message until  *)
(* its handler has run.                                                     *)
LEMMA WriteMovesIInv ==
  ASSUME IInv, NEW s \in Sessions,
         WriteFails(s) \/ \E n \in 1..BlockSize : WriteSome(s, n)
  PROVE  IInv'
<1> USE ClientBlockSizeAssumption, ClientMaxBytesAssumption
<1>1. PICK o : o = session[s]
  OBVIOUS
<1>2. SessionInv(o) /\ o.wr.state = "pending" /\ SessionWork(s)
  BY <1>1 DEF IInv, WriteFails, WriteSome, SessionWork, Outstanding
<1>3. PICK w \in WriteOps :
        /\ w.state \in {"pending", "done"}
        /\ w.buf = o.wr.buf /\ w.length = o.wr.length
        /\ w.state = "pending" => ~w.err
        /\ Becomes(s, [o EXCEPT !.wr = w])
  <2>1. o.wr \in WriteOps /\ ~o.wr.err
    BY <1>2 DEF SessionInv, SessionObjects, OpsWellFormed
  <2>2. CASE WriteFails(s)
    <3>1. PICK w : w = [o.wr EXCEPT !.state = "done", !.err = TRUE]
      OBVIOUS
    <3>2. /\ w \in WriteOps /\ w.state = "done"
          /\ w.buf = o.wr.buf /\ w.length = o.wr.length
      BY <2>1, <3>1 DEF WriteOps, OpStates
    <3>3. [o EXCEPT !.wr.state = "done", !.wr.err = TRUE] = [o EXCEPT !.wr = w]
      BY <1>2, <3>1 DEF SessionInv, SessionObjects
    <3>4. Becomes(s, [o EXCEPT !.wr = w])
      BY <1>1, <2>2, <3>3 DEF WriteFails
    <3> QED
      BY <3>2, <3>4
  <2>3. ASSUME NEW n \in 1..BlockSize, WriteSome(s, n)
        PROVE  \E w \in WriteOps :
                 /\ w.state \in {"pending", "done"}
                 /\ w.buf = o.wr.buf /\ w.length = o.wr.length
                 /\ w.state = "pending" => ~w.err
                 /\ Becomes(s, [o EXCEPT !.wr = w])
    <3>1. PICK st : st = IF o.wr.sent + n = o.wr.length THEN "done" ELSE o.wr.state
      OBVIOUS
    <3>2. st \in {"pending", "done"}
      BY <1>2, <3>1
    <3>3. o.wr.sent + n \in 0..BlockSize
      <4>1. o.wr.sent + n <= o.wr.length
        BY <1>1, <2>3 DEF WriteSome
      <4> QED
        BY <2>1, <4>1 DEF WriteOps
    <3>4. PICK w : w = [o.wr EXCEPT !.sent = o.wr.sent + n, !.state = st]
      OBVIOUS
    <3>5. /\ w \in WriteOps /\ w.state = st /\ ~w.err
          /\ w.buf = o.wr.buf /\ w.length = o.wr.length
      BY <2>1, <3>2, <3>3, <3>4 DEF WriteOps, OpStates
    <3>6. [o EXCEPT !.wr.sent = @ + n,
                    !.wr.state = IF o.wr.sent + n = o.wr.length THEN "done" ELSE @]
            = [o EXCEPT !.wr = w]
      BY <1>2, <2>1, <3>1, <3>4 DEF SessionInv, SessionObjects, WriteOps
    <3>7. Becomes(s, [o EXCEPT !.wr = w])
      BY <1>1, <2>3, <3>6 DEF WriteSome
    <3> QED
      BY <3>2, <3>5, <3>7
  <2> QED
    BY <2>2, <2>3
<1>4. PICK p : p = [o EXCEPT !.wr = w]
  OBVIOUS
<1>5. SessionInv(p)
  <2>1. o \in SessionObjects
    BY <1>2 DEF SessionInv
  <2>2. p \in SessionObjects /\ p.wr = w
    BY <1>4, <2>1 DEF SessionObjects
  <2>3. Outstanding(o.wr) /\ Outstanding(p.wr) /\ ~o.wr.err
    BY <1>2, <1>3, <2>2 DEF Outstanding, SessionInv, OpsWellFormed
  <2>4. /\ p.connect = o.connect /\ p.rd = o.rd
        /\ p.read_data = o.read_data /\ p.write_data = o.write_data
        /\ p.read_data_length = o.read_data_length
        /\ p.unwritten_count = o.unwritten_count
        /\ p.bytes_written = o.bytes_written /\ p.bytes_read = o.bytes_read
    BY <1>4, <2>1 DEF SessionObjects
  <2>5. OpsWellFormed(p) /\ PointersFollowOps(p) /\ Balance(p)
    BY <1>2, <1>3, <2>2, <2>3, <2>4
       DEF SessionInv, OpsWellFormed, PointersFollowOps, Balance, Unlaunched, Unwritten
  <2>6. UnlaunchedIsFresh(p) /\ UnwrittenTellsState(p)
    BY <1>2, <2>2, <2>3, <2>4
       DEF SessionInv, UnlaunchedIsFresh, UnwrittenTellsState, Unlaunched
  <2> QED
    BY <2>2, <2>5, <2>6 DEF SessionInv
<1>6. p.closes = o.closes /\ p.socket = o.socket
  BY <1>2, <1>4 DEF SessionInv, SessionObjects
<1> QED
  BY <1>1, <1>2, <1>3, <1>4, <1>5, <1>6, BecomesIInv

-------------------------------------------------------------------------------
(* The handlers. *)

LEMMA HandleConnectIInv ==
  ASSUME IInv, NEW s \in Sessions, HandleConnect(s)
  PROVE  IInv'
<1> USE ClientBlockSizeAssumption, ClientMaxBytesAssumption
<1>1. PICK o : o = session[s]
  OBVIOUS
<1>2. SessionInv(o) /\ o.connect.state = "done" /\ SessionWork(s)
  BY <1>1 DEF IInv, HandleConnect, SessionWork, Outstanding
<1>3. o \in SessionObjects /\ o.connect \in Connects
  BY <1>2 DEF SessionInv, SessionObjects
<1>4. /\ o.read_data \in Buffers /\ o.write_data \in Buffers
      /\ o.read_data # o.write_data
      /\ ~Outstanding(o.rd) /\ ~Outstanding(o.wr) /\ ~o.rd.err /\ ~o.wr.err
      /\ o.unwritten_count = 0 /\ o.bytes_written = 0 /\ o.bytes_read = 0
  BY <1>2, <1>3 DEF SessionInv, SessionObjects, UnlaunchedIsFresh, PointersFollowOps,
     Unlaunched, Outstanding
<1>5. CASE ~o.connect.err /\ Becomes(s, Connected(o))
  <2>1. PICK c : c = [o.connect EXCEPT !.state = "none"]
    OBVIOUS
  <2>2. c \in Connects /\ c.state = "none" /\ ~c.err
    BY <1>3, <1>5, <2>1 DEF Connects, OpStates
  <2>3. /\ async_write(o.write_data, BlockSize) \in WriteOps
        /\ async_read_some(o.read_data) \in ReadOps
    BY <1>4 DEF async_write, async_read_some, WriteOps, ReadOps, OpStates
  <2>4. PICK p : p = [o EXCEPT !.connect = c, !.unwritten_count = 1,
                               !.wr = async_write(o.write_data, BlockSize),
                               !.rd = async_read_some(o.read_data)]
    OBVIOUS
  <2>5. Connected(o) = p
    BY <1>3, <1>4, <2>1, <2>4 DEF Connected, SessionObjects
  <2>6. p \in SessionObjects
    <3>1. 1 \in 0..2
      OBVIOUS
    <3> QED
      BY <1>3, <2>2, <2>3, <2>4, <3>1, Zenon DEF SessionObjects
  <2>7. /\ p.connect = c
        /\ p.unwritten_count = 1
        /\ p.wr = async_write(o.write_data, BlockSize)
        /\ p.rd = async_read_some(o.read_data)
        /\ p.read_data = o.read_data /\ p.write_data = o.write_data
        /\ p.bytes_written = 0 /\ p.bytes_read = 0
        /\ p.closes = o.closes /\ p.socket = o.socket
    BY <1>3, <1>4, <2>4 DEF SessionObjects
  <2>8. ~Unlaunched(p)
    BY <2>2, <2>7 DEF Unlaunched, Outstanding
  <2>9. SessionInv(p)
    BY <1>4, <2>2, <2>6, <2>7, <2>8
       DEF SessionInv, OpsWellFormed, UnlaunchedIsFresh, PointersFollowOps,
           UnwrittenTellsState, Balance, Unwritten, Outstanding,
           async_write, async_read_some
  <2> QED
    BY <1>1, <1>2, <1>5, <2>5, <2>7, <2>9, BecomesIInv
<1>6. CASE Becomes(s, [o EXCEPT !.connect.state = "none", !.connect.err = TRUE])
  <2>1. PICK p : p = [o EXCEPT !.connect.state = "none", !.connect.err = TRUE]
    OBVIOUS
  <2>2. [o.connect EXCEPT !.state = "none", !.err = TRUE] \in Connects
    BY <1>3 DEF Connects, OpStates
  <2>3. /\ p \in SessionObjects
        /\ p.connect = [o.connect EXCEPT !.state = "none", !.err = TRUE]
        /\ p.rd = o.rd /\ p.wr = o.wr
        /\ p.unwritten_count = o.unwritten_count
        /\ p.read_data = o.read_data /\ p.write_data = o.write_data
        /\ p.bytes_written = 0 /\ p.bytes_read = 0
        /\ p.closes = o.closes /\ p.socket = o.socket
    BY <1>3, <1>4, <2>1, <2>2 DEF SessionObjects
  <2>4. p.connect.state = "none" /\ p.connect.err
    BY <1>3, <2>3 DEF Connects
  <2>5. SessionInv(p)
    BY <1>2, <1>4, <2>3, <2>4
       DEF SessionInv, OpsWellFormed, UnlaunchedIsFresh, PointersFollowOps,
           UnwrittenTellsState, Balance, Unlaunched, Outstanding
  <2> QED
    BY <1>1, <1>2, <1>6, <2>1, <2>3, <2>5, BecomesIInv
<1> QED
  BY <1>1, <1>5, <1>6 DEF HandleConnect

(* Both handlers: when they find the counter at 1, nothing is outstanding   *)
(* or has failed, and what they hold is what the balance asks for.          *)
LEMMA LaunchInv ==
  ASSUME NEW o \in SessionObjects, NEW len \in 1..BlockSize,
         ~Unlaunched(o), ~o.rd.err, ~o.wr.err, o.unwritten_count = 1,
         o.read_data # o.write_data,
         o.bytes_written + len = BlockSize + o.bytes_read
  PROVE  /\ SessionInv(SwapAndLaunch(o, len))
         /\ SwapAndLaunch(o, len).closes = o.closes
         /\ SwapAndLaunch(o, len).socket = o.socket
<1> USE ClientBlockSizeAssumption, ClientMaxBytesAssumption
<1>1. PICK p : p = SwapAndLaunch(o, len)
  OBVIOUS
<1>2. len \in 0..BlockSize /\ len > 0
  OBVIOUS
<1>3. /\ async_write(o.read_data, len) \in WriteOps
      /\ async_read_some(o.write_data) \in ReadOps
  BY <1>2 DEF SessionObjects, async_write, async_read_some, WriteOps, ReadOps, OpStates
<1>4. /\ p \in SessionObjects
      /\ p.connect = o.connect
      /\ p.read_data = o.write_data /\ p.write_data = o.read_data
      /\ p.wr = async_write(o.read_data, len)
      /\ p.rd = async_read_some(o.write_data)
      /\ p.unwritten_count = 1
      /\ p.bytes_written = o.bytes_written /\ p.bytes_read = o.bytes_read
      /\ p.closes = o.closes /\ p.socket = o.socket
  BY <1>1, <1>3 DEF SwapAndLaunch, SessionObjects
<1>5. ~Unlaunched(p) /\ p.connect.state = "none"
  BY <1>4 DEF Unlaunched, Outstanding
<1>6. /\ p.wr.state = "pending" /\ ~p.wr.err /\ p.wr.length = len
      /\ p.wr.buf = p.write_data
      /\ p.rd.state = "pending" /\ ~p.rd.err /\ p.rd.buf = p.read_data
  BY <1>4 DEF async_write, async_read_some
<1>7. OpsWellFormed(p) /\ UnlaunchedIsFresh(p) /\ PointersFollowOps(p)
  BY <1>2, <1>4, <1>5, <1>6
     DEF OpsWellFormed, UnlaunchedIsFresh, PointersFollowOps, Outstanding
<1>8. UnwrittenTellsState(p)
  BY <1>4, <1>6 DEF UnwrittenTellsState, Outstanding
<1>9. Balance(p)
  BY <1>2, <1>4, <1>6 DEF Balance, Unwritten, Outstanding, SessionObjects
<1> QED
  BY <1>1, <1>4, <1>7, <1>8, <1>9 DEF SessionInv

LEMMA HandleReadIInv ==
  ASSUME IInv, NEW s \in Sessions, HandleRead(s)
  PROVE  IInv'
<1> USE ClientBlockSizeAssumption, ClientMaxBytesAssumption
<1>1. PICK o : o = session[s]
  OBVIOUS
<1>2. SessionInv(o) /\ o.rd.state = "done" /\ SessionWork(s)
  BY <1>1 DEF IInv, HandleRead, SessionWork, Outstanding
<1>3. o \in SessionObjects /\ o.rd \in ReadOps /\ ~Unlaunched(o)
  BY <1>2 DEF SessionInv, SessionObjects, UnlaunchedIsFresh, Outstanding
<1>4. PICK r : r = [o.rd EXCEPT !.state = "none"]
  OBVIOUS
<1>5. /\ r \in ReadOps /\ ~Outstanding(r)
      /\ r.err = o.rd.err /\ r.length = o.rd.length /\ r.length \in 0..BlockSize
  BY <1>3, <1>4 DEF ReadOps, OpStates, Outstanding
<1>6. PICK idle : idle = [o EXCEPT !.rd = r]
  OBVIOUS
<1>7. idle \in SessionObjects
  BY <1>3, <1>5, <1>6, Zenon DEF SessionObjects
<1>8. /\ idle.rd = r /\ idle.wr = o.wr /\ idle.connect = o.connect
      /\ idle.read_data = o.read_data /\ idle.write_data = o.write_data
      /\ idle.read_data_length = o.read_data_length
      /\ idle.unwritten_count = o.unwritten_count
      /\ idle.bytes_written = o.bytes_written /\ idle.bytes_read = o.bytes_read
      /\ idle.closes = o.closes /\ idle.socket = o.socket
  BY <1>3, <1>6 DEF SessionObjects
<1>9. PICK got : got = [idle EXCEPT !.bytes_read = o.bytes_read + r.length,
                                    !.read_data_length = r.length,
                                    !.unwritten_count = o.unwritten_count + 1]
  OBVIOUS
<1>10. Becomes(s, IF r.err THEN idle
                  ELSE IF got.unwritten_count = 1
                    THEN SwapAndLaunch(got, got.read_data_length)
                    ELSE got)
  <2>1. idle = [session[s] EXCEPT !.rd.state = "none"]
    BY <1>1, <1>3, <1>4, <1>6 DEF SessionObjects
  <2>2. got = [idle EXCEPT !.bytes_read = @ + idle.rd.length,
                           !.read_data_length = idle.rd.length,
                           !.unwritten_count = @ + 1]
    BY <1>8, <1>9, <1>7 DEF SessionObjects
  <2> QED
    BY <1>8, <2>1, <2>2, Zenon DEF HandleRead
<1>11. CASE r.err
  <2>1. OpsWellFormed(idle) /\ PointersFollowOps(idle) /\ Balance(idle)
    BY <1>2, <1>5, <1>8
       DEF SessionInv, OpsWellFormed, PointersFollowOps, Balance, Unwritten, Unlaunched,
           Outstanding
  <2>2. UnlaunchedIsFresh(idle) /\ UnwrittenTellsState(idle)
    BY <1>2, <1>3, <1>5, <1>8, <1>11
       DEF SessionInv, UnlaunchedIsFresh, UnwrittenTellsState, Unlaunched, Outstanding
  <2> QED
    BY <1>1, <1>2, <1>7, <1>8, <1>10, <1>11, <2>1, <2>2, BecomesIInv DEF SessionInv
<1>12. CASE ~r.err
  <2>1. /\ r.length > 0 /\ o.bytes_read + r.length <= MaxBytes
        /\ o.unwritten_count \in {0, 1}
        /\ o.unwritten_count = 0 <=> ~Outstanding(o.wr) /\ ~o.wr.err
    BY <1>2, <1>3, <1>5, <1>12
       DEF SessionInv, OpsWellFormed, UnwrittenTellsState, Outstanding
  <2>2. got \in SessionObjects
    <3>1. /\ o.unwritten_count + 1 \in 0..2
          /\ o.bytes_read + r.length \in 0..MaxBytes
      BY <1>3, <1>5, <2>1 DEF SessionObjects
    <3> QED
      BY <1>5, <1>7, <1>9, <3>1, Zenon DEF SessionObjects
  <2>3. /\ got.rd = r /\ got.wr = o.wr /\ got.connect = o.connect
        /\ got.read_data = o.read_data /\ got.write_data = o.write_data
        /\ got.read_data_length = r.length
        /\ got.unwritten_count = o.unwritten_count + 1
        /\ got.bytes_written = o.bytes_written
        /\ got.bytes_read = o.bytes_read + r.length
        /\ got.closes = o.closes /\ got.socket = o.socket
    BY <1>7, <1>8, <1>9 DEF SessionObjects
  <2>4. ~Unlaunched(got)
    BY <1>3, <2>3 DEF Unlaunched
  <2>5. CASE o.unwritten_count = 0
    <3>1. got.unwritten_count = 1 /\ r.length \in 1..BlockSize
      BY <1>5, <2>1, <2>3, <2>5
    <3>2. got.bytes_written + r.length = BlockSize + got.bytes_read
      BY <1>2, <1>3, <1>5, <2>1, <2>3, <2>5
         DEF SessionInv, SessionObjects, Balance, Unwritten
    <3>3. ~got.rd.err /\ ~got.wr.err /\ got.read_data # got.write_data
      BY <1>2, <1>12, <2>1, <2>3, <2>5 DEF SessionInv, PointersFollowOps
    <3>4. /\ SessionInv(SwapAndLaunch(got, r.length))
          /\ SwapAndLaunch(got, r.length).closes = got.closes
          /\ SwapAndLaunch(got, r.length).socket = got.socket
      BY <2>2, <2>4, <3>1, <3>2, <3>3, LaunchInv
    <3>5. Becomes(s, SwapAndLaunch(got, r.length))
      BY <1>10, <1>12, <2>3, <3>1
    <3> QED
      BY <1>1, <1>2, <2>3, <3>4, <3>5, BecomesIInv
  <2>6. CASE o.unwritten_count = 1
    <3>1. OpsWellFormed(got) /\ UnlaunchedIsFresh(got) /\ PointersFollowOps(got)
      BY <1>2, <1>5, <2>3, <2>4
         DEF SessionInv, OpsWellFormed, UnlaunchedIsFresh, PointersFollowOps, Outstanding
    <3>2. UnwrittenTellsState(got)
      BY <1>5, <1>12, <2>1, <2>3, <2>6 DEF UnwrittenTellsState
    <3>3. Balance(got)
      BY <1>2, <1>3, <1>5, <2>3, <2>4, <2>6
         DEF SessionInv, SessionObjects, WriteOps, Balance, Unwritten
    <3>4. SessionInv(got)
      BY <2>2, <3>1, <3>2, <3>3 DEF SessionInv
    <3>5. Becomes(s, got)
      BY <1>10, <1>12, <2>3, <2>6
    <3> QED
      BY <1>1, <1>2, <2>3, <3>4, <3>5, BecomesIInv
  <2> QED
    BY <2>1, <2>5, <2>6
<1> QED
  BY <1>5, <1>11, <1>12 DEF ReadOps

LEMMA HandleWriteIInv ==
  ASSUME IInv, NEW s \in Sessions, HandleWrite(s)
  PROVE  IInv'
<1> USE ClientBlockSizeAssumption, ClientMaxBytesAssumption
<1>1. PICK o : o = session[s]
  OBVIOUS
<1>2. SessionInv(o) /\ o.wr.state = "done" /\ SessionWork(s)
  BY <1>1 DEF IInv, HandleWrite, SessionWork, Outstanding
<1>3. o \in SessionObjects /\ o.wr \in WriteOps /\ ~Unlaunched(o)
  BY <1>2 DEF SessionInv, SessionObjects, UnlaunchedIsFresh, Outstanding
<1>4. PICK w : w = [o.wr EXCEPT !.state = "none"]
  OBVIOUS
<1>5. /\ w \in WriteOps /\ ~Outstanding(w)
      /\ w.err = o.wr.err /\ w.length = o.wr.length /\ w.length \in 0..BlockSize
  BY <1>3, <1>4 DEF WriteOps, OpStates, Outstanding
<1>6. w.length > 0
  BY <1>2, <1>5 DEF SessionInv, OpsWellFormed, Outstanding
<1>7. PICK idle : idle = [o EXCEPT !.wr = w]
  OBVIOUS
<1>8. idle \in SessionObjects
  BY <1>3, <1>5, <1>7, Zenon DEF SessionObjects
<1>9. /\ idle.wr = w /\ idle.rd = o.rd /\ idle.connect = o.connect
      /\ idle.read_data = o.read_data /\ idle.write_data = o.write_data
      /\ idle.read_data_length = o.read_data_length
      /\ idle.unwritten_count = o.unwritten_count
      /\ idle.bytes_written = o.bytes_written /\ idle.bytes_read = o.bytes_read
      /\ idle.closes = o.closes /\ idle.socket = o.socket
  BY <1>3, <1>7 DEF SessionObjects
<1>10. PICK put : put = [idle EXCEPT !.bytes_written = o.bytes_written + w.length,
                                     !.unwritten_count = o.unwritten_count - 1]
  OBVIOUS
<1>11. Becomes(s, IF w.err THEN idle
                  ELSE IF put.unwritten_count = 1
                    THEN SwapAndLaunch(put, put.read_data_length)
                    ELSE put)
  <2>1. idle = [session[s] EXCEPT !.wr.state = "none"]
    BY <1>1, <1>3, <1>4, <1>7 DEF SessionObjects
  <2>2. put = [idle EXCEPT !.bytes_written = @ + idle.wr.length,
                           !.unwritten_count = @ - 1]
    BY <1>8, <1>9, <1>10 DEF SessionObjects
  <2>3. Becomes(s, IF idle.wr.err \/ idle.wr.length = 0 THEN idle
                   ELSE IF put.unwritten_count = 1
                     THEN SwapAndLaunch(put, put.read_data_length)
                     ELSE put)
    BY <2>1, <2>2, Zenon DEF HandleWrite
  <2>4. idle.wr = w /\ w.length # 0
    BY <1>5, <1>6, <1>9
  <2> QED
    BY <2>3, <2>4, Zenon
<1>12. CASE w.err
  <2>1. OpsWellFormed(idle) /\ PointersFollowOps(idle) /\ Balance(idle)
    BY <1>2, <1>5, <1>9, <1>12
       DEF SessionInv, OpsWellFormed, PointersFollowOps, Balance, Unlaunched, Outstanding
  <2>2. UnlaunchedIsFresh(idle) /\ UnwrittenTellsState(idle)
    BY <1>2, <1>3, <1>5, <1>9, <1>12
       DEF SessionInv, UnlaunchedIsFresh, UnwrittenTellsState, Unlaunched, Outstanding
  <2> QED
    BY <1>1, <1>2, <1>8, <1>9, <1>11, <1>12, <2>1, <2>2, BecomesIInv DEF SessionInv
<1>13. CASE ~w.err
  <2>1. /\ o.unwritten_count \in {1, 2}
        /\ o.unwritten_count = 2 <=> ~Outstanding(o.rd) /\ ~o.rd.err
        /\ o.unwritten_count = 2 => o.read_data_length > 0
    BY <1>2, <1>3, <1>5, <1>13
       DEF SessionInv, OpsWellFormed, UnwrittenTellsState, Outstanding
  <2>2. o.bytes_written + w.length <= BlockSize + o.bytes_read
    BY <1>2, <1>3, <1>5, <1>13
       DEF SessionInv, SessionObjects, Balance, Unwritten, Outstanding
  <2>3. put \in SessionObjects
    <3>1. /\ o.unwritten_count - 1 \in 0..2
          /\ o.bytes_written + w.length \in 0..(MaxBytes + BlockSize)
      BY <1>3, <1>5, <2>1, <2>2 DEF SessionObjects
    <3> QED
      BY <1>8, <1>10, <3>1, Zenon DEF SessionObjects
  <2>4. /\ put.wr = w /\ put.rd = o.rd /\ put.connect = o.connect
        /\ put.read_data = o.read_data /\ put.write_data = o.write_data
        /\ put.read_data_length = o.read_data_length
        /\ put.unwritten_count = o.unwritten_count - 1
        /\ put.bytes_written = o.bytes_written + w.length
        /\ put.bytes_read = o.bytes_read
        /\ put.closes = o.closes /\ put.socket = o.socket
    BY <1>8, <1>9, <1>10 DEF SessionObjects
  <2>5. ~Unlaunched(put)
    BY <1>3, <2>4 DEF Unlaunched
  <2>6. CASE o.unwritten_count = 2
    <3>1. put.unwritten_count = 1 /\ put.read_data_length \in 1..BlockSize
      BY <1>3, <2>1, <2>4, <2>6 DEF SessionObjects
    <3>2. put.bytes_written + put.read_data_length = BlockSize + put.bytes_read
      BY <1>2, <1>3, <1>5, <1>13, <2>4, <2>6
         DEF SessionInv, SessionObjects, Balance, Unwritten, Outstanding
    <3>3. ~put.rd.err /\ ~put.wr.err /\ put.read_data # put.write_data
      BY <1>2, <1>13, <2>1, <2>4, <2>6 DEF SessionInv, PointersFollowOps
    <3>4. /\ SessionInv(SwapAndLaunch(put, put.read_data_length))
          /\ SwapAndLaunch(put, put.read_data_length).closes = put.closes
          /\ SwapAndLaunch(put, put.read_data_length).socket = put.socket
      BY <2>3, <2>5, <3>1, <3>2, <3>3, LaunchInv
    <3>5. Becomes(s, SwapAndLaunch(put, put.read_data_length))
      BY <1>11, <1>13, <3>1
    <3> QED
      BY <1>1, <1>2, <2>4, <3>4, <3>5, BecomesIInv
  <2>7. CASE o.unwritten_count = 1
    <3>1. OpsWellFormed(put) /\ UnlaunchedIsFresh(put) /\ PointersFollowOps(put)
      BY <1>2, <1>5, <2>4, <2>5
         DEF SessionInv, OpsWellFormed, UnlaunchedIsFresh, PointersFollowOps, Outstanding
    <3>2. UnwrittenTellsState(put)
      BY <1>5, <1>13, <2>1, <2>4, <2>7 DEF UnwrittenTellsState
    <3>3. Balance(put)
      BY <1>2, <1>3, <1>5, <1>13, <2>2, <2>4, <2>5, <2>7
         DEF SessionInv, SessionObjects, Balance, Unwritten, Outstanding
    <3>4. SessionInv(put)
      BY <2>3, <3>1, <3>2, <3>3 DEF SessionInv
    <3>5. Becomes(s, put)
      BY <1>11, <1>13, <2>4, <2>7
    <3> QED
      BY <1>1, <1>2, <2>4, <3>4, <3>5, BecomesIInv
  <2> QED
    BY <2>1, <2>6, <2>7
<1> QED
  BY <1>5, <1>12, <1>13 DEF WriteOps

-------------------------------------------------------------------------------
(* The shutdown. *)

LEMMA CloseSocketIInv ==
  ASSUME IInv, NEW s \in Sessions, CloseSocket(s)
  PROVE  IInv'
<1>1. PICK o : o = session[s]
  OBVIOUS
<1>2. SessionInv(o) /\ o \in SessionObjects /\ o.closes > 0
  BY <1>1 DEF IInv, SessionInv, CloseSocket
<1>3. stop_timer = "handled" /\ o.closes = 1 /\ o.socket = "open"
  BY <1>1, <1>2 DEF IInv, ShutdownInv
<1>4. PICK p : p = [o EXCEPT !.closes = 0, !.socket = "closed"]
  OBVIOUS
<1>5. Becomes(s, p)
  <2>1. [o EXCEPT !.closes = @ - 1, !.socket = "closed"] = p
    BY <1>2, <1>3, <1>4 DEF SessionObjects
  <2> QED
    BY <1>1, <2>1 DEF CloseSocket
<1>6. p \in SessionObjects
  <2>1. 0 \in 0..1
    OBVIOUS
  <2> QED
    BY <1>2, <1>4, <2>1, Zenon DEF SessionObjects
<1>7. /\ p.connect = o.connect /\ p.rd = o.rd /\ p.wr = o.wr
      /\ p.read_data = o.read_data /\ p.write_data = o.write_data
      /\ p.read_data_length = o.read_data_length
      /\ p.unwritten_count = o.unwritten_count
      /\ p.bytes_written = o.bytes_written /\ p.bytes_read = o.bytes_read
      /\ p.closes = 0 /\ p.socket = "closed"
  BY <1>2, <1>4 DEF SessionObjects
<1>8. SessionInv(p)
  BY <1>2, <1>6, <1>7
     DEF SessionInv, OpsWellFormed, UnlaunchedIsFresh, PointersFollowOps,
         UnwrittenTellsState, Balance, Unwritten, Unlaunched
<1>9. session \in [Sessions -> SessionObjects]
  BY DEF IInv, TypeOK
<1>10. /\ session' \in [Sessions -> SessionObjects]
       /\ session'[s] = p
       /\ \A t \in Sessions : t # s => session'[t] = session[t]
  BY <1>5, <1>6, <1>9 DEF Becomes
<1>11. program = "running"
  BY <1>1, <1>2 DEF IInv, ShutdownInv, SessionWork
<1>12. TypeOK'
  BY <1>5, <1>10 DEF IInv, TypeOK, Becomes
<1>13. \A t \in Sessions : SessionInv(session[t])'
  BY <1>8, <1>10 DEF IInv
<1>14. ShutdownInv'
  BY <1>3, <1>5, <1>7, <1>10, <1>11 DEF IInv, ShutdownInv, Becomes
<1> QED
  BY <1>12, <1>13, <1>14 DEF IInv

LEMMA HandleTimeoutIInv == IInv /\ HandleTimeout => IInv'
<1> SUFFICES ASSUME IInv, HandleTimeout PROVE IInv'
  OBVIOUS
<1>1. stop_timer = "expired" /\ stop_timer' = "handled"
  BY DEF HandleTimeout
<1>2. ASSUME NEW s \in Sessions
      PROVE  /\ session'[s] \in SessionObjects
             /\ SessionInv(session'[s])
             /\ session'[s].closes = 1 /\ session'[s].socket = "open"
  <2>1. PICK o : o = session[s]
    OBVIOUS
  <2>2. /\ SessionInv(o) /\ o \in SessionObjects
        /\ o.closes = 0 /\ o.socket = "open"
    BY <1>1, <2>1 DEF IInv, SessionInv, ShutdownInv
  <2>3. PICK p : p = [o EXCEPT !.closes = 1]
    OBVIOUS
  <2>4. session'[s] = p
    BY <2>1, <2>2, <2>3 DEF HandleTimeout, Stop, SessionObjects
  <2>5. p \in SessionObjects
    <3>1. 1 \in 0..1
      OBVIOUS
    <3> QED
      BY <2>2, <2>3, <3>1, Zenon DEF SessionObjects
  <2>6. /\ p.connect = o.connect /\ p.rd = o.rd /\ p.wr = o.wr
        /\ p.read_data = o.read_data /\ p.write_data = o.write_data
        /\ p.read_data_length = o.read_data_length
        /\ p.unwritten_count = o.unwritten_count
        /\ p.bytes_written = o.bytes_written /\ p.bytes_read = o.bytes_read
        /\ p.closes = 1 /\ p.socket = "open"
    BY <2>2, <2>3 DEF SessionObjects
  <2>7. SessionInv(p)
    BY <2>2, <2>5, <2>6
       DEF SessionInv, OpsWellFormed, UnlaunchedIsFresh, PointersFollowOps,
           UnwrittenTellsState, Balance, Unwritten, Unlaunched
  <2> QED
    BY <2>4, <2>5, <2>6, <2>7
<1>3. session' = [s \in Sessions |-> session'[s]]
  BY DEF HandleTimeout
<1>4. TypeOK'
  BY <1>1, <1>2, <1>3 DEF IInv, TypeOK, HandleTimeout
<1>5. program = "running" /\ program' = "running" /\ sessions_' = sessions_
  BY <1>1 DEF IInv, TypeOK, ShutdownInv, HandleTimeout
<1>6. ShutdownInv'
  BY <1>1, <1>2, <1>5 DEF IInv, ShutdownInv
<1> QED
  BY <1>2, <1>4, <1>6 DEF IInv

(* Nothing else touches a session object. *)
LEMMA MainIInv ==
  ASSUME IInv,
         \/ TimerExpires \/ RunReturns \/ Exit \/ UNCHANGED vars
         \/ \E s \in Sessions : DeleteSession(s)
  PROVE  IInv'
<1>1. session' = session
  BY DEF TimerExpires, RunReturns, Exit, vars, DeleteSession
<1>2. \A s \in Sessions : SessionInv(session[s])' /\ (SessionWork(s)' <=> SessionWork(s))
  BY <1>1 DEF IInv, SessionWork
<1>3. CASE TimerExpires
  BY <1>1, <1>2, <1>3 DEF IInv, TypeOK, ShutdownInv, TimerExpires
<1>4. CASE RunReturns
  BY <1>1, <1>2, <1>4 DEF IInv, TypeOK, ShutdownInv, RunReturns
<1>5. CASE Exit
  BY <1>1, <1>2, <1>5 DEF IInv, TypeOK, ShutdownInv, Exit
<1>6. CASE UNCHANGED vars
  BY <1>1, <1>2, <1>6 DEF IInv, TypeOK, ShutdownInv, vars
<1>7. ASSUME NEW s \in Sessions, DeleteSession(s)
      PROVE  IInv'
  <2>1. session[s] \in SessionObjects
    BY DEF IInv, TypeOK
  <2>2. Add(session[s]) \in [written: Nat, read: Nat]
    BY <2>1, ClientBlockSizeAssumption, ClientMaxBytesAssumption
       DEF IInv, TypeOK, Add, SessionObjects
  <2>3. TypeOK'
    BY <1>1, <1>7, <2>2 DEF IInv, TypeOK, DeleteSession
  <2>4. ShutdownInv'
    BY <1>1, <1>2, <1>7 DEF IInv, ShutdownInv, DeleteSession
  <2> QED
    BY <1>2, <2>3, <2>4 DEF IInv
<1> QED
  BY <1>3, <1>4, <1>5, <1>6, <1>7

LEMMA NextIInv == IInv /\ [Next]_vars => IInv'
<1> SUFFICES ASSUME IInv, [Next]_vars PROVE IInv'
  OBVIOUS
<1>1. CASE \E s \in Sessions : SessionNext(s)
  <2>1. PICK s \in Sessions : SessionNext(s)
    BY <1>1
  <2>2. CASE ConnectCompletes(s) \/ ConnectFails(s)
    BY <2>2, ConnectEndsIInv
  <2>3. CASE ReadFails(s) \/ \E n \in 1..BlockSize : ReadCompletes(s, n)
    BY <2>3, ReadEndsIInv
  <2>4. CASE WriteFails(s) \/ \E n \in 1..BlockSize : WriteSome(s, n)
    BY <2>4, WriteMovesIInv
  <2>5. CASE HandleConnect(s)
    BY <2>5, HandleConnectIInv
  <2>6. CASE HandleRead(s)
    BY <2>6, HandleReadIInv
  <2>7. CASE HandleWrite(s)
    BY <2>7, HandleWriteIInv
  <2>8. CASE CloseSocket(s)
    BY <2>8, CloseSocketIInv
  <2>9. CASE DeleteSession(s)
    BY <2>9, MainIInv
  <2> QED
    BY <2>1, <2>2, <2>3, <2>4, <2>5, <2>6, <2>7, <2>8, <2>9 DEF SessionNext
<1>2. CASE HandleTimeout
  BY <1>2, HandleTimeoutIInv
<1>3. CASE TimerExpires \/ RunReturns \/ Exit \/ Exited \/ UNCHANGED vars
  BY <1>3, MainIInv DEF Exited
<1> QED
  BY <1>1, <1>2, <1>3 DEF Next

-------------------------------------------------------------------------------
(* The invariant of the callback client: each session object is consistent, *)
(* and the timer, the list and main are as far as the objects say.          *)
THEOREM ClientInvariant == Spec => []IInv
<1>1. Init => IInv
  BY InitIInv
<1>2. IInv /\ [Next]_vars => IInv'
  BY NextIInv
<1> QED
  BY <1>1, <1>2, PTL DEF Spec

(* Type correctness; unwritten_count_ never leaves 0..2, whatever fails.    *)
THEOREM TypeCorrect == Spec => []TypeOK
<1>1. IInv => TypeOK
  BY DEF IInv
<1> QED
  BY <1>1, ClientInvariant, PTL

(* While nothing has failed, a session has an operation outstanding, in one *)
(* of the three states that Gor/README.md draws, and is never stuck.        *)
THEOREM HealthySessionsAreNeverIdle == Spec => []HealthySessionIsNeverIdle
<1>1. IInv => HealthySessionIsNeverIdle
  <2> SUFFICES ASSUME IInv, NEW s \in Sessions, Healthy(s)
               PROVE  LET o == session[s] IN
                        \/ o.unwritten_count = 0 /\ Outstanding(o.rd) /\ ~Outstanding(o.wr)
                        \/ o.unwritten_count = 1 /\ Outstanding(o.rd) /\ Outstanding(o.wr)
                        \/ o.unwritten_count = 2 /\ ~Outstanding(o.rd) /\ Outstanding(o.wr)
    BY DEF HealthySessionIsNeverIdle
  <2>1. /\ UnwrittenTellsState(session[s]) /\ ~Unlaunched(session[s])
        /\ ~session[s].rd.err /\ ~session[s].wr.err
    BY DEF IInv, SessionInv, Healthy, Launched, Unlaunched
  <2> QED
    BY <2>1 DEF UnwrittenTellsState
<1> QED
  BY <1>1, ClientInvariant, PTL

(* While nothing has failed, what a session has written, is writing or      *)
(* holds is its first block and the bytes that it has counted as read.      *)
THEOREM TotalsBalance == Spec => []BytesBalance
<1>1. IInv => BytesBalance
  BY DEF IInv, SessionInv, Balance, BytesBalance, Healthy, Launched, Unlaunched
<1> QED
  BY <1>1, ClientInvariant, PTL

(* The write's buffer belongs to neither the read nor a held message.       *)
THEOREM WriteBufferIsExclusive == Spec => []WriteBufferExclusive
<1>1. IInv => WriteBufferExclusive
  <2> SUFFICES ASSUME IInv, NEW s \in Sessions, NEW o, o = session[s]
               PROVE  /\ Outstanding(o.rd) /\ Outstanding(o.wr) => o.rd.buf # o.wr.buf
                      /\ Outstanding(o.wr) /\ o.unwritten_count = 2 =>
                           o.wr.buf # o.read_data
    BY DEF WriteBufferExclusive
  <2> QED
    BY DEF IInv, SessionInv, PointersFollowOps
<1> QED
  BY <1>1, ClientInvariant, PTL

(* A session is deleted after the close of its socket has run and when no   *)
(* operation of it is outstanding, so that no handler can find it deleted.  *)
THEOREM DeletedSessionsAreQuiet == Spec => []DeletedQuiet
<1>1. IInv => DeletedQuiet
  <2> SUFFICES ASSUME IInv, NEW s \in Sessions, s \notin sessions_
               PROVE  session[s].socket = "closed" /\ ~SessionWork(s)
    BY DEF DeletedQuiet
  <2>1. stop_timer = "handled" /\ ~SessionWork(s)
    BY DEF IInv, ShutdownInv
  <2>2. session[s] \in SessionObjects
    BY DEF IInv, TypeOK
  <2>3. session[s].closes = 0
    BY <2>1, <2>2 DEF SessionWork, SessionObjects
  <2> QED
    BY <2>1, <2>2, <2>3 DEF IInv, ShutdownInv, SessionObjects
<1> QED
  BY <1>1, ClientInvariant, PTL

(* Once its destructor has added up a session nothing changes it: neither a *)
(* late handler nor another stop.  (TotalsAreComplete rests on this.)       *)
THEOREM DeletedSessionsStayAsTheyAre ==
  Spec => [][\A s \in Sessions : s \notin sessions_ => session'[s] = session[s]]_vars
<1>1. ASSUME IInv, Next, NEW s \in Sessions, s \notin sessions_
      PROVE  session'[s] = session[s]
  <2>1. stop_timer = "handled" /\ \A t \in Sessions : ~SessionWork(t)
    BY <1>1 DEF IInv, ShutdownInv
  <2>2. ASSUME NEW t \in Sessions, SessionNext(t), ~DeleteSession(t)
        PROVE  SessionWork(t)
    BY <2>2 DEF SessionNext, ConnectCompletes, ConnectFails, ReadCompletes, ReadFails,
       WriteSome, WriteFails, HandleConnect, HandleRead, HandleWrite, CloseSocket,
       SessionWork, Outstanding
  <2>3. ~HandleTimeout
    BY <2>1 DEF HandleTimeout
  <2> QED
    BY <1>1, <2>1, <2>2, <2>3
       DEF Next, TimerExpires, RunReturns, Exit, Exited, vars, DeleteSession
<1>2. IInv /\ [Next]_vars =>
        [\A s \in Sessions : s \notin sessions_ => session'[s] = session[s]]_vars
  BY <1>1
<1> QED
  BY <1>2, ClientInvariant, PTL DEF Spec

-------------------------------------------------------------------------------
(* After the timeout.  TimeoutEndsProgram is about every behaviour that the *)
(* scheduler treats fairly; what it rests on is proved here.  There is      *)
(* always a step that ends some of the outstanding work, and what is left   *)
(* of a session, once its socket is closed, is a number that each of its    *)
(* steps makes smaller.                                                     *)

(* A queued close, a handler ready to run, or an operation that the closed  *)
(* socket makes fail: a step that Fairness speaks of.                       *)
CanMove(o) ==
  \/ o.closes > 0
  \/ "done" \in {o.connect.state, o.rd.state, o.wr.state}
  \/ /\ o.socket = "closed"
     /\ "pending" \in {o.connect.state, o.rd.state, o.wr.state}

WorkCanEnd ==
  stop_timer = "handled" => \A s \in Sessions : SessionWork(s) => CanMove(session[s])

(* A handler that finds no error may launch two operations.  The handler of *)
(* a connect finds the socket closed, and launches none.                    *)
OpLeft(op) ==
  IF op.state = "none" THEN 0
  ELSE IF op.state = "pending" THEN 2
  ELSE IF op.err THEN 1
  ELSE 5

ConnectLeft(op) ==
  IF op.state = "none" THEN 0 ELSE IF op.state = "pending" THEN 2 ELSE 1

Left(o) == ConnectLeft(o.connect) + OpLeft(o.rd) + OpLeft(o.wr)

ClosedRunsDown ==
  \A s \in Sessions : session[s].socket = "closed" =>
    /\ session'[s].socket = "closed"
    /\ session'[s] # session[s] => Left(session'[s]) < Left(session[s])

LEMMA LeftTypes ==
  ASSUME NEW o
  PROVE  /\ ConnectLeft(o.connect) \in Nat /\ OpLeft(o.rd) \in Nat /\ OpLeft(o.wr) \in Nat
BY DEF ConnectLeft, OpLeft

(* Each action takes one operation of a closed session further. *)
LEMMA ClosedKernel ==
  ASSUME NEW s \in Sessions, session \in [Sessions -> SessionObjects],
         session[s].socket = "closed",
         \/ ConnectCompletes(s) \/ ConnectFails(s) \/ ReadFails(s) \/ WriteFails(s)
         \/ \E n \in 1..BlockSize : ReadCompletes(s, n) \/ WriteSome(s, n)
  PROVE  session'[s].socket = "closed" /\ Left(session'[s]) < Left(session[s])
<1>1. PICK o : o = session[s]
  OBVIOUS
<1>2. o \in SessionObjects /\ o.socket = "closed"
  BY <1>1
<1>3. o.connect \in Connects /\ o.rd \in ReadOps /\ o.wr \in WriteOps
  BY <1>2 DEF SessionObjects
<1>4. /\ ConnectLeft(o.connect) \in Nat /\ OpLeft(o.rd) \in Nat /\ OpLeft(o.wr) \in Nat
  BY <1>2, LeftTypes
<1>5. CASE ConnectFails(s)
  <2>1. PICK c : c = [o.connect EXCEPT !.state = "done", !.err = TRUE]
    OBVIOUS
  <2>2. c.state = "done"
    BY <1>3, <2>1 DEF Connects
  <2>3. PICK p : p = [o EXCEPT !.connect = c]
    OBVIOUS
  <2>4. session'[s] = p
    <3>1. [o EXCEPT !.connect.state = "done", !.connect.err = TRUE] = p
      BY <1>2, <2>1, <2>3 DEF SessionObjects
    <3> QED
      BY <1>1, <1>5, <3>1 DEF ConnectFails, Becomes
  <2>5. p.connect = c /\ p.rd = o.rd /\ p.wr = o.wr /\ p.socket = o.socket
    BY <1>2, <2>3 DEF SessionObjects
  <2>6. ConnectLeft(c) = 1 /\ ConnectLeft(o.connect) = 2
    BY <1>1, <1>5, <2>2 DEF ConnectLeft, ConnectFails
  <2> QED
    BY <1>1, <1>2, <1>4, <2>4, <2>5, <2>6 DEF Left
<1>6. CASE ReadFails(s)
  <2>1. PICK r : r = [o.rd EXCEPT !.state = "done", !.err = TRUE]
    OBVIOUS
  <2>2. r.state = "done" /\ r.err
    BY <1>3, <2>1 DEF ReadOps
  <2>3. PICK p : p = [o EXCEPT !.rd = r]
    OBVIOUS
  <2>4. session'[s] = p
    <3>1. [o EXCEPT !.rd.state = "done", !.rd.err = TRUE] = p
      BY <1>2, <2>1, <2>3 DEF SessionObjects
    <3> QED
      BY <1>1, <1>6, <3>1 DEF ReadFails, Becomes
  <2>5. p.connect = o.connect /\ p.rd = r /\ p.wr = o.wr /\ p.socket = o.socket
    BY <1>2, <2>3 DEF SessionObjects
  <2>6. OpLeft(r) = 1 /\ OpLeft(o.rd) = 2
    BY <1>1, <1>6, <2>2 DEF OpLeft, ReadFails
  <2> QED
    BY <1>1, <1>2, <1>4, <2>4, <2>5, <2>6 DEF Left
<1>7. CASE WriteFails(s)
  <2>1. PICK w : w = [o.wr EXCEPT !.state = "done", !.err = TRUE]
    OBVIOUS
  <2>2. w.state = "done" /\ w.err
    BY <1>3, <2>1 DEF WriteOps
  <2>3. PICK p : p = [o EXCEPT !.wr = w]
    OBVIOUS
  <2>4. session'[s] = p
    <3>1. [o EXCEPT !.wr.state = "done", !.wr.err = TRUE] = p
      BY <1>2, <2>1, <2>3 DEF SessionObjects
    <3> QED
      BY <1>1, <1>7, <3>1 DEF WriteFails, Becomes
  <2>5. p.connect = o.connect /\ p.rd = o.rd /\ p.wr = w /\ p.socket = o.socket
    BY <1>2, <2>3 DEF SessionObjects
  <2>6. OpLeft(w) = 1 /\ OpLeft(o.wr) = 2
    BY <1>1, <1>7, <2>2 DEF OpLeft, WriteFails
  <2> QED
    BY <1>1, <1>2, <1>4, <2>4, <2>5, <2>6 DEF Left
<1>8. ~ConnectCompletes(s) /\ ~\E n \in 1..BlockSize : ReadCompletes(s, n) \/ WriteSome(s, n)
  BY DEF ConnectCompletes, ReadCompletes, WriteSome
<1> QED
  BY <1>5, <1>6, <1>7, <1>8

(* A handler of a read or of a write whose object is closed: the operation  *)
(* is over, and at most two are launched.                                   *)
LEMMA LaunchLeft ==
  ASSUME NEW o, {"connect", "socket", "read_data", "write_data", "rd", "wr"} \subseteq DOMAIN o,
         NEW len
  PROVE  /\ SwapAndLaunch(o, len).socket = o.socket
         /\ Left(SwapAndLaunch(o, len)) = ConnectLeft(o.connect) + 4
<1>1. PICK p : p = SwapAndLaunch(o, len)
  OBVIOUS
<1>2. /\ p.connect = o.connect /\ p.socket = o.socket
      /\ p.wr = async_write(o.read_data, len)
      /\ p.rd = async_read_some(o.write_data)
  BY <1>1 DEF SwapAndLaunch
<1>3. p.wr.state = "pending" /\ p.rd.state = "pending"
  BY <1>2 DEF async_write, async_read_some
<1>4. OpLeft(p.rd) = 2 /\ OpLeft(p.wr) = 2 /\ ConnectLeft(o.connect) \in Nat
  BY <1>3, LeftTypes DEF OpLeft
<1> QED
  BY <1>1, <1>2, <1>4 DEF Left

LEMMA ClosedHandlers ==
  ASSUME IInv, NEW s \in Sessions, session[s].socket = "closed",
         HandleConnect(s) \/ HandleRead(s) \/ HandleWrite(s)
  PROVE  session'[s].socket = "closed" /\ Left(session'[s]) < Left(session[s])
<1> USE ClientBlockSizeAssumption, ClientMaxBytesAssumption
<1>1. PICK o : o = session[s]
  OBVIOUS
<1>2. o \in SessionObjects /\ o.socket = "closed" /\ SessionInv(o)
  BY <1>1 DEF IInv, TypeOK
<1>3. o.connect \in Connects /\ o.rd \in ReadOps /\ o.wr \in WriteOps
  BY <1>2 DEF SessionObjects
<1>4. /\ ConnectLeft(o.connect) \in Nat /\ OpLeft(o.rd) \in Nat /\ OpLeft(o.wr) \in Nat
  BY <1>2, LeftTypes
<1>5. session \in [Sessions -> SessionObjects]
  BY DEF IInv, TypeOK
<1>6. CASE HandleConnect(s)
  <2>1. PICK c : c = [o.connect EXCEPT !.state = "none", !.err = TRUE]
    OBVIOUS
  <2>2. c.state = "none"
    BY <1>3, <2>1 DEF Connects
  <2>3. PICK p : p = [o EXCEPT !.connect = c]
    OBVIOUS
  <2>4. session'[s] = p
    <3>1. [o EXCEPT !.connect.state = "none", !.connect.err = TRUE] = p
      BY <1>2, <2>1, <2>3 DEF SessionObjects
    <3> QED
      BY <1>1, <1>2, <1>5, <1>6, <3>1 DEF HandleConnect, Becomes
  <2>5. p.connect = c /\ p.rd = o.rd /\ p.wr = o.wr /\ p.socket = o.socket
    BY <1>2, <2>3 DEF SessionObjects
  <2>6. ConnectLeft(c) = 0 /\ ConnectLeft(o.connect) = 1
    BY <1>1, <1>6, <2>2 DEF ConnectLeft, HandleConnect
  <2> QED
    BY <1>1, <1>2, <1>4, <2>4, <2>5, <2>6 DEF Left
<1>7. CASE HandleRead(s)
  <2>1. o.rd.state = "done"
    BY <1>1, <1>7 DEF HandleRead
  <2>2. PICK r : r = [o.rd EXCEPT !.state = "none"]
    OBVIOUS
  <2>3. r \in ReadOps /\ r.err = o.rd.err /\ OpLeft(r) = 0
    BY <1>3, <2>2 DEF ReadOps, OpStates, OpLeft
  <2>4. PICK idle : idle = [o EXCEPT !.rd = r]
    OBVIOUS
  <2>5. idle \in SessionObjects
    BY <1>2, <2>3, <2>4, Zenon DEF SessionObjects
  <2>6. /\ idle.rd = r /\ idle.wr = o.wr /\ idle.connect = o.connect
        /\ idle.socket = o.socket
    BY <1>2, <2>4 DEF SessionObjects
  <2>7. Left(idle) = ConnectLeft(o.connect) + OpLeft(o.wr)
    BY <1>4, <2>3, <2>6 DEF Left
  <2>8. PICK got : got = [idle EXCEPT !.bytes_read = @ + idle.rd.length,
                                      !.read_data_length = idle.rd.length,
                                      !.unwritten_count = @ + 1]
    OBVIOUS
  <2>9. session'[s] = IF r.err THEN idle
                      ELSE IF got.unwritten_count = 1
                        THEN SwapAndLaunch(got, got.read_data_length)
                        ELSE got
    <3>1. idle = [session[s] EXCEPT !.rd.state = "none"]
      BY <1>1, <1>2, <2>2, <2>4 DEF SessionObjects
    <3>2. Becomes(s, IF r.err THEN idle
                     ELSE IF got.unwritten_count = 1
                       THEN SwapAndLaunch(got, got.read_data_length)
                       ELSE got)
      BY <1>7, <2>6, <2>8, <3>1, Zenon DEF HandleRead
    <3> QED
      BY <1>5, <3>2 DEF Becomes
  <2>10. /\ got.rd = r /\ got.wr = o.wr /\ got.connect = o.connect
         /\ got.socket = o.socket
         /\ {"connect", "socket", "read_data", "write_data", "rd", "wr"} \subseteq DOMAIN got
    BY <2>5, <2>6, <2>8 DEF SessionObjects
  <2>11. CASE r.err
    <3>1. OpLeft(o.rd) = 1
      BY <2>1, <2>3, <2>11 DEF OpLeft
    <3> QED
      BY <1>1, <1>2, <1>4, <2>6, <2>7, <2>9, <2>11, <3>1 DEF Left
  <2>12. CASE ~r.err
    <3>1. OpLeft(o.rd) = 5
      BY <2>1, <2>3, <2>12 DEF OpLeft
    <3>2. Left(o) = ConnectLeft(o.connect) + 5 + OpLeft(o.wr)
      BY <1>4, <3>1 DEF Left
    <3>3. Left(got) = ConnectLeft(o.connect) + OpLeft(o.wr)
      BY <1>4, <2>3, <2>10 DEF Left
    <3>4. CASE got.unwritten_count = 1
      <4>1. PICK p : p = SwapAndLaunch(got, got.read_data_length)
        OBVIOUS
      <4>2. p.socket = o.socket /\ Left(p) = ConnectLeft(o.connect) + 4
        BY <2>10, <4>1, LaunchLeft
      <4>3. session'[s] = p
        BY <2>9, <2>12, <3>4, <4>1
      <4> QED
        BY <1>1, <1>2, <1>4, <3>2, <4>2, <4>3
    <3>5. CASE got.unwritten_count # 1
      BY <1>1, <1>2, <1>4, <2>9, <2>10, <2>12, <3>2, <3>3, <3>5
    <3> QED
      BY <3>4, <3>5
  <2> QED
    BY <2>11, <2>12
<1>8. CASE HandleWrite(s)
  <2>1. o.wr.state = "done"
    BY <1>1, <1>8 DEF HandleWrite
  <2>2. PICK w : w = [o.wr EXCEPT !.state = "none"]
    OBVIOUS
  <2>3. /\ w \in WriteOps /\ w.err = o.wr.err /\ w.length = o.wr.length
        /\ OpLeft(w) = 0
    BY <1>3, <2>2 DEF WriteOps, OpStates, OpLeft
  <2>4. PICK idle : idle = [o EXCEPT !.wr = w]
    OBVIOUS
  <2>5. idle \in SessionObjects
    BY <1>2, <2>3, <2>4, Zenon DEF SessionObjects
  <2>6. /\ idle.wr = w /\ idle.rd = o.rd /\ idle.connect = o.connect
        /\ idle.socket = o.socket
    BY <1>2, <2>4 DEF SessionObjects
  <2>7. Left(idle) = ConnectLeft(o.connect) + OpLeft(o.rd)
    BY <1>4, <2>3, <2>6 DEF Left
  <2>8. PICK put : put = [idle EXCEPT !.bytes_written = @ + idle.wr.length,
                                      !.unwritten_count = @ - 1]
    OBVIOUS
  <2>9. session'[s] = IF w.err THEN idle
                      ELSE IF put.unwritten_count = 1
                        THEN SwapAndLaunch(put, put.read_data_length)
                        ELSE put
    <3>1. idle = [session[s] EXCEPT !.wr.state = "none"]
      BY <1>1, <1>2, <2>2, <2>4 DEF SessionObjects
    <3>2. Becomes(s, IF idle.wr.err \/ idle.wr.length = 0 THEN idle
                     ELSE IF put.unwritten_count = 1
                       THEN SwapAndLaunch(put, put.read_data_length)
                       ELSE put)
      BY <1>8, <2>8, <3>1, Zenon DEF HandleWrite
    <3>3. w.length # 0
      BY <1>2, <2>1, <2>3 DEF SessionInv, OpsWellFormed, Outstanding
    <3>4. Becomes(s, IF w.err THEN idle
                     ELSE IF put.unwritten_count = 1
                       THEN SwapAndLaunch(put, put.read_data_length)
                       ELSE put)
      BY <2>6, <3>2, <3>3, Zenon
    <3> QED
      BY <1>5, <3>4 DEF Becomes
  <2>10. /\ put.wr = w /\ put.rd = o.rd /\ put.connect = o.connect
         /\ put.socket = o.socket
         /\ {"connect", "socket", "read_data", "write_data", "rd", "wr"} \subseteq DOMAIN put
    BY <2>5, <2>6, <2>8 DEF SessionObjects
  <2>11. CASE w.err
    <3>1. OpLeft(o.wr) = 1
      BY <2>1, <2>3, <2>11 DEF OpLeft
    <3> QED
      BY <1>1, <1>2, <1>4, <2>6, <2>7, <2>9, <2>11, <3>1 DEF Left
  <2>12. CASE ~w.err
    <3>1. OpLeft(o.wr) = 5
      BY <2>1, <2>3, <2>12 DEF OpLeft
    <3>2. Left(o) = ConnectLeft(o.connect) + OpLeft(o.rd) + 5
      BY <3>1 DEF Left
    <3>3. Left(put) = ConnectLeft(o.connect) + OpLeft(o.rd)
      BY <1>4, <2>3, <2>10 DEF Left
    <3>4. CASE put.unwritten_count = 1
      <4>1. PICK p : p = SwapAndLaunch(put, put.read_data_length)
        OBVIOUS
      <4>2. p.socket = o.socket /\ Left(p) = ConnectLeft(o.connect) + 4
        BY <2>10, <4>1, LaunchLeft
      <4>3. session'[s] = p
        BY <2>9, <2>12, <3>4, <4>1
      <4> QED
        BY <1>1, <1>2, <1>4, <3>2, <4>2, <4>3
    <3>5. CASE put.unwritten_count # 1
      BY <1>1, <1>2, <1>4, <2>9, <2>10, <2>12, <3>2, <3>3, <3>5
    <3> QED
      BY <3>4, <3>5
  <2> QED
    BY <2>11, <2>12
<1> QED
  BY <1>6, <1>7, <1>8

(* The timeout and the close come before, main changes no session, and an   *)
(* action of a session leaves the others alone.                             *)
LEMMA NextClosed == IInv /\ [Next]_vars => ClosedRunsDown
<1> SUFFICES ASSUME IInv, [Next]_vars, NEW s \in Sessions, session[s].socket = "closed"
             PROVE  /\ session'[s].socket = "closed"
                    /\ session'[s] # session[s] => Left(session'[s]) < Left(session[s])
  BY DEF ClosedRunsDown
<1>1. session \in [Sessions -> SessionObjects]
  BY DEF IInv, TypeOK
<1>2. stop_timer = "handled" /\ session[s].closes = 0
  BY DEF IInv, ShutdownInv
<1>3. CASE SessionNext(s) /\ ~DeleteSession(s)
  <2>1. ~CloseSocket(s)
    BY <1>2 DEF CloseSocket
  <2>2. \/ HandleConnect(s) \/ HandleRead(s) \/ HandleWrite(s)
        \/ ConnectCompletes(s) \/ ConnectFails(s) \/ ReadFails(s) \/ WriteFails(s)
        \/ \E n \in 1..BlockSize : ReadCompletes(s, n) \/ WriteSome(s, n)
    BY <1>3, <2>1 DEF SessionNext
  <2> QED
    BY <1>1, <2>2, ClosedKernel, ClosedHandlers
<1>4. ASSUME NEW t \in Sessions, t # s, SessionNext(t) PROVE session'[s] = session[s]
  BY <1>1, <1>4
     DEF SessionNext, ConnectCompletes, ConnectFails, ReadCompletes, ReadFails, WriteSome,
         WriteFails, HandleConnect, HandleRead, HandleWrite, CloseSocket, DeleteSession,
         Becomes
<1>5. ASSUME \/ TimerExpires \/ HandleTimeout \/ RunReturns \/ Exit \/ Exited
             \/ UNCHANGED vars \/ DeleteSession(s)
      PROVE  session'[s] = session[s]
  BY <1>2, <1>5 DEF TimerExpires, HandleTimeout, RunReturns, Exit, Exited, vars, DeleteSession
<1> QED
  BY <1>3, <1>4, <1>5 DEF Next

(* What the timeout promises holds for any number of sessions, as far as    *)
(* safety goes: while run() has not returned, the work that keeps it there  *)
(* includes a step that the threads in run() or the kernel will take.       *)
THEOREM OutstandingWorkCanEnd == Spec => []WorkCanEnd
<1>1. IInv => WorkCanEnd
  <2> SUFFICES ASSUME IInv, stop_timer = "handled", NEW s \in Sessions, SessionWork(s),
                      NEW o, o = session[s]
               PROVE  CanMove(o)
    BY DEF WorkCanEnd
  <2>1. o \in SessionObjects /\ o.closes = IF o.socket = "open" THEN 1 ELSE 0
    BY DEF IInv, TypeOK, ShutdownInv
  <2>2. o.socket = "closed" \/ o.closes > 0
    BY <2>1 DEF SessionObjects
  <2>3. /\ o.connect.state \in OpStates /\ o.rd.state \in OpStates
        /\ o.wr.state \in OpStates
    BY <2>1 DEF SessionObjects, Connects, ReadOps, WriteOps
  <2>4. \/ Outstanding(o.connect) \/ Outstanding(o.rd) \/ Outstanding(o.wr)
        \/ o.closes > 0
    BY DEF SessionWork
  <2> QED
    BY <2>2, <2>3, <2>4 DEF CanMove, Outstanding, OpStates
<1> QED
  BY <1>1, ClientInvariant, PTL

(* Once the close of its socket has run, the socket stays closed and each   *)
(* step of the session makes what is left of it smaller: no handler that    *)
(* was queued before the close can keep the session at work for ever.       *)
THEOREM ClosedSessionsRunDown == Spec => [][ClosedRunsDown]_vars
<1>1. IInv /\ [Next]_vars => [ClosedRunsDown]_vars
  BY NextClosed
<1> QED
  BY <1>1, ClientInvariant, PTL DEF Spec

-------------------------------------------------------------------------------
(* Sums over finite sets.  MapThenSumSet takes the members of a set one     *)
(* after the other, in an order of its own; g holds the sums of f over the  *)
(* subsets of D.  Each fact about them is shown for a smallest              *)
(* counterexample.                                                          *)
First(u) == CHOOSE x \in u : TRUE

AddsUp(g, f, D) ==
  g = [u \in SUBSET D |-> IF u = {} THEN 0 ELSE f[First(u)] + g[u \ {First(u)}]]

(* Among subsets of a finite set there is one with none of the others       *)
(* inside it.                                                               *)
LEMMA SmallestMember ==
  ASSUME NEW D, IsFiniteSet(D), NEW T, T \subseteq SUBSET D, T # {}
  PROVE  \E m \in T : \A t \in T : t \subseteq m => t = m
<1>1. IsWellFoundedOn(StrictSubsetOrdering(D), SUBSET D)
  BY FS_StrictSubsetOrderingWellFounded, FS_FiniteSubsetsOfFinite
<1>2. PICK m \in T : \A t \in T : ~ (<<t, m>> \in StrictSubsetOrdering(D))
  BY <1>1, WFMin
<1>3. ASSUME NEW t \in T, t \subseteq m, t # m PROVE FALSE
  BY <1>2, <1>3 DEF StrictSubsetOrdering
<1> QED
  BY <1>2, <1>3

LEMMA FirstIsMember ==
  ASSUME NEW u, u # {}
  PROVE  First(u) \in u
BY DEF First

(* The sum over S does not depend on the set that S is a subset of. *)
LEMMA AddsUpUnique ==
  ASSUME NEW f, NEW D, NEW E, NEW g, NEW h, AddsUp(g, f, D), AddsUp(h, f, E),
         NEW S, IsFiniteSet(S), S \subseteq D, S \subseteq E
  PROVE  g[S] = h[S]
<1> DEFINE T == {t \in SUBSET S : g[t] # h[t]}
<1>1. SUFFICES ASSUME T # {} PROVE FALSE
  OBVIOUS
<1>2. PICK m \in T : \A t \in T : t \subseteq m => t = m
  <2> HIDE DEF T
  <2>1. T \subseteq SUBSET S
    BY DEF T
  <2> QED
    BY <1>1, <2>1, SmallestMember
<1>3. /\ g[m] = IF m = {} THEN 0 ELSE f[First(m)] + g[m \ {First(m)}]
      /\ h[m] = IF m = {} THEN 0 ELSE f[First(m)] + h[m \ {First(m)}]
  <2>1. m \in SUBSET D /\ m \in SUBSET E
    OBVIOUS
  <2> QED
    BY <2>1 DEF AddsUp
<1>4. m # {}
  BY <1>3
<1>5. g[m \ {First(m)}] = h[m \ {First(m)}]
  BY <1>2, <1>4, FirstIsMember
<1> QED
  BY <1>3, <1>4, <1>5

(* The recursion defines a function, over the subsets of any finite set. *)
LEMMA AddsUpExists ==
  ASSUME NEW D, IsFiniteSet(D), NEW f \in [D -> Nat]
  PROVE  \E g \in [SUBSET D -> Nat] : AddsUp(g, f, D)
<1> DEFINE T == {t \in SUBSET D : ~\E g \in [SUBSET t -> Nat] : AddsUp(g, f, t)}
<1>1. SUFFICES ASSUME T # {} PROVE FALSE
  OBVIOUS
<1>2. PICK m \in T : \A t \in T : t \subseteq m => t = m
  <2> HIDE DEF T
  <2>1. T \subseteq SUBSET D
    BY DEF T
  <2> QED
    BY <1>1, <2>1, SmallestMember
<1> DEFINE G(u) == CHOOSE g \in [SUBSET u -> Nat] : AddsUp(g, f, u)
           h == [u \in SUBSET m |->
                   IF u = {} THEN 0
                   ELSE f[First(u)] + G(u \ {First(u)})[u \ {First(u)}]]
<1>3. ASSUME NEW u \in SUBSET m, u # m
      PROVE  G(u) \in [SUBSET u -> Nat] /\ AddsUp(G(u), f, u)
  <2>1. \E g \in [SUBSET u -> Nat] : AddsUp(g, f, u)
    BY <1>2, <1>3
  <2> QED
    BY <2>1
<1>4. ASSUME NEW u \in SUBSET m, u # {}
      PROVE  /\ First(u) \in u /\ f[First(u)] \in Nat
             /\ u \ {First(u)} \in SUBSET m /\ u \ {First(u)} # m
             /\ IsFiniteSet(u \ {First(u)})
  <2>1. First(u) \in u
    BY <1>4, FirstIsMember
  <2> QED
    BY <2>1, FS_Subset
<1> HIDE DEF G
<1>5. h \in [SUBSET m -> Nat]
  <2>1. ASSUME NEW u \in SUBSET m, u # {}
        PROVE  f[First(u)] + G(u \ {First(u)})[u \ {First(u)}] \in Nat
    <3>1. PICK v : v = u \ {First(u)}
      OBVIOUS
    <3>2. v \in SUBSET v /\ G(v) \in [SUBSET v -> Nat] /\ f[First(u)] \in Nat
      BY <1>3, <1>4, <2>1, <3>1
    <3>3. PICK k \in Nat : k = G(v)[v]
      BY <3>2
    <3>4. f[First(u)] + k \in Nat
      BY <3>2
    <3> QED
      BY <3>1, <3>3, <3>4, Zenon
  <2> QED
    BY <2>1
<1>6. ASSUME NEW u \in SUBSET m, u # {}
      PROVE  h[u \ {First(u)}] = G(u \ {First(u)})[u \ {First(u)}]
  <2>1. PICK w : w = u \ {First(u)}
    OBVIOUS
  <2>2. w \in SUBSET m /\ w # m /\ IsFiniteSet(w)
    BY <1>4, <1>6, <2>1
  <2>3. AddsUp(G(w), f, w)
    BY <1>3, <2>2
  <2>4. G(w)[w] = IF w = {} THEN 0 ELSE f[First(w)] + G(w)[w \ {First(w)}]
    <3>1. w \in SUBSET w
      OBVIOUS
    <3> QED
      BY <2>3, <3>1 DEF AddsUp
  <2>5. CASE w = {}
    BY <2>1, <2>2, <2>4, <2>5
  <2>6. CASE w # {}
    <3>1. PICK v : v = w \ {First(w)}
      OBVIOUS
    <3>2. v \in SUBSET m /\ v # m /\ IsFiniteSet(v) /\ v \subseteq w
      BY <1>4, <2>2, <2>6, <3>1
    <3>3. AddsUp(G(v), f, v)
      BY <1>3, <3>2
    <3>4. G(w)[v] = G(v)[v]
      BY <2>3, <3>2, <3>3, AddsUpUnique
    <3> QED
      BY <2>1, <2>2, <2>4, <2>6, <3>1, <3>4
  <2> QED
    BY <2>5, <2>6
<1>7. AddsUp(h, f, m)
  BY <1>6 DEF AddsUp
<1> QED
  BY <1>2, <1>5, <1>7

LEMMA AddsUpNat ==
  ASSUME NEW D, IsFiniteSet(D), NEW f \in [D -> Nat], NEW g, AddsUp(g, f, D),
         NEW S, S \subseteq D
  PROVE  g[S] \in Nat
<1>1. PICK h \in [SUBSET D -> Nat] : AddsUp(h, f, D)
  BY AddsUpExists
<1>2. IsFiniteSet(S)
  BY FS_Subset
<1>3. g[S] = h[S]
  BY <1>1, <1>2, AddsUpUnique
<1> QED
  BY <1>1, <1>3

(* The order makes no difference: any member of S may be taken first. *)
LEMMA AddsUpAnyOrder ==
  ASSUME NEW D, IsFiniteSet(D), NEW f \in [D -> Nat],
         NEW g, AddsUp(g, f, D),
         NEW S, S \subseteq D, NEW x \in S
  PROVE  g[S] = g[S \ {x}] + f[x]
<1> DEFINE T == {t \in SUBSET D : \E y \in t : g[t] # g[t \ {y}] + f[y]}
<1>1. SUFFICES ASSUME T # {} PROVE FALSE
  OBVIOUS
<1>2. PICK m \in T : \A t \in T : t \subseteq m => t = m
  <2> HIDE DEF T
  <2>1. T \subseteq SUBSET D
    BY DEF T
  <2> QED
    BY <1>1, <2>1, SmallestMember
<1>3. ASSUME NEW t \in SUBSET D, t \subseteq m, t # m, NEW v \in t
      PROVE  g[t] = g[t \ {v}] + f[v]
  BY <1>2, <1>3
<1>4. PICK y \in m : g[m] # g[m \ {y}] + f[y]
  OBVIOUS
<1>5. PICK z : z = First(m)
  OBVIOUS
<1>6. m \in SUBSET D /\ z \in m /\ f[y] \in Nat /\ f[z] \in Nat
  BY <1>5, FirstIsMember
<1> HIDE DEF T
<1>7. g[m] = f[z] + g[m \ {z}]
  BY <1>5, <1>6 DEF AddsUp
<1>8. m \ {z} \in SUBSET D /\ m \ {y} \in SUBSET D /\ (m \ {z}) \ {y} \in SUBSET D
  BY <1>6
<1>9. g[m \ {z}] \in Nat /\ g[m \ {y}] \in Nat /\ g[(m \ {z}) \ {y}] \in Nat
  BY <1>8, AddsUpNat
<1>10. CASE y = z
  BY <1>4, <1>6, <1>7, <1>9, <1>10
<1>11. CASE y # z
  <2>1. y \in m \ {z} /\ z \in m \ {y} /\ m \ {z} # m /\ m \ {y} # m
    BY <1>6, <1>11
  <2>2. /\ g[m \ {z}] = g[(m \ {z}) \ {y}] + f[y]
        /\ g[m \ {y}] = g[(m \ {y}) \ {z}] + f[z]
    BY <1>3, <1>8, <2>1
  <2>3. (m \ {y}) \ {z} = (m \ {z}) \ {y}
    OBVIOUS
  <2>4. g[m \ {y}] = g[(m \ {z}) \ {y}] + f[z]
    BY <2>2, <2>3
  <2> HIDE DEF T
  <2> QED
    BY <1>4, <1>6, <1>7, <1>9, <2>2, <2>4
<1> QED
  BY <1>10, <1>11

(* What the objects of D have in one of their counters, together. *)
TotalBytes(objects, field, D) == MapThenSumSet(LAMBDA s : objects[s][field], D)

LEMMA TotalAddsUp ==
  ASSUME NEW objects, NEW field, NEW D, IsFiniteSet(D),
         NEW f, \A s \in D : f[s] = objects[s][field],
         NEW g, AddsUp(g, f, D)
  PROVE  TotalBytes(objects, field, D) = g[D]
<1> DEFINE Recursion(it) ==
      it = [u \in SUBSET D |->
              IF u = {} THEN 0
              ELSE objects[CHOOSE x \in u : TRUE][field]
                     + it[u \ {CHOOSE x \in u : TRUE}]]
<1>1. ASSUME NEW it PROVE Recursion(it) <=> AddsUp(it, f, D)
  <2>1. \A u \in SUBSET D : u # {} => f[First(u)] = objects[First(u)][field]
    BY FirstIsMember
  <2> QED
    BY <2>1 DEF AddsUp, First
<1>2. TotalBytes(objects, field, D) = (CHOOSE it : Recursion(it))[D]
  BY Zenon DEF TotalBytes, MapThenSumSet, MapThenFoldSet
<1> HIDE DEF Recursion
<1>3. AddsUp(CHOOSE it : Recursion(it), f, D)
  BY <1>1, Zenon
<1>4. (CHOOSE it : Recursion(it))[D] = g[D]
  BY <1>3, AddsUpUnique
<1> QED
  BY <1>2, <1>4

LEMMA TotalOfNone ==
  ASSUME NEW objects, NEW field
  PROVE  TotalBytes(objects, field, {}) = 0
<1>1. PICK f : f \in [{} -> Nat]
  <2>1. [s \in {} |-> 0] \in [{} -> Nat]
    OBVIOUS
  <2> QED
    BY <2>1
<1>2. PICK g \in [SUBSET {} -> Nat] : AddsUp(g, f, {})
  BY <1>1, FS_EmptySet, AddsUpExists
<1>3. TotalBytes(objects, field, {}) = g[{}]
  BY <1>2, FS_EmptySet, TotalAddsUp
<1>4. {} \in SUBSET {}
  OBVIOUS
<1> QED
  BY <1>2, <1>3, <1>4 DEF AddsUp

LEMMA TotalWithOneMore ==
  ASSUME NEW objects, NEW field, NEW D, IsFiniteSet(D),
         \A s \in D : objects[s][field] \in Nat,
         NEW x \in D
  PROVE  TotalBytes(objects, field, D)
           = TotalBytes(objects, field, D \ {x}) + objects[x][field]
<1>1. PICK f \in [D -> Nat] : \A s \in D : f[s] = objects[s][field]
  <2>1. [s \in D |-> objects[s][field]] \in [D -> Nat]
    OBVIOUS
  <2> QED
    BY <2>1
<1>2. PICK g \in [SUBSET D -> Nat] : AddsUp(g, f, D)
  BY AddsUpExists
<1>3. PICK E : E = D \ {x}
  OBVIOUS
<1>4. E \subseteq D /\ IsFiniteSet(E)
  BY <1>3, FS_Subset
<1>5. PICK e \in [E -> Nat] : \A s \in E : e[s] = f[s]
  <2>1. [s \in E |-> f[s]] \in [E -> Nat]
    BY <1>4
  <2> QED
    BY <2>1
<1>6. PICK h \in [SUBSET E -> Nat] : AddsUp(h, e, E)
  BY <1>4, AddsUpExists
<1>7. AddsUp(h, f, E)
  <2>1. \A u \in SUBSET E : u # {} => e[First(u)] = f[First(u)]
    BY <1>5, FirstIsMember
  <2> QED
    BY <1>6, <2>1 DEF AddsUp
<1>8. g[E] = h[E]
  BY <1>2, <1>4, <1>7, AddsUpUnique
<1>9. TotalBytes(objects, field, D) = g[D]
  BY <1>1, <1>2, TotalAddsUp
<1>10. TotalBytes(objects, field, E) = h[E]
  <2>1. \A s \in E : f[s] = objects[s][field]
    BY <1>1, <1>4
  <2> QED
    BY <1>4, <1>7, <2>1, TotalAddsUp
<1>11. g[D] = g[D \ {x}] + f[x]
  BY <1>2, AddsUpAnyOrder
<1> QED
  BY <1>1, <1>3, <1>8, <1>9, <1>10, <1>11

-------------------------------------------------------------------------------
(* The totals that main prints.  They hold what the deleted sessions had    *)
(* counted, and no session counts anything after its destructor has run.    *)
TotalsInv ==
  /\ stats.written = TotalBytes(session, "bytes_written", Sessions \ sessions_)
  /\ stats.read = TotalBytes(session, "bytes_read", Sessions \ sessions_)
  /\ program = "exited" => sessions_ = {}

LEMMA DeleteSessionTotals ==
  ASSUME IInv, TotalsInv, NEW s \in Sessions, DeleteSession(s)
  PROVE  TotalsInv'
<1>1. PICK D : D = Sessions \ sessions_'
  OBVIOUS
<1>2. IsFiniteSet(D) /\ s \in D /\ D \ {s} = Sessions \ sessions_
  <2>1. s \in D /\ D \ {s} = Sessions \ sessions_ /\ D \subseteq Sessions
    BY <1>1 DEF DeleteSession, IInv, TypeOK
  <2> QED
    BY <2>1, SessionsAssumption, FS_Subset
<1>3. /\ \A t \in D : session[t]["bytes_written"] \in Nat
      /\ \A t \in D : session[t]["bytes_read"] \in Nat
  <2>1. ASSUME NEW t \in D
        PROVE  session[t].bytes_written \in Nat /\ session[t].bytes_read \in Nat
    <3>1. session[t] \in SessionObjects
      BY <1>1 DEF IInv, TypeOK
    <3> QED
      BY <3>1, ClientBlockSizeAssumption, ClientMaxBytesAssumption DEF SessionObjects
  <2> QED
    BY <2>1
<1>4. /\ stats'.written = stats.written + session[s].bytes_written
      /\ stats'.read = stats.read + session[s].bytes_read
  BY DEF DeleteSession, Add
<1>5. TotalBytes(session, "bytes_written", D)
        = TotalBytes(session, "bytes_written", D \ {s}) + session[s]["bytes_written"]
  BY <1>2, <1>3, TotalWithOneMore
<1>6. TotalBytes(session, "bytes_read", D)
        = TotalBytes(session, "bytes_read", D \ {s}) + session[s]["bytes_read"]
  BY <1>2, <1>3, TotalWithOneMore
<1>7. session' = session /\ program' = "returned"
  BY DEF DeleteSession
<1> QED
  BY <1>1, <1>2, <1>4, <1>5, <1>6, <1>7 DEF TotalsInv

LEMMA NextTotals == IInv /\ TotalsInv /\ [Next]_vars => TotalsInv'
<1> SUFFICES ASSUME IInv, TotalsInv, [Next]_vars PROVE TotalsInv'
  OBVIOUS
<1>1. CASE \E s \in Sessions : DeleteSession(s)
  BY <1>1, DeleteSessionTotals
<1>2. ASSUME ~\E s \in Sessions : DeleteSession(s)
      PROVE  /\ stats' = stats /\ sessions_' = sessions_
             /\ program' = "exited" => program = "exited" \/ sessions_ = {}
  BY <1>2 DEF Next, SessionNext, Becomes, ConnectCompletes, ConnectFails, ReadCompletes,
     ReadFails, WriteSome, WriteFails, HandleConnect, HandleRead, HandleWrite,
     CloseSocket, TimerExpires, HandleTimeout, RunReturns, Exit, Exited, vars
<1>3. ASSUME sessions_ # Sessions, ~\E s \in Sessions : DeleteSession(s)
      PROVE  session' = session
  <2>1. stop_timer = "handled" /\ \A s \in Sessions : ~SessionWork(s)
    BY <1>3 DEF IInv, ShutdownInv
  <2> QED
    BY <1>3, <2>1
       DEF Next, SessionNext, ConnectCompletes, ConnectFails, ReadCompletes, ReadFails,
           WriteSome, WriteFails, HandleConnect, HandleRead, HandleWrite, CloseSocket,
           TimerExpires, HandleTimeout, RunReturns, Exit, Exited, vars,
           SessionWork, Outstanding
<1>4. CASE sessions_ = Sessions /\ ~\E s \in Sessions : DeleteSession(s)
  <2>1. Sessions \ sessions_ = {}
    BY <1>4
  <2> QED
    BY <1>2, <1>4, <2>1, TotalOfNone DEF TotalsInv
<1>5. CASE sessions_ # Sessions /\ ~\E s \in Sessions : DeleteSession(s)
  BY <1>2, <1>3, <1>5 DEF TotalsInv
<1> QED
  BY <1>1, <1>4, <1>5

(* The totals printed at the end are the sums, over all the sessions of the *)
(* command line, of what each of them has counted: none is missed, none is  *)
(* added twice, and no byte is counted after its session was added up.      *)
THEOREM PrintedTotalsAreComplete == Spec => []TotalsAreComplete
<1>1. Init => TotalsInv
  <2> SUFFICES ASSUME Init PROVE TotalsInv
    OBVIOUS
  <2>1. Sessions \ sessions_ = {} /\ stats.written = 0 /\ stats.read = 0
    BY DEF Init
  <2> QED
    BY <2>1, TotalOfNone DEF TotalsInv, Init
<1>2. IInv /\ TotalsInv /\ [Next]_vars => TotalsInv'
  BY NextTotals
<1>3. TotalsInv => TotalsAreComplete
  <2> SUFFICES ASSUME TotalsInv, program = "exited"
               PROVE  /\ stats.written = TotalBytes(session, "bytes_written", Sessions)
                      /\ stats.read = TotalBytes(session, "bytes_read", Sessions)
    BY Zenon DEF TotalsAreComplete, TotalBytes
  <2>1. Sessions \ sessions_ = Sessions
    BY DEF TotalsInv
  <2> QED
    BY <2>1 DEF TotalsInv
<1> QED
  BY <1>1, <1>2, <1>3, ClientInvariant, PTL DEF Spec
===============================================================================
