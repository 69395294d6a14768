--------------------------- MODULE ClassicEcho_proof ---------------------------
(***************************************************************************)
(* Proofs about the two callback programs against each other, for every    *)
(* block that their connection can carry round.                            *)
(*                                                                         *)
(* The composition takes no step that its components do not take alone, so *)
(* that both of their invariants hold in it.  What is left to prove is the *)
(* account of the connection: what one side has written and the other has  *)
(* not read is in flight; and that the client's close is enough for the    *)
(* server's session to come to its end.                                    *)
(***************************************************************************)
EXTENDS ClassicEcho, FiniteSetTheorems, TLAPS

(* The components again, with what is proved about them. *)
CP == INSTANCE ClassicClient_proof WITH Sessions <- {Peer}, session <- client
SP == INSTANCE ClassicServerSession_proof

(* What the client has written and read, its handlers that have yet to run  *)
(* included.                                                                *)
Sent == o.bytes_written + (IF o.wr.state # "none" THEN o.wr.sent ELSE 0)
Got  == o.bytes_read + (IF o.rd.state = "done" /\ ~o.rd.err THEN o.rd.length ELSE 0)

(* A write is done when its last byte has gone, and not before. *)
ClientWriteInv ==
  /\ o.wr.state = "pending" => o.wr.sent < o.wr.length
  /\ o.wr.state = "done" /\ ~o.wr.err => o.wr.sent = o.wr.length

ConnectionInv ==
  /\ up \in 0..Capacity /\ down \in 0..Capacity
  /\ ~o.wr.err => Sent = received + up
  /\ ~o.rd.err => Len(echoed) = Got + down

IInv ==
  /\ CP!IInv
  /\ SP!IInv
  /\ ClientWriteInv
  /\ ConnectionInv

-------------------------------------------------------------------------------
(* What the client's proofs assume of their sessions. *)
LEMMA OneSessionIsFinite == CP!SessionsAssumption
<1>1. IsFiniteSet({Peer})
  BY FS_Singleton
<1> QED
  BY <1>1 DEF CP!SessionsAssumption, CP!IsFiniteSet, IsFiniteSet

LEMMA ClientStep == [Next]_vars => [CP!Next]_CP!vars
<1> SUFFICES ASSUME Next PROVE CP!Next \/ UNCHANGED CP!vars
  BY DEF vars, clientVars, CP!vars
<1>1. ASSUME NEW s \in {Peer}, CP!SessionNext(s) PROVE CP!Next
  BY <1>1 DEF CP!Next
<1>2. Peer \in {Peer}
  OBVIOUS
<1>3. CASE C!TimerExpires \/ C!HandleTimeout \/ C!RunReturns \/ C!Exit
  BY <1>3 DEF CP!Next, C!TimerExpires, CP!TimerExpires, C!RunReturns, CP!RunReturns,
     C!Exit, CP!Exit, C!HandleTimeout, CP!HandleTimeout, C!Stop, CP!Stop,
     C!SessionWork, CP!SessionWork, C!Outstanding, CP!Outstanding
<1>4. CASE C!HandleConnect(Peer)
  BY <1>1, <1>2, <1>4 DEF CP!SessionNext, C!HandleConnect, CP!HandleConnect, C!Becomes, CP!Becomes,
     C!Connected, CP!Connected, C!async_write, CP!async_write,
     C!async_read_some, CP!async_read_some
<1>5. CASE C!HandleRead(Peer)
  BY <1>1, <1>2, <1>5 DEF CP!SessionNext, C!HandleRead, CP!HandleRead, C!Becomes, CP!Becomes,
     C!SwapAndLaunch, CP!SwapAndLaunch, C!async_write, CP!async_write,
     C!async_read_some, CP!async_read_some
<1>6. CASE C!HandleWrite(Peer)
  BY <1>1, <1>2, <1>6 DEF CP!SessionNext, C!HandleWrite, CP!HandleWrite, C!Becomes, CP!Becomes,
     C!SwapAndLaunch, CP!SwapAndLaunch, C!async_write, CP!async_write,
     C!async_read_some, CP!async_read_some
<1>7. CASE C!CloseSocket(Peer) \/ C!DeleteSession(Peer)
  BY <1>1, <1>2, <1>7 DEF CP!SessionNext, C!CloseSocket, CP!CloseSocket, C!Becomes, CP!Becomes,
     C!DeleteSession, CP!DeleteSession, C!Add, CP!Add
<1>8. CASE C!ConnectCompletes(Peer) \/ C!ConnectFails(Peer)
  BY <1>1, <1>2, <1>8 DEF CP!SessionNext, C!ConnectCompletes, CP!ConnectCompletes,
     C!ConnectFails, CP!ConnectFails, C!Becomes, CP!Becomes
<1>9. CASE C!ReadFails(Peer) \/ C!WriteFails(Peer)
  BY <1>1, <1>2, <1>9 DEF CP!SessionNext, C!ReadFails, CP!ReadFails,
     C!WriteFails, CP!WriteFails, C!Becomes, CP!Becomes
<1>10. ASSUME NEW n \in 1..BlockSize, C!ReadCompletes(Peer, n) PROVE CP!Next
  BY <1>1, <1>2, <1>10 DEF CP!SessionNext, C!ReadCompletes, CP!ReadCompletes,
     C!Becomes, CP!Becomes
<1>11. ASSUME NEW n \in 1..BlockSize, C!WriteSome(Peer, n) PROVE CP!Next
  BY <1>1, <1>2, <1>11 DEF CP!SessionNext, C!WriteSome, CP!WriteSome, C!Becomes, CP!Becomes
<1>12. 1 \in 1..BlockSize
  BY SizesAssumption
<1>13. CASE ClientRuns
  BY <1>3, <1>4, <1>5, <1>6, <1>7, <1>13 DEF ClientRuns
<1>14. CASE Connects \/ ClientOperationFails
  BY <1>8, <1>9, <1>14 DEF Connects, ClientOperationFails
<1>15. CASE ClientSends \/ ClientReceives
  BY <1>10, <1>11, <1>12, <1>15 DEF ClientSends, ClientReceives
<1>16. CASE ServerRuns \/ Accepts \/ ServerReceives \/ ServerSends \/ Breaks
            \/ ServerOperationFails \/ Over
  BY <1>16 DEF ServerRuns, Accepts, ServerReceives, ServerSends, Breaks,
     ServerOperationFails, Over, vars, clientVars, CP!vars
<1> QED
  BY <1>13, <1>14, <1>15, <1>16 DEF Next

LEMMA ServerStep == [Next]_vars => [SP!Next]_SP!vars
<1> SUFFICES ASSUME Next PROVE SP!Next \/ UNCHANGED SP!vars
  BY DEF vars, serverVars, SP!vars, SP!pointers, SP!counters, SP!stream
<1>1. CASE S!HandleAccept
  BY <1>1 DEF SP!Next, S!HandleAccept, SP!HandleAccept, S!Start, SP!Start, S!pointers,
     SP!pointers, S!stream, SP!stream, S!async_read_some, SP!async_read_some
<1>2. CASE S!HandleRead
  BY <1>2 DEF SP!Next, S!HandleRead, SP!HandleRead, S!SwapAndLaunch, SP!SwapAndLaunch,
     S!PostDestroyWhenIdle, SP!PostDestroyWhenIdle, S!pointers, SP!pointers,
     S!stream, SP!stream, S!async_write, SP!async_write,
     S!async_read_some, SP!async_read_some
<1>3. CASE S!HandleWrite
  BY <1>3 DEF SP!Next, S!HandleWrite, SP!HandleWrite, S!SwapAndLaunch, SP!SwapAndLaunch,
     S!PostDestroyWhenIdle, SP!PostDestroyWhenIdle, S!pointers, SP!pointers,
     S!stream, SP!stream, S!async_write, SP!async_write,
     S!async_read_some, SP!async_read_some
<1>4. CASE S!Destroy
  BY <1>4 DEF SP!Next, S!Destroy, SP!Destroy, S!pointers, SP!pointers,
     S!counters, SP!counters, S!stream, SP!stream
<1>5. CASE S!ReadFails \/ S!WriteFails
  BY <1>5 DEF SP!Next, S!ReadFails, SP!ReadFails, S!WriteFails, SP!WriteFails,
     S!pointers, SP!pointers, S!counters, SP!counters, S!stream, SP!stream
<1>6. ASSUME NEW n \in 1..BlockSize, S!ReadCompletes(n) PROVE SP!Next
  BY <1>6 DEF SP!Next, S!ReadCompletes, SP!ReadCompletes, S!Offsets, SP!Offsets,
     S!pointers, SP!pointers, S!counters, SP!counters
<1>7. CASE S!WriteSome
  BY <1>7 DEF SP!Next, S!WriteSome, SP!WriteSome, S!pointers, SP!pointers,
     S!counters, SP!counters
<1>8. CASE ServerRuns \/ Accepts \/ ServerReceives \/ ServerSends \/ ServerOperationFails
  BY <1>1, <1>2, <1>3, <1>4, <1>5, <1>6, <1>7, <1>8
     DEF ServerRuns, Accepts, ServerReceives, ServerSends, ServerOperationFails
<1>9. CASE ClientRuns \/ Connects \/ ClientSends \/ ClientReceives \/ Breaks
           \/ ClientOperationFails \/ Over
  BY <1>9 DEF ClientRuns, Connects, ClientSends, ClientReceives, Breaks,
     ClientOperationFails, Over, vars, serverVars, SP!vars, SP!pointers, SP!counters, SP!stream
<1> QED
  BY <1>8, <1>9 DEF Next

-------------------------------------------------------------------------------
(* A step of the client that passes k bytes to the connection and takes m   *)
(* from it.  A failed operation spoils its side of the account for good, as *)
(* no session launches it again.                                            *)
ClientMoves(k, m) ==
  /\ ClientWriteInv'
  /\ ~o'.wr.err => ~o.wr.err /\ Sent' = Sent + k
  /\ ~o'.rd.err => ~o.rd.err /\ Got' = Got + m

LEMMA ClientFacts ==
  ASSUME CP!IInv
  PROVE  /\ o \in CP!SessionObjects
         /\ CP!OpsWellFormed(o) /\ CP!UnlaunchedIsFresh(o) /\ CP!UnwrittenTellsState(o)
         /\ CP!Balance(o)
         /\ \A x : client' = [client EXCEPT ![Peer] = x] => o' = x
BY DEF CP!IInv, CP!SessionInv, CP!TypeOK, o

LEMMA NumberTypes ==
  ASSUME CP!IInv
  PROVE  /\ Sent \in Int /\ Got \in Int
         /\ o.wr.sent \in Nat /\ o.wr.length \in Nat /\ o.rd.length \in Nat
         /\ o.bytes_written \in Nat /\ o.bytes_read \in Nat
         /\ o.unwritten_count \in 0..2
<1>1. /\ o.rd \in CP!ReadOps /\ o.wr \in CP!WriteOps
      /\ o.bytes_written \in 0..(MaxBytes + BlockSize) /\ o.bytes_read \in 0..MaxBytes
      /\ o.unwritten_count \in 0..2
  BY ClientFacts DEF CP!SessionObjects
<1>2. /\ o.wr.sent \in Nat /\ o.wr.length \in Nat /\ o.rd.length \in Nat
      /\ o.bytes_written \in Nat /\ o.bytes_read \in Nat
  BY <1>1, SizesAssumption DEF CP!ReadOps, CP!WriteOps
<1> QED
  BY <1>1, <1>2 DEF Sent, Got

LEMMA ClientStays ==
  ASSUME CP!IInv, ClientWriteInv, o'.wr = o.wr, o'.rd = o.rd,
         o'.bytes_written = o.bytes_written, o'.bytes_read = o.bytes_read
  PROVE  ClientMoves(0, 0)
BY NumberTypes DEF ClientMoves, ClientWriteInv, Sent, Got

LEMMA ClientFails ==
  ASSUME CP!IInv, ClientWriteInv, C!ReadFails(Peer) \/ C!WriteFails(Peer)
  PROVE  ClientMoves(0, 0)
<1>1. CASE C!ReadFails(Peer)
  <2>1. o' = [o EXCEPT !.rd.state = "done", !.rd.err = TRUE]
    BY <1>1, ClientFacts DEF C!ReadFails, C!Becomes, o
  <2>2. /\ o'.rd.err /\ o'.wr = o.wr /\ o'.bytes_written = o.bytes_written
    BY <2>1, ClientFacts DEF CP!SessionObjects, CP!ReadOps
  <2> QED
    BY <2>2, NumberTypes DEF ClientMoves, ClientWriteInv, Sent
<1>2. CASE C!WriteFails(Peer)
  <2>1. o' = [o EXCEPT !.wr.state = "done", !.wr.err = TRUE]
    BY <1>2, ClientFacts DEF C!WriteFails, C!Becomes, o
  <2>2. /\ o'.wr.err /\ o'.wr.state = "done" /\ o'.rd = o.rd
        /\ o'.bytes_read = o.bytes_read
    BY <2>1, ClientFacts DEF CP!SessionObjects, CP!WriteOps
  <2> QED
    BY <2>2, NumberTypes DEF ClientMoves, ClientWriteInv, Got
<1> QED
  BY <1>1, <1>2

LEMMA ClientConnects ==
  ASSUME CP!IInv, ClientWriteInv,
         C!ConnectCompletes(Peer) \/ C!ConnectFails(Peer) \/ C!HandleConnect(Peer)
  PROVE  ClientMoves(0, 0)
<1>1. CASE o'.wr = o.wr /\ o'.rd = o.rd /\ o'.bytes_written = o.bytes_written
           /\ o'.bytes_read = o.bytes_read
  BY <1>1, ClientStays
<1>2. CASE C!ConnectCompletes(Peer) \/ C!ConnectFails(Peer)
  <2>1. \/ o' = [o EXCEPT !.connect.state = "done"]
        \/ o' = [o EXCEPT !.connect.state = "done", !.connect.err = TRUE]
    BY <1>2, ClientFacts DEF C!ConnectCompletes, C!ConnectFails, C!Becomes, o
  <2> QED
    BY <1>1, <2>1, ClientFacts DEF CP!SessionObjects
<1>3. CASE C!HandleConnect(Peer)
  <2>1. /\ o.connect.state = "done"
        /\ \/ o' = C!Connected(o)
           \/ o' = [o EXCEPT !.connect.state = "none", !.connect.err = TRUE]
    BY <1>3, ClientFacts DEF C!HandleConnect, C!Becomes, o
  <2>2. CASE o' = [o EXCEPT !.connect.state = "none", !.connect.err = TRUE]
    BY <1>1, <2>2, ClientFacts DEF CP!SessionObjects
  <2>3. CASE o' = C!Connected(o)
    <3>1. /\ o'.wr = C!async_write(o.write_data, BlockSize)
          /\ o'.rd = C!async_read_some(o.read_data)
          /\ o'.bytes_written = o.bytes_written /\ o'.bytes_read = o.bytes_read
      BY <2>3, ClientFacts DEF C!Connected, CP!SessionObjects
    <3>2. /\ o.rd.state = "none" /\ o.wr.state = "none" /\ ~o.rd.err /\ ~o.wr.err
      BY <2>1, ClientFacts DEF CP!UnlaunchedIsFresh, CP!Unlaunched, CP!Outstanding
    <3>3. /\ o'.wr.state = "pending" /\ o'.wr.sent = 0 /\ o'.wr.length = BlockSize
          /\ o'.rd.state = "pending"
      BY <3>1 DEF C!async_write, C!async_read_some
    <3> QED
      BY <3>1, <3>2, <3>3, NumberTypes, SizesAssumption
         DEF ClientMoves, ClientWriteInv, Sent, Got
  <2> QED
    BY <2>1, <2>2, <2>3
<1> QED
  BY <1>2, <1>3

LEMMA ClientReads ==
  ASSUME CP!IInv, ClientWriteInv, NEW n \in 1..BlockSize, C!ReadCompletes(Peer, n)
  PROVE  ClientMoves(0, n)
<1>1. /\ o.rd.state = "pending"
      /\ o' = [o EXCEPT !.rd.state = "done", !.rd.length = n]
  BY ClientFacts DEF C!ReadCompletes, C!Becomes, o
<1>2. /\ o'.rd.state = "done" /\ o'.rd.length = n /\ o'.rd.err = o.rd.err
      /\ o'.wr = o.wr /\ o'.bytes_written = o.bytes_written /\ o'.bytes_read = o.bytes_read
  BY <1>1, ClientFacts DEF CP!SessionObjects, CP!ReadOps
<1>3. n \in Int
  BY SizesAssumption
<1> QED
  BY <1>1, <1>2, <1>3, NumberTypes DEF ClientMoves, ClientWriteInv, Sent, Got

LEMMA ClientWrites ==
  ASSUME CP!IInv, ClientWriteInv, C!WriteSome(Peer, 1)
  PROVE  ClientMoves(1, 0)
<1>1. /\ o.wr.state = "pending" /\ o.wr.sent + 1 <= o.wr.length
      /\ o' = [o EXCEPT !.wr.sent = @ + 1,
                        !.wr.state = IF o.wr.sent + 1 = o.wr.length THEN "done" ELSE @]
  BY ClientFacts DEF C!WriteSome, C!Becomes, o
<1>2. /\ o'.wr.sent = o.wr.sent + 1 /\ o'.wr.length = o.wr.length /\ o'.wr.err = o.wr.err
      /\ o'.wr.state = IF o.wr.sent + 1 = o.wr.length THEN "done" ELSE "pending"
      /\ o'.rd = o.rd /\ o'.bytes_written = o.bytes_written /\ o'.bytes_read = o.bytes_read
  BY <1>1, ClientFacts DEF CP!SessionObjects, CP!WriteOps
<1>3. ClientWriteInv'
  BY <1>1, <1>2, NumberTypes DEF ClientWriteInv
<1>4. Sent' = Sent + 1 /\ Got' = Got
  BY <1>1, <1>2, NumberTypes DEF Sent, Got
<1> QED
  BY <1>2, <1>3, <1>4, NumberTypes DEF ClientMoves

LEMMA ClientHandlesRead ==
  ASSUME CP!IInv, ClientWriteInv, C!HandleRead(Peer)
  PROVE  ClientMoves(0, 0)
<1> DEFINE idle == [o EXCEPT !.rd.state = "none"]
           got  == [idle EXCEPT !.bytes_read = @ + idle.rd.length,
                                !.read_data_length = idle.rd.length,
                                !.unwritten_count = @ + 1]
<1>1. /\ o.rd.state = "done"
      /\ o' = IF idle.rd.err THEN idle
              ELSE IF got.unwritten_count = 1
                THEN C!SwapAndLaunch(got, got.read_data_length)
                ELSE got
  BY ClientFacts DEF C!HandleRead, C!Becomes, o
<1>2. /\ idle.rd.state = "none" /\ idle.rd.err = o.rd.err /\ idle.rd.length = o.rd.length
      /\ idle.wr = o.wr
      /\ idle.bytes_written = o.bytes_written /\ idle.bytes_read = o.bytes_read
      /\ idle.unwritten_count = o.unwritten_count
  BY ClientFacts DEF CP!SessionObjects, CP!ReadOps
<1>3. CASE o.rd.err
  <2>1. o' = idle
    BY <1>1, <1>2, <1>3
  <2>2. o'.rd.err /\ o'.wr = o.wr /\ o'.bytes_written = o.bytes_written
    BY <1>2, <1>3, <2>1
  <2> HIDE DEF idle, got
  <2> QED
    BY <2>2, NumberTypes DEF ClientMoves, ClientWriteInv, Sent
<1>4. CASE ~o.rd.err
  <2>1. /\ got.rd = idle.rd /\ got.wr = o.wr /\ got.bytes_written = o.bytes_written
        /\ got.bytes_read = o.bytes_read + o.rd.length
        /\ got.read_data_length = o.rd.length
        /\ got.unwritten_count = o.unwritten_count + 1
    BY <1>2, ClientFacts DEF CP!SessionObjects
  <2>2. o' = IF got.unwritten_count = 1
               THEN C!SwapAndLaunch(got, got.read_data_length) ELSE got
    BY <1>1, <1>2, <1>4
  <2>3. CASE o.unwritten_count + 1 = 1
    <3>1. /\ o' = C!SwapAndLaunch(got, o.rd.length)
          /\ o.unwritten_count = 0
      BY <2>1, <2>2, <2>3, NumberTypes
    <3>2. ~CP!Unlaunched(o)
      BY <1>1, ClientFacts DEF CP!UnlaunchedIsFresh, CP!Outstanding
    <3>3. o.wr.state = "none" /\ ~o.wr.err
      BY <1>1, <3>1, <3>2, ClientFacts DEF CP!UnwrittenTellsState, CP!Outstanding
    <3>4. o.rd.length > 0
      BY <1>1, <1>4, ClientFacts DEF CP!OpsWellFormed
    <3>5. /\ o'.wr.state = "pending" /\ o'.wr.sent = 0 /\ o'.wr.length = o.rd.length
          /\ o'.rd.state = "pending"
          /\ o'.bytes_written = o.bytes_written
          /\ o'.bytes_read = o.bytes_read + o.rd.length
      <4>1. o' = [got EXCEPT !.read_data = got.write_data, !.write_data = got.read_data,
                             !.wr = C!async_write(got.read_data, o.rd.length),
                             !.rd = C!async_read_some(got.write_data)]
        BY <3>1 DEF C!SwapAndLaunch
      <4>2. /\ o'.wr = C!async_write(got.read_data, o.rd.length)
            /\ o'.rd = C!async_read_some(got.write_data)
            /\ o'.bytes_written = got.bytes_written /\ o'.bytes_read = got.bytes_read
        BY <4>1, ClientFacts DEF CP!SessionObjects
      <4> QED
        BY <2>1, <4>2 DEF C!async_write, C!async_read_some
    <3> HIDE DEF got, idle
    <3> QED
      BY <1>1, <1>4, <3>3, <3>4, <3>5, NumberTypes DEF ClientMoves, ClientWriteInv, Sent, Got
  <2>4. CASE o.unwritten_count + 1 # 1
    <3>1. o' = got
      BY <2>1, <2>2, <2>4
    <3>2. /\ o'.wr = o.wr /\ o'.bytes_written = o.bytes_written
          /\ o'.bytes_read = o.bytes_read + o.rd.length /\ o'.rd.state = "none"
      BY <1>2, <2>1, <3>1
    <3> HIDE DEF got, idle
    <3> QED
      BY <1>1, <1>4, <3>2, NumberTypes DEF ClientMoves, ClientWriteInv, Sent, Got
  <2> QED
    BY <2>3, <2>4
<1> QED
  BY <1>3, <1>4

LEMMA ClientHandlesWrite ==
  ASSUME CP!IInv, ClientWriteInv, C!HandleWrite(Peer)
  PROVE  ClientMoves(0, 0)
<1> DEFINE idle == [o EXCEPT !.wr.state = "none"]
           put  == [idle EXCEPT !.bytes_written = @ + idle.wr.length,
                                !.unwritten_count = @ - 1]
<1>1. /\ o.wr.state = "done"
      /\ o' = IF idle.wr.err \/ idle.wr.length = 0 THEN idle
              ELSE IF put.unwritten_count = 1
                THEN C!SwapAndLaunch(put, put.read_data_length)
                ELSE put
  BY ClientFacts DEF C!HandleWrite, C!Becomes, o
<1>2. /\ idle.wr.state = "none" /\ idle.wr.err = o.wr.err /\ idle.wr.length = o.wr.length
      /\ idle.rd = o.rd
      /\ idle.bytes_written = o.bytes_written /\ idle.bytes_read = o.bytes_read
      /\ idle.unwritten_count = o.unwritten_count
      /\ idle.read_data_length = o.read_data_length
  BY ClientFacts DEF CP!SessionObjects, CP!WriteOps
<1>3. o.wr.length > 0 /\ ~CP!Unlaunched(o)
  BY <1>1, ClientFacts DEF CP!OpsWellFormed, CP!UnlaunchedIsFresh, CP!Outstanding
<1>4. CASE o.wr.err
  <2>1. o' = idle
    BY <1>1, <1>2, <1>4
  <2>2. /\ o'.wr.err /\ o'.wr.state = "none" /\ o'.rd = o.rd
        /\ o'.bytes_read = o.bytes_read
    BY <1>2, <1>4, <2>1
  <2> HIDE DEF idle, put
  <2> QED
    BY <2>2, NumberTypes DEF ClientMoves, ClientWriteInv, Got
<1>5. CASE ~o.wr.err
  <2>1. /\ put.wr = idle.wr /\ put.rd = o.rd /\ put.bytes_read = o.bytes_read
        /\ put.bytes_written = o.bytes_written + o.wr.length
        /\ put.read_data_length = o.read_data_length
        /\ put.unwritten_count = o.unwritten_count - 1
    BY <1>2, ClientFacts DEF CP!SessionObjects
  <2>2. o' = IF put.unwritten_count = 1
               THEN C!SwapAndLaunch(put, put.read_data_length) ELSE put
    BY <1>1, <1>2, <1>3, <1>5, NumberTypes
  <2>3. o.wr.sent = o.wr.length
    BY <1>1, <1>5 DEF ClientWriteInv
  <2>4. CASE o.unwritten_count - 1 = 1
    <3>1. /\ o' = C!SwapAndLaunch(put, o.read_data_length)
          /\ o.unwritten_count = 2
      BY <2>1, <2>2, <2>4, NumberTypes
    <3>2. o.rd.state = "none" /\ ~o.rd.err /\ o.read_data_length > 0
      BY <1>1, <1>3, <3>1, ClientFacts DEF CP!UnwrittenTellsState, CP!Outstanding
    <3>3. /\ o'.wr.state = "pending" /\ o'.wr.sent = 0 /\ o'.wr.length = o.read_data_length
          /\ o'.rd.state = "pending"
          /\ o'.bytes_written = o.bytes_written + o.wr.length
          /\ o'.bytes_read = o.bytes_read
      <4>1. o' = [put EXCEPT !.read_data = put.write_data, !.write_data = put.read_data,
                             !.wr = C!async_write(put.read_data, o.read_data_length),
                             !.rd = C!async_read_some(put.write_data)]
        BY <3>1 DEF C!SwapAndLaunch
      <4>2. /\ o'.wr = C!async_write(put.read_data, o.read_data_length)
            /\ o'.rd = C!async_read_some(put.write_data)
            /\ o'.bytes_written = put.bytes_written /\ o'.bytes_read = put.bytes_read
        BY <4>1, ClientFacts DEF CP!SessionObjects
      <4> QED
        BY <2>1, <4>2 DEF C!async_write, C!async_read_some
    <3> HIDE DEF put, idle
    <3> QED
      BY <1>1, <1>5, <2>3, <3>2, <3>3, NumberTypes DEF ClientMoves, ClientWriteInv, Sent, Got
  <2>5. CASE o.unwritten_count - 1 # 1
    <3>1. o' = put
      BY <2>1, <2>2, <2>5
    <3>2. /\ o'.rd = o.rd /\ o'.bytes_read = o.bytes_read
          /\ o'.bytes_written = o.bytes_written + o.wr.length /\ o'.wr.state = "none"
      BY <1>2, <2>1, <3>1
    <3> HIDE DEF put, idle
    <3> QED
      BY <1>1, <1>5, <2>3, <3>2, NumberTypes DEF ClientMoves, ClientWriteInv, Sent, Got
  <2> QED
    BY <2>4, <2>5
<1> QED
  BY <1>4, <1>5

(* The rest of the client's program does not touch its operations. *)
LEMMA ClientElsewhere ==
  ASSUME CP!IInv, ClientWriteInv,
         \/ C!CloseSocket(Peer) \/ C!TimerExpires \/ C!HandleTimeout
         \/ C!RunReturns \/ C!DeleteSession(Peer) \/ C!Exit
         \/ UNCHANGED client
  PROVE  ClientMoves(0, 0)
<1>1. CASE o' = o
  BY <1>1, ClientStays
<1>2. CASE C!CloseSocket(Peer)
  <2>1. o' = [o EXCEPT !.closes = @ - 1, !.socket = "closed"]
    BY <1>2, ClientFacts DEF C!CloseSocket, C!Becomes, o
  <2> QED
    BY <2>1, ClientStays, ClientFacts DEF CP!SessionObjects
<1>3. CASE C!HandleTimeout
  <2>1. o' = [o EXCEPT !.closes = @ + 1]
    BY <1>3 DEF C!HandleTimeout, C!Stop, o
  <2> QED
    BY <2>1, ClientStays, ClientFacts DEF CP!SessionObjects
<1>4. CASE C!TimerExpires \/ C!RunReturns \/ C!DeleteSession(Peer) \/ C!Exit \/ UNCHANGED client
  BY <1>1, <1>4 DEF C!TimerExpires, C!RunReturns, C!DeleteSession, C!Exit, o
<1> QED
  BY <1>2, <1>3, <1>4

-------------------------------------------------------------------------------
(* The server's side of the account needs no more than its own invariant:   *)
(* NothingLost gives what it holds from what it received and echoed.        *)
ServerMoves(k, m) ==
  /\ received' = received + k
  /\ Len(echoed') = Len(echoed) + m

LEMMA ServerNumbers ==
  ASSUME SP!IInv
  PROVE  received \in Nat /\ Len(echoed) \in Nat /\ echoed \in Seq(0..MaxBytes)
BY SizesAssumption DEF SP!IInv, SP!TypeOK

LEMMA ServerStays ==
  ASSUME SP!IInv,
         \/ S!HandleAccept \/ S!HandleRead \/ S!HandleWrite \/ S!Destroy
         \/ S!ReadFails \/ S!WriteFails \/ UNCHANGED serverVars
  PROVE  ServerMoves(0, 0)
BY ServerNumbers DEF ServerMoves, S!HandleAccept, S!HandleRead, S!HandleWrite, S!Destroy,
   S!ReadFails, S!WriteFails, S!stream, serverVars

LEMMA ServerWrites ==
  ASSUME SP!IInv, S!WriteSome
  PROVE  ServerMoves(0, 1)
BY ServerNumbers DEF ServerMoves, S!WriteSome

LEMMA ServerReads ==
  ASSUME SP!IInv, NEW n, S!ReadCompletes(n)
  PROVE  ServerMoves(n, 0)
BY ServerNumbers DEF ServerMoves, S!ReadCompletes

-------------------------------------------------------------------------------
LEMMA InitIInv == Init => IInv
<1> SUFFICES ASSUME Init PROVE IInv
  OBVIOUS
<1>1. CP!Init
  BY DEF Init, C!Init, CP!Init, C!NewSession, CP!NewSession
<1>2. SP!Init
  BY DEF Init, S!Init, SP!Init, S!Buffers, SP!Buffers, S!Offsets, SP!Offsets
<1>3. CP!IInv /\ SP!IInv
  BY <1>1, <1>2, CP!InitIInv, SP!InitIInv, SizesAssumption, OneSessionIsFinite
<1>4. o = CP!NewSession
  BY <1>1 DEF CP!Init, o
<1>5. ClientWriteInv
  BY <1>4 DEF ClientWriteInv, CP!NewSession
<1>6. ConnectionInv
  BY <1>2, <1>4, CapacityAssumption
     DEF ConnectionInv, CP!NewSession, SP!Init, Init, Sent, Got
<1> QED
  BY <1>3, <1>5, <1>6 DEF IInv

(* What one side passes on is what the other side takes or the connection   *)
(* keeps.                                                                   *)
LEMMA AccountBalances ==
  ASSUME IInv, NEW k \in Int, NEW m \in Int, NEW j \in Int, NEW l \in Int,
         ClientMoves(k, m), ServerMoves(j, l),
         up' = up + k - j, up' \in 0..Capacity,
         down' = down + l - m, down' \in 0..Capacity
  PROVE  ClientWriteInv' /\ ConnectionInv'
<1>1. up \in Int /\ down \in Int /\ received \in Int /\ Len(echoed) \in Int
      /\ Sent \in Int /\ Got \in Int
  BY NumberTypes, ServerNumbers, CapacityAssumption DEF IInv, ConnectionInv
<1>2. ~o'.wr.err => Sent' = received' + up'
  <2>1. CASE o'.wr.err
    BY <2>1
  <2>2. CASE ~o'.wr.err
    <3>1. Sent = received + up /\ Sent' = Sent + k /\ received' = received + j
      BY <2>2 DEF IInv, ConnectionInv, ClientMoves, ServerMoves
    <3> QED
      BY <1>1, <3>1
  <2> QED
    BY <2>1, <2>2
<1>3. ~o'.rd.err => Len(echoed') = Got' + down'
  <2>1. CASE o'.rd.err
    BY <2>1
  <2>2. CASE ~o'.rd.err
    <3>1. Len(echoed) = Got + down /\ Got' = Got + m /\ Len(echoed') = Len(echoed) + l
      BY <2>2 DEF IInv, ConnectionInv, ClientMoves, ServerMoves
    <3> QED
      BY <1>1, <3>1
  <2> QED
    BY <2>1, <2>2
<1> QED
  BY <1>2, <1>3 DEF ConnectionInv, ClientMoves

LEMMA NextIInv == IInv /\ [Next]_vars => IInv'
<1> SUFFICES ASSUME IInv, [Next]_vars PROVE IInv'
  OBVIOUS
<1>1. CP!IInv' /\ SP!IInv'
  BY ClientStep, ServerStep, CP!NextIInv, SP!NextIInv, SizesAssumption,
     OneSessionIsFinite DEF IInv
<1> USE DEF IInv
<1>2. up \in 0..Capacity /\ down \in 0..Capacity /\ up \in Int /\ down \in Int
      /\ Capacity \in Int
  BY CapacityAssumption DEF ConnectionInv
<1>3. CASE ClientMoves(0, 0) /\ ServerMoves(0, 0) /\ up' = up /\ down' = down
  <2>1. up' = up + 0 - 0 /\ down' = down + 0 - 0
    BY <1>2, <1>3
  <2> QED
    BY <1>1, <1>2, <1>3, <2>1, AccountBalances
<1>4. CASE ClientRuns
  <2>1. UNCHANGED serverVars /\ up' = up /\ down' = down
    BY <1>4 DEF ClientRuns, netVars
  <2>2. ClientMoves(0, 0)
    BY <1>4, ClientConnects, ClientHandlesRead, ClientHandlesWrite, ClientElsewhere
       DEF ClientRuns
  <2> QED
    BY <1>3, <2>1, <2>2, ServerStays
<1>5. CASE Connects \/ ClientOperationFails
  <2>1. UNCHANGED serverVars /\ up' = up /\ down' = down
    BY <1>5 DEF Connects, ClientOperationFails, netVars
  <2>2. ClientMoves(0, 0)
    BY <1>5, ClientConnects, ClientFails DEF Connects, ClientOperationFails
  <2> QED
    BY <1>3, <2>1, <2>2, ServerStays
<1>6. CASE ServerRuns \/ Accepts \/ ServerOperationFails \/ Breaks \/ Over \/ UNCHANGED vars
  <2>1. UNCHANGED client /\ up' = up /\ down' = down
    BY <1>6 DEF ServerRuns, Accepts, ServerOperationFails, Breaks, Over, vars, clientVars, netVars
  <2>2. ServerMoves(0, 0)
    BY <1>6, ServerStays
       DEF ServerRuns, Accepts, ServerOperationFails, Breaks, Over, vars
  <2> QED
    BY <1>3, <2>1, <2>2, ClientElsewhere
<1>7. CASE ClientSends
  <2>1. ClientMoves(1, 0) /\ ServerMoves(0, 0)
    BY <1>7, ClientWrites, ServerStays DEF ClientSends
  <2>2. up' = up + 1 /\ up < Capacity /\ down' = down
    BY <1>7 DEF ClientSends
  <2>3. up' = up + 1 - 0 /\ up' \in 0..Capacity /\ down' = down + 0 - 0
    BY <1>2, <2>2
  <2> QED
    BY <1>1, <1>2, <2>1, <2>2, <2>3, AccountBalances
<1>8. CASE ServerSends
  <2>1. ClientMoves(0, 0) /\ ServerMoves(0, 1)
    BY <1>8, ServerWrites, ClientElsewhere DEF ServerSends, clientVars
  <2>2. down' = down + 1 /\ down < Capacity /\ up' = up
    BY <1>8 DEF ServerSends
  <2>3. down' = down + 1 - 0 /\ down' \in 0..Capacity /\ up' = up + 0 - 0
    BY <1>2, <2>2
  <2> QED
    BY <1>1, <1>2, <2>1, <2>2, <2>3, AccountBalances
<1>9. CASE ServerReceives
  <2>1. PICK n \in 1..BlockSize : n <= up /\ S!ReadCompletes(n) /\ up' = up - n
    BY <1>9 DEF ServerReceives
  <2>2. UNCHANGED clientVars /\ down' = down
    BY <1>9 DEF ServerReceives
  <2>3. ClientMoves(0, 0) /\ ServerMoves(n, 0)
    BY <2>1, <2>2, ServerReads, ClientElsewhere DEF clientVars
  <2>4. n \in Int /\ n > 0
    BY SizesAssumption
  <2>5. up' = up + 0 - n /\ up' \in 0..Capacity /\ down' = down + 0 - 0
    BY <1>2, <2>1, <2>2, <2>4
  <2> QED
    BY <1>1, <1>2, <2>2, <2>3, <2>4, <2>5, AccountBalances
<1>10. CASE ClientReceives
  <2>1. PICK n \in 1..BlockSize : n <= down /\ C!ReadCompletes(Peer, n) /\ down' = down - n
    BY <1>10 DEF ClientReceives
  <2>2. UNCHANGED serverVars /\ up' = up
    BY <1>10 DEF ClientReceives
  <2>3. ClientMoves(0, n) /\ ServerMoves(0, 0)
    BY <2>1, <2>2, ClientReads, ServerStays
  <2>4. n \in Int /\ n > 0
    BY SizesAssumption
  <2>5. down' = down + 0 - n /\ down' \in 0..Capacity /\ up' = up + 0 - 0
    BY <1>2, <2>1, <2>2, <2>4
  <2> QED
    BY <1>1, <1>2, <2>2, <2>3, <2>4, <2>5, AccountBalances
<1> QED
  BY <1>4, <1>5, <1>6, <1>7, <1>8, <1>9, <1>10 DEF Next

-------------------------------------------------------------------------------
(* Each program runs in the composition as it does alone, so that all that  *)
(* is proved of it alone holds here too.  (CP and SP are C and S, with      *)
(* their proofs.)                                                           *)
THEOREM ComponentsRunAsAlone == Spec => CP!Spec /\ SP!Spec
<1>1. Init => CP!Init /\ SP!Init
  BY DEF Init, C!Init, CP!Init, C!NewSession, CP!NewSession,
     S!Init, SP!Init, S!Buffers, SP!Buffers, S!Offsets, SP!Offsets
<1>2. [Next]_vars => [CP!Next]_CP!vars
  BY ClientStep
<1>3. [Next]_vars => [SP!Next]_SP!vars
  BY ServerStep
<1> QED
  BY <1>1, <1>2, <1>3, PTL DEF Spec, CP!Spec, SP!Spec

(* The invariant of the two programs together: both of theirs, and that the *)
(* connection holds what one side has written and the other has not read.   *)
THEOREM EchoInvariant == Spec => []IInv
<1>1. Init => IInv
  BY InitIInv
<1>2. IInv /\ [Next]_vars => IInv'
  BY NextIInv
<1> QED
  BY <1>1, <1>2, PTL DEF Spec

LEMMA HoldsTypes ==
  ASSUME IInv
  PROVE  /\ ClientHolds \in Int
         /\ S!InWrite \in Int /\ S!HeldBack \in Int /\ S!JustRead \in Int
         /\ S!InWrite + S!HeldBack + S!JustRead \in Int
<1>1. /\ wr.length \in Int /\ wr.sent \in Int /\ read_data_length \in Int
      /\ rd.length \in Int /\ o.read_data_length \in Int
  BY ClientFacts, SizesAssumption
     DEF IInv, SP!IInv, SP!TypeOK, SP!ReadOps, SP!WriteOps, CP!SessionObjects
<1>2. ClientHolds \in Int
  BY <1>1, NumberTypes DEF IInv, ClientHolds
<1>3. S!InWrite \in Int /\ S!HeldBack \in Int /\ S!JustRead \in Int
  BY <1>1 DEF S!InWrite, S!HeldBack, S!JustRead
<1> QED
  BY <1>2, <1>3

(* While nothing has failed, what is written and not yet read, held back or *)
(* being written on both sides, and in flight is the client's one block.    *)
LEMMA BlockCirculates == IInv => OneBlockCirculates
<1> SUFFICES ASSUME IInv, Healthy
             PROVE  ClientHolds + up + (S!InWrite + S!HeldBack + S!JustRead) + down = BlockSize
  BY DEF OneBlockCirculates
<1> USE DEF IInv
<1>1. /\ ~CP!Unlaunched(o) /\ ~o.rd.err /\ ~o.wr.err /\ ~rd.err /\ ~wr.err
  BY DEF Healthy, C!Healthy, C!Launched, C!Outstanding, CP!Unlaunched, CP!Outstanding, o
<1>2. up \in Int /\ down \in Int /\ received \in Int /\ Len(echoed) \in Int
      /\ Sent = received + up /\ Len(echoed) = Got + down
  BY <1>1, ServerNumbers, CapacityAssumption DEF ConnectionInv
<1>3. received = Len(echoed) + S!InWrite + S!HeldBack + S!JustRead
  BY <1>1 DEF SP!IInv, SP!NothingLost, SP!InWrite, SP!HeldBack, SP!JustRead, SP!Outstanding,
     S!InWrite, S!HeldBack, S!JustRead, S!Outstanding
<1>4. o.read_data_length \in Int
  BY ClientFacts, SizesAssumption DEF CP!SessionObjects
<1>5. o.bytes_written + CP!Unwritten(o) = BlockSize + o.bytes_read
  BY <1>1, ClientFacts DEF CP!Balance
<1>6. ClientHolds + Sent = BlockSize + Got
  <2>1. o.bytes_written
          + ((IF o.wr.state # "none" THEN o.wr.length ELSE 0)
             + (IF o.unwritten_count = 2 THEN o.read_data_length ELSE 0))
        = BlockSize + o.bytes_read
    BY <1>5 DEF CP!Unwritten, CP!Outstanding
  <2> QED
    BY <2>1, <1>1, <1>4, NumberTypes, SizesAssumption DEF ClientHolds, Sent, Got
<1>7. /\ ClientHolds \in Int /\ Sent \in Int /\ Got \in Int /\ BlockSize \in Int
      /\ S!InWrite \in Int /\ S!HeldBack \in Int /\ S!JustRead \in Int
  BY HoldsTypes, NumberTypes, SizesAssumption
<1> QED
  BY ONLY <1>2, <1>3, <1>6, <1>7

(* The client's block goes round between the two programs without gaining   *)
(* or losing a byte, however its messages are split, merged or held back.   *)
THEOREM OneBlockGoesRound == Spec => []OneBlockCirculates
BY BlockCirculates, EchoInvariant, PTL

(* What an idle side would wait for.  Unless the client or the server has a *)
(* handler to run, each is reading, writing or both, and a side that only   *)
(* writes holds two messages.                                               *)
LEMMA ClientSide ==
  ASSUME IInv, Healthy, o.rd.state # "done", o.wr.state # "done"
  PROVE  \/ o.rd.state = "pending" /\ o.wr.state = "pending"
         \/ o.rd.state = "pending" /\ o.wr.state = "none" /\ ClientHolds = 0
         \/ o.rd.state = "none" /\ o.wr.state = "pending" /\ ClientHolds >= 2
<1> USE DEF IInv
<1>1. ~CP!Unlaunched(o) /\ ~o.rd.err /\ ~o.wr.err
  BY DEF Healthy, C!Healthy, C!Launched, C!Outstanding, CP!Unlaunched, CP!Outstanding, o
<1>2. o.rd.state \in {"none", "pending"} /\ o.wr.state \in {"none", "pending"}
  BY ClientFacts DEF CP!SessionObjects, CP!ReadOps, CP!WriteOps, CP!OpStates
<1>3. /\ o.rd.state # "none" \/ o.wr.state # "none"
      /\ o.wr.state = "none" => o.unwritten_count = 0
      /\ o.rd.state = "none" => o.unwritten_count = 2 /\ o.read_data_length > 0
  BY <1>1, ClientFacts DEF CP!UnwrittenTellsState, CP!Outstanding
<1>4. o.read_data_length \in Int
  BY ClientFacts, SizesAssumption DEF CP!SessionObjects
<1>5. CASE o.wr.state = "none"
  BY <1>2, <1>3, <1>5 DEF ClientHolds
<1>6. CASE o.wr.state = "pending" /\ o.rd.state = "none"
  BY <1>3, <1>4, <1>6, NumberTypes DEF ClientHolds, ClientWriteInv
<1> QED
  BY <1>2, <1>5, <1>6

LEMMA ServerSide ==
  ASSUME IInv, Healthy, rd.state # "done", wr.state # "done"
  PROVE  \/ rd.state = "pending" /\ wr.state = "pending"
         \/ /\ rd.state = "pending" /\ wr.state = "none"
            /\ S!InWrite + S!HeldBack + S!JustRead = 0
         \/ /\ rd.state = "none" /\ wr.state = "pending"
            /\ S!InWrite + S!HeldBack + S!JustRead >= 2
<1> USE DEF IInv, SP!IInv
<1>1. session = "open" /\ destroys = 0 /\ ~rd.err /\ ~wr.err
  BY DEF Healthy
<1>2. rd.state \in {"none", "pending"} /\ wr.state \in {"none", "pending"}
  BY DEF SP!TypeOK, SP!ReadOps, SP!WriteOps, SP!OpStates
<1>3. /\ rd.state # "none" \/ wr.state # "none"
      /\ wr.state = "none" => unsent_count = 0
      /\ rd.state = "none" => unsent_count = 2 /\ read_data_length > 0
  BY <1>1 DEF SP!DestroyedOnceAndQuiet, SP!UnsentTellsState, SP!Outstanding
<1>4. /\ read_data_length \in Int /\ wr.length \in Int /\ wr.sent \in Int
  BY SizesAssumption DEF SP!TypeOK, SP!WriteOps
<1>5. CASE wr.state = "none"
  BY <1>2, <1>3, <1>5 DEF S!InWrite, S!HeldBack, S!JustRead, S!Outstanding
<1>6. CASE wr.state = "pending" /\ rd.state = "none"
  <2>1. wr.sent < wr.length
    BY <1>6 DEF SP!OpsWellFormed
  <2> QED
    BY <1>3, <1>4, <1>6, <2>1 DEF S!InWrite, S!HeldBack, S!JustRead, S!Outstanding
<1> QED
  BY <1>2, <1>5, <1>6

(* While both are healthy one of the two programs, or the connection, can   *)
(* move.  If neither could, the client would be waiting only to read, and   *)
(* the block would be nowhere; or both only to write, with more in their    *)
(* hands and in a full connection than CapacityAssumption lets a block be.  *)
THEOREM ProgramsNeverWaitForEachOther == Spec => []NoMutualWait
<1>1. IInv => NoMutualWait
  <2> SUFFICES ASSUME IInv, Healthy, ~NoMutualWait PROVE FALSE
    BY DEF NoMutualWait
  <2> DEFINE ServerHolds == S!InWrite + S!HeldBack + S!JustRead
  <2>1. /\ o.rd.state # "done" /\ o.wr.state # "done"
        /\ rd.state # "done" /\ wr.state # "done"
        /\ o.wr.state = "pending" => ~(up < Capacity)
        /\ o.rd.state = "pending" => ~(down > 0)
        /\ wr.state = "pending" => ~(down < Capacity)
        /\ rd.state = "pending" => ~(up > 0)
    BY DEF NoMutualWait
  <2>2. /\ up \in Int /\ down \in Int /\ up >= 0 /\ down >= 0
        /\ Capacity \in Int /\ Capacity > 0
    BY CapacityAssumption DEF IInv, ConnectionInv
  <2>3. /\ ClientHolds + up + ServerHolds + down = BlockSize
    BY BlockCirculates DEF OneBlockCirculates
  <2> HIDE DEF ServerHolds
  <2>4. BlockSize \in Int /\ BlockSize > 0 /\ BlockSize < 2 * Capacity + 4
    BY SizesAssumption, CapacityAssumption
  <2>5. ServerHolds \in Int /\ ClientHolds \in Int
    BY HoldsTypes DEF ServerHolds
  <2>6. \/ o.rd.state = "pending" /\ o.wr.state = "pending"
        \/ o.rd.state = "pending" /\ o.wr.state = "none" /\ ClientHolds = 0
        \/ o.rd.state = "none" /\ o.wr.state = "pending" /\ ClientHolds >= 2
    BY <2>1, ClientSide
  <2>7. \/ rd.state = "pending" /\ wr.state = "pending"
        \/ rd.state = "pending" /\ wr.state = "none" /\ ServerHolds = 0
        \/ rd.state = "none" /\ wr.state = "pending" /\ ServerHolds >= 2
    BY <2>1, ServerSide DEF ServerHolds
  <2>8. CASE o.rd.state = "pending"
    <3>1. down = 0 /\ rd.state = "pending" /\ wr.state = "none" /\ ServerHolds = 0
      BY <2>1, <2>2, <2>7, <2>8
    <3>2. up = 0 /\ o.wr.state = "none" /\ ClientHolds = 0
      BY <2>1, <2>2, <2>6, <3>1
    <3> QED
      BY <2>3, <2>4, <3>1, <3>2
  <2>9. CASE o.rd.state = "none" /\ o.wr.state = "pending" /\ ClientHolds >= 2
    <3>1. up >= Capacity
      BY <2>1, <2>2, <2>9
    <3>2. rd.state = "none" /\ wr.state = "pending" /\ ServerHolds >= 2
      BY <2>1, <2>2, <2>7, <3>1
    <3>3. down >= Capacity
      BY <2>1, <2>2, <3>2
    <3> QED
      BY <2>2, <2>3, <2>4, <2>5, <2>9, <3>1, <3>2, <3>3
  <2> QED
    BY <2>6, <2>8, <2>9
<1> QED
  BY <1>1, EchoInvariant, PTL

-------------------------------------------------------------------------------
(* What the end of the client leaves for the server's session to do: its    *)
(* own work, and at most four steps for each byte that is still to come.    *)
ServerLeft == 4 * up + SP!Work

(* Nothing more comes once the client's socket is closed, so that each step *)
(* of the session uses up some of its work; the connection may still hand   *)
(* it what it holds, and carry some of what it sends back.                  *)
ServerRunsDown ==
  o.socket = "closed" =>
    /\ o'.socket = "closed"
    /\ serverVars' # serverVars => ServerLeft \in Nat /\ ServerLeft' < ServerLeft

(* A session that is not gone has something to do that nobody can hold up.  *)
ServerCanEnd ==
  Closed /\ line # "none" /\ session # "deleted" =>
    \/ session = "accepting"
    \/ destroys > 0
    \/ {rd.state, wr.state} \cap {"pending", "done"} # {}

LEMMA ClosedStaysClosed ==
  ASSUME IInv, [Next]_vars, o.socket = "closed"
  PROVE  o'.socket = "closed" /\ ~ClientSends
<1>1. CP!ClosedRunsDown
  BY ClientStep, CP!NextClosed, SizesAssumption, OneSessionIsFinite DEF IInv
<1>2. o'.socket = "closed"
  BY <1>1 DEF CP!ClosedRunsDown, o
<1> QED
  BY <1>2 DEF ClientSends, C!WriteSome, o

(* What the session reads is no longer in the connection. *)
LEMMA ReadsWhatIsThere ==
  ASSUME IInv, [Next]_vars, o.socket = "closed"
  PROVE  /\ up' \in Nat /\ up' <= up
         /\ received' \in Nat /\ received' = received + (up - up')
<1>1. up \in Nat /\ received \in Nat
  BY ServerNumbers, CapacityAssumption DEF IInv, ConnectionInv
<1>2. CASE ServerReceives
  <2>1. PICK n \in 1..BlockSize : n <= up /\ S!ReadCompletes(n) /\ up' = up - n
    BY <1>2 DEF ServerReceives
  <2>2. received' = received + n
    BY <2>1 DEF S!ReadCompletes
  <2>3. n \in Nat
    BY SizesAssumption
  <2> QED
    BY <1>1, <2>1, <2>2, <2>3
<1>3. CASE ~ServerReceives
  <2>1. up' = up
    BY <1>3, ClosedStaysClosed
       DEF Next, vars, netVars, ClientRuns, ServerRuns, Connects, Accepts, ServerSends,
           ClientReceives, Breaks, ClientOperationFails, ServerOperationFails, Over
  <2>2. received' = received
    BY <1>3, ClosedStaysClosed
       DEF Next, vars, serverVars, ClientRuns, ServerRuns, Connects, Accepts, ServerSends,
           ClientReceives, Breaks, ClientOperationFails, ServerOperationFails, Over,
           S!HandleAccept, S!HandleRead, S!HandleWrite, S!Destroy, S!WriteSome,
           S!ReadFails, S!WriteFails, S!stream
  <2> QED
    BY <1>1, <2>1, <2>2
<1> QED
  BY <1>2, <1>3

ServerWorkTyped == SP!Work \in Nat

LEMMA ServerWorkType == SP!IInv => ServerWorkTyped
<1> SUFFICES ASSUME SP!IInv PROVE SP!Work \in Nat
  BY DEF ServerWorkTyped
<1>1. SP!WorkTyped
  BY SP!WorkTypes, SizesAssumption
<1>2. SP!AcceptLeft \in Nat
  BY <1>1 DEF SP!WorkTyped
<1> QED
  BY <1>1, <1>2 DEF SP!WorkTyped, SP!Work, SP!Left

LEMMA NextServerLeft == IInv /\ [Next]_vars => ServerRunsDown
<1> SUFFICES ASSUME IInv, [Next]_vars, o.socket = "closed", serverVars' # serverVars
             PROVE  ServerLeft \in Nat /\ ServerLeft' < ServerLeft
  BY ClosedStaysClosed DEF ServerRunsDown
<1>1. SP!IInv /\ SP!IInv'
  BY NextIInv DEF IInv
<1>2. SP!vars' # SP!vars
  BY DEF serverVars, SP!vars, SP!pointers, SP!counters, SP!stream
<1>3. SP!SpendsWhatItReads
  BY <1>1, <1>2, ServerStep, SP!NextWork, SizesAssumption
<1>4. SP!Work \in Nat /\ SP!Work' < SP!Work + 4 * (received' - received)
  BY <1>3 DEF SP!SpendsWhatItReads
<1>5. up \in Nat /\ received \in Nat
  BY ServerNumbers, CapacityAssumption DEF IInv, ConnectionInv
<1>6. PICK uu \in Nat : uu = up'
  BY ReadsWhatIsThere
<1>7. PICK c \in Nat : c = received'
  BY ReadsWhatIsThere
<1>8. c - received = up - uu
  <2>1. c = received + (up - uu)
    BY <1>6, <1>7, ReadsWhatIsThere, Zenon
  <2> QED
    BY <1>5, <2>1
<1>9. SP!Work' \in Nat
  <2>1. (SP!IInv => ServerWorkTyped)'
    BY ServerWorkType, PTL
  <2> QED
    BY <1>1, <2>1 DEF ServerWorkTyped
<1>10. PICK w \in Nat : w = SP!Work'
  BY <1>9
<1>11. w < SP!Work + 4 * (up - uu)
  BY <1>4, <1>7, <1>8, <1>10
<1>12. 4 * uu + w < 4 * up + SP!Work
  BY <1>4, <1>5, <1>11
<1>13. ServerLeft = 4 * up + SP!Work /\ ServerLeft' = 4 * uu + w
  BY <1>6, <1>10 DEF ServerLeft
<1> QED
  BY <1>4, <1>5, <1>12, <1>13

(* The client ends by closing its own socket, and that is enough: whatever  *)
(* it left in the connection or on its way, each step of the server's       *)
(* session takes the session nearer to its end.                             *)
THEOREM ClosedClientRunsServerDown == Spec => [][ServerRunsDown]_vars
<1>1. IInv /\ [Next]_vars => [ServerRunsDown]_vars
  BY NextServerLeft
<1> QED
  BY <1>1, EchoInvariant, PTL DEF Spec

(* And on a connection that is closed or broken the session is never left   *)
(* waiting: it has an accept, a handler or its destroy to run, or an        *)
(* operation that fails.                                                    *)
THEOREM ServerIsNeverLeftBehind == Spec => []ServerCanEnd
<1>1. IInv => ServerCanEnd
  <2> SUFFICES ASSUME IInv, session # "deleted", session # "accepting", destroys = 0,
                      {rd.state, wr.state} \cap {"pending", "done"} = {}
               PROVE  FALSE
    BY DEF ServerCanEnd, IInv, SP!IInv, SP!TypeOK
  <2>1. /\ session = "open" /\ rd.state \in SP!OpStates /\ wr.state \in SP!OpStates
    BY DEF IInv, SP!IInv, SP!TypeOK, SP!ReadOps, SP!WriteOps
  <2>2. rd.state = "none" /\ wr.state = "none"
    BY <2>1 DEF SP!OpStates
  <2> QED
    BY <2>1, <2>2 DEF IInv, SP!IInv, SP!DestroyedOnceAndQuiet, SP!Outstanding
<1> QED
  BY <1>1, EchoInvariant, PTL
===============================================================================
