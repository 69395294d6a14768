-------------------------- MODULE CoroutineEcho_proof --------------------------
(***************************************************************************)
(* Proofs about the coroutine client and server, for any finite set of     *)
(* sessions, and any block size and socket buffers.                        *)
(*                                                                         *)
(* While the network delivers whole blocks there is one block in each      *)
(* connection, in one place: WholeBlockInv says where it can be for each   *)
(* pair of states of the two coroutines.  With split blocks this fails,    *)
(* and so do the properties that rest on it: coroutine_over_echo and       *)
(* coroutine_stop have the counterexamples.                                *)
(***************************************************************************)
EXTENDS CoroutineEcho, FiniteSetTheorems, SequenceTheorems, TLAPS

ClientSessions ==
  [pc: {"connecting", "writing", "reading", "finished"}, sent: 0..(BlockSize - 1)]

ServerSessions ==
  [pc: {"accepting", "reading", "writing", "closed"},
   length: 0..BlockSize, sent: 0..(BlockSize - 1)]

(* The block, in a connection whose sides have the states c and e, with u   *)
(* and d bytes in flight, and b more bytes written than sent back.          *)
WholeBlockInv(c, e, u, d, b) ==
  /\ b >= u + (e.length - e.sent)
  /\ c.pc = "writing" /\ e.pc # "closed" =>
       e.pc \in {"accepting", "reading"} /\ u = c.sent /\ d = 0
  /\ c.pc = "reading" /\ e.pc # "closed" =>
       \/ e.pc \in {"accepting", "reading"} /\ u = BlockSize /\ d = 0
       \/ e.pc = "writing" /\ u = 0 /\ d = e.sent
       \/ e.pc = "reading" /\ u = 0 /\ d = BlockSize

ConnectionInv(c, e, u, d, b) ==
  /\ c.pc # "writing" => c.sent = 0
  /\ e.pc # "writing" => e.length = 0 /\ e.sent = 0
  /\ e.pc = "writing" => e.length = BlockSize
  /\ c.pc = "connecting" => e.pc \in {"accepting", "closed"} /\ u = 0 /\ d = 0 /\ b = 0
  /\ ~SplitBlocks => WholeBlockInv(c, e, u, d, b)

SessionInv(s) == ConnectionInv(cs[s], ss[s], up[s], down[s], balance[s])

(* A session has finished or its future is still in the client's list. *)
ClientInv ==
  /\ \A s \in Sessions : Ready(s) \/ \E i \in 1..Len(sessions) : sessions[i] = s
  /\ client = "returned" => Len(sessions) = 0

IInv ==
  /\ TypeOK
  /\ \A s \in Sessions : SessionInv(s)
  /\ ClientInv

-------------------------------------------------------------------------------
(* Every session is in the list that the client starts with. *)
LEMMA SetToSeqListsAll ==
  ASSUME NEW S, IsFiniteSet(S)
  PROVE  /\ SetToSeq(S) \in Seq(S)
         /\ \A s \in S : \E i \in 1..Len(SetToSeq(S)) : SetToSeq(S)[i] = s
<1>1. PICK n \in Nat : n = Cardinality(S)
  BY FS_CardinalityType
<1>2. \E f \in [1..n -> S] : IsInjective(f)
  BY <1>1, FS_CardinalityType DEF ExistsBijection, Bijection, Injection
<1>3. PICK f : f = SetToSeq(S)
  OBVIOUS
<1>4. f \in [1..n -> S] /\ IsInjective(f)
  BY <1>1, <1>2, <1>3, Zenon DEF SetToSeq
<1>5. f \in Injection(1..n, S)
  BY <1>4, Zenon DEF Injection
<1>6. IsFiniteSet(1..n) /\ Cardinality(1..n) = n
  BY <1>1, FS_Interval
<1>7. f \in Surjection(1..n, S)
  BY <1>1, <1>5, <1>6, FS_Injection
<1>8. \A s \in S : \E i \in 1..n : f[i] = s
  BY <1>7, Zenon DEF Surjection
<1>9. f \in Seq(S) /\ Len(f) = n
  BY <1>1, <1>4, SeqDef, LenProperties
<1> QED
  BY <1>3, <1>8, <1>9

LEMMA InitIInv == Init => IInv
<1> SUFFICES ASSUME Init PROVE IInv
  OBVIOUS
<1>1. 0 \in 0..BlockSize /\ 0 \in 0..(BlockSize - 1) /\ 0 \in 0..Capacity
  BY EchoAssumption
<1>2. TypeOK
  <2>1. [pc |-> "connecting", sent |-> 0] \in ClientSessions
    BY <1>1 DEF ClientSessions
  <2>2. [pc |-> "accepting", length |-> 0, sent |-> 0] \in ServerSessions
    BY <1>1 DEF ServerSessions
  <2>3. /\ cs \in [Sessions -> ClientSessions] /\ ss \in [Sessions -> ServerSessions]
        /\ up \in [Sessions -> 0..Capacity] /\ down \in [Sessions -> 0..Capacity]
        /\ balance \in [Sessions -> Int]
    BY <1>1, <2>1, <2>2 DEF Init
  <2>4. sessions \in Seq(Sessions)
    BY SetToSeqListsAll, SessionsAssumption DEF Init
  <2> QED
    BY <2>3, <2>4 DEF Init, TypeOK, ClientSessions, ServerSessions
<1>3. \A s \in Sessions : SessionInv(s)
  <2>1. PICK c : c = [pc |-> "connecting", sent |-> 0]
    OBVIOUS
  <2>2. PICK e : e = [pc |-> "accepting", length |-> 0, sent |-> 0]
    OBVIOUS
  <2>3. ConnectionInv(c, e, 0, 0, 0)
    BY <2>1, <2>2 DEF ConnectionInv, WholeBlockInv
  <2> QED
    BY <2>1, <2>2, <2>3 DEF Init, SessionInv
<1>4. ClientInv
  BY SetToSeqListsAll, SessionsAssumption DEF Init, ClientInv
<1> QED
  BY <1>2, <1>3, <1>4 DEF IInv

-------------------------------------------------------------------------------
(* A step of one connection: its sides and its bytes become c, e, u, d, b.  *)
Becomes(s, c, e, u, d, b) ==
  /\ cs' = [cs EXCEPT ![s] = c] /\ ss' = [ss EXCEPT ![s] = e]
  /\ up' = [up EXCEPT ![s] = u] /\ down' = [down EXCEPT ![s] = d]
  /\ balance' = [balance EXCEPT ![s] = b]
  /\ UNCHANGED clientVars

LEMMA ConnectionOf ==
  ASSUME IInv, NEW s \in Sessions
  PROVE  \E c, e, u, d, b :
           /\ c = cs[s] /\ e = ss[s] /\ u = up[s] /\ d = down[s] /\ b = balance[s]
           /\ c \in ClientSessions /\ e \in ServerSessions
           /\ u \in 0..Capacity /\ d \in 0..Capacity /\ b \in Int
           /\ ConnectionInv(c, e, u, d, b)
           /\ cs = [cs EXCEPT ![s] = c] /\ ss = [ss EXCEPT ![s] = e]
           /\ up = [up EXCEPT ![s] = u] /\ down = [down EXCEPT ![s] = d]
           /\ balance = [balance EXCEPT ![s] = b]
BY DEF IInv, TypeOK, SessionInv, ClientSessions, ServerSessions

LEMMA BecomesIInv ==
  ASSUME IInv, NEW s \in Sessions,
         NEW c \in ClientSessions, NEW e \in ServerSessions,
         NEW u \in 0..Capacity, NEW d \in 0..Capacity, NEW b \in Int,
         Becomes(s, c, e, u, d, b), ConnectionInv(c, e, u, d, b),
         cs[s].pc = "finished" => c.pc = "finished"
  PROVE  IInv'
<1>1. TypeOK'
  BY DEF IInv, TypeOK, Becomes, clientVars, ClientSessions, ServerSessions
<1>2. ASSUME NEW t \in Sessions PROVE SessionInv(t)'
  <2>1. CASE t = s
    BY <2>1 DEF IInv, TypeOK, Becomes, SessionInv
  <2>2. CASE t # s
    <3>1. /\ cs'[t] = cs[t] /\ ss'[t] = ss[t] /\ up'[t] = up[t] /\ down'[t] = down[t]
          /\ balance'[t] = balance[t]
      BY <2>2 DEF IInv, TypeOK, Becomes
    <3> QED
      BY <3>1 DEF IInv, SessionInv
  <2> QED
    BY <2>1, <2>2
<1>3. ClientInv'
  <2>1. \A t \in Sessions : Ready(t) => Ready(t)'
    BY DEF IInv, TypeOK, Becomes, Ready
  <2> QED
    BY <2>1 DEF IInv, ClientInv, Becomes, clientVars
<1> QED
  BY <1>1, <1>2, <1>3 DEF IInv

-------------------------------------------------------------------------------
(* What a read may return, whether blocks are split or not. *)
LEMMA ReadSizesInBlock ==
  ASSUME NEW avail \in Nat, NEW n \in ReadSizes(avail)
  PROVE  /\ n \in 1..BlockSize /\ n <= avail
         /\ ~SplitBlocks => n = BlockSize
BY EchoAssumption DEF ReadSizes

LEMMA LoopTypes ==
  /\ Loop \in ClientSessions
  /\ Loop.pc \in {"finished", "writing"} /\ Loop.sent = 0
<1>1. 0 \in 0..(BlockSize - 1)
  BY EchoAssumption
<1> QED
  BY <1>1 DEF Loop, ClientSessions

(* The client's side of a connection. *)
LEMMA ConnectedIInv == ASSUME IInv, NEW s \in Sessions, Connected(s) PROVE IInv'
<1>a. PICK c, e, u, d, b :
        /\ c = cs[s] /\ e = ss[s] /\ u = up[s] /\ d = down[s] /\ b = balance[s]
        /\ c \in ClientSessions /\ e \in ServerSessions
        /\ u \in 0..Capacity /\ d \in 0..Capacity /\ b \in Int
        /\ ConnectionInv(c, e, u, d, b)
        /\ cs = [cs EXCEPT ![s] = c] /\ ss = [ss EXCEPT ![s] = e]
        /\ up = [up EXCEPT ![s] = u] /\ down = [down EXCEPT ![s] = d]
        /\ balance = [balance EXCEPT ![s] = b]
  BY ConnectionOf
<1>b. BlockSize \in Nat /\ BlockSize > 0 /\ Capacity \in Nat
  BY EchoAssumption
<1>1. c.pc = "connecting" /\ e.pc = "accepting"
  BY <1>a DEF Connected
<1>2. PICK l : l = Loop /\ l \in ClientSessions /\ l.pc \in {"finished", "writing"} /\ l.sent = 0
  BY LoopTypes
<1>3. Becomes(s, l, e, u, d, b)
  BY <1>a, <1>2 DEF Connected, Becomes
<1>4. ConnectionInv(l, e, u, d, b)
  BY <1>a, <1>1, <1>2, <1>b DEF ConnectionInv, WholeBlockInv
<1> QED
  BY <1>a, <1>1, <1>2, <1>3, <1>4, BecomesIInv

LEMMA ClientWritesIInv == ASSUME IInv, NEW s \in Sessions, ClientWrites(s) PROVE IInv'
<1>a. PICK c, e, u, d, b :
        /\ c = cs[s] /\ e = ss[s] /\ u = up[s] /\ d = down[s] /\ b = balance[s]
        /\ c \in ClientSessions /\ e \in ServerSessions
        /\ u \in 0..Capacity /\ d \in 0..Capacity /\ b \in Int
        /\ ConnectionInv(c, e, u, d, b)
        /\ cs = [cs EXCEPT ![s] = c] /\ ss = [ss EXCEPT ![s] = e]
        /\ up = [up EXCEPT ![s] = u] /\ down = [down EXCEPT ![s] = d]
        /\ balance = [balance EXCEPT ![s] = b]
  BY ConnectionOf
<1>b. BlockSize \in Nat /\ BlockSize > 0 /\ Capacity \in Nat
  BY EchoAssumption
<1>1. c.pc = "writing" /\ u + 1 \in 0..Capacity /\ b + 1 \in Int
  BY <1>a, <1>b DEF ClientWrites
<1>2. c.sent \in 0..(BlockSize - 1) /\ e.length \in Nat /\ e.sent \in Nat
  BY <1>a, <1>b DEF ClientSessions, ServerSessions
<1>3. \A l : cs' = [cs EXCEPT ![s] = l] => Becomes(s, l, e, u + 1, d, b + 1)
  BY <1>a DEF ClientWrites, Becomes
<1>4. CASE c.sent + 1 = BlockSize
  <2>1. PICK l : l = [pc |-> "reading", sent |-> 0]
    OBVIOUS
  <2>2. l \in ClientSessions /\ l.pc = "reading" /\ l.sent = 0
    BY <2>1, <1>b DEF ClientSessions
  <2>3. Becomes(s, l, e, u + 1, d, b + 1)
    BY <1>a, <1>3, <1>4, <2>1 DEF ClientWrites
  <2>4. ConnectionInv(l, e, u + 1, d, b + 1)
    BY <1>a, <1>1, <1>2, <1>4, <2>2, <1>b DEF ConnectionInv, WholeBlockInv
  <2> QED
    BY <1>a, <1>1, <2>2, <2>3, <2>4, BecomesIInv
<1>5. CASE c.sent + 1 # BlockSize
  <2>1. PICK l : l = [c EXCEPT !.sent = c.sent + 1]
    OBVIOUS
  <2>2. Becomes(s, l, e, u + 1, d, b + 1)
    <3>1. cs' = [cs EXCEPT ![s] = [cs[s] EXCEPT !.sent = cs[s].sent + 1]]
      BY <1>a, <1>5 DEF ClientWrites, IInv, TypeOK
    <3> QED
      BY <1>a, <1>3, <2>1, <3>1
  <2>3. l \in ClientSessions
    <3>1. c.sent + 1 \in 0..(BlockSize - 1)
      BY <1>2, <1>5, <1>b
    <3> QED
      BY <1>a, <2>1, <3>1, Zenon DEF ClientSessions
  <2>4. l.pc = "writing" /\ l.sent = c.sent + 1
    BY <1>a, <1>1, <2>1 DEF ClientSessions
  <2>5. ConnectionInv(l, e, u + 1, d, b + 1)
    BY <1>a, <1>1, <1>2, <2>4, <1>b DEF ConnectionInv, WholeBlockInv
  <2> QED
    BY <1>a, <1>1, <2>2, <2>3, <2>5, BecomesIInv
<1> QED
  BY <1>4, <1>5

LEMMA ClientReadsIInv == ASSUME IInv, NEW s \in Sessions, ClientReads(s) PROVE IInv'
<1>a. PICK c, e, u, d, b :
        /\ c = cs[s] /\ e = ss[s] /\ u = up[s] /\ d = down[s] /\ b = balance[s]
        /\ c \in ClientSessions /\ e \in ServerSessions
        /\ u \in 0..Capacity /\ d \in 0..Capacity /\ b \in Int
        /\ ConnectionInv(c, e, u, d, b)
        /\ cs = [cs EXCEPT ![s] = c] /\ ss = [ss EXCEPT ![s] = e]
        /\ up = [up EXCEPT ![s] = u] /\ down = [down EXCEPT ![s] = d]
        /\ balance = [balance EXCEPT ![s] = b]
  BY ConnectionOf
<1>b. BlockSize \in Nat /\ BlockSize > 0 /\ Capacity \in Nat
  BY EchoAssumption
<1>1. PICK n \in ReadSizes(d) : down' = [down EXCEPT ![s] = d - n]
  BY <1>a DEF ClientReads
<1>2. /\ n \in 1..BlockSize /\ n <= d /\ d - n \in 0..Capacity
      /\ ~SplitBlocks => n = BlockSize
  BY <1>a, <1>b, ReadSizesInBlock
<1>3. PICK l : l = Loop /\ l \in ClientSessions /\ l.pc \in {"finished", "writing"} /\ l.sent = 0
  BY LoopTypes
<1>4. c.pc = "reading" /\ Becomes(s, l, e, u, d - n, b)
  BY <1>a, <1>1, <1>3 DEF ClientReads, Becomes
<1>5. ConnectionInv(l, e, u, d - n, b)
  <2>1. e.length \in Nat /\ e.sent \in 0..(BlockSize - 1)
    BY <1>a, <1>b DEF ServerSessions
  <2> QED
    BY <1>a, <1>2, <1>3, <1>4, <2>1, <1>b DEF ConnectionInv, WholeBlockInv
<1> QED
  BY <1>a, <1>2, <1>3, <1>4, <1>5, BecomesIInv

LEMMA ClientFailsIInv == ASSUME IInv, NEW s \in Sessions, ClientFails(s) PROVE IInv'
<1>a. PICK c, e, u, d, b :
        /\ c = cs[s] /\ e = ss[s] /\ u = up[s] /\ d = down[s] /\ b = balance[s]
        /\ c \in ClientSessions /\ e \in ServerSessions
        /\ u \in 0..Capacity /\ d \in 0..Capacity /\ b \in Int
        /\ ConnectionInv(c, e, u, d, b)
        /\ cs = [cs EXCEPT ![s] = c] /\ ss = [ss EXCEPT ![s] = e]
        /\ up = [up EXCEPT ![s] = u] /\ down = [down EXCEPT ![s] = d]
        /\ balance = [balance EXCEPT ![s] = b]
  BY ConnectionOf
<1>b. BlockSize \in Nat /\ BlockSize > 0 /\ Capacity \in Nat
  BY EchoAssumption
<1>1. PICK l : l = [pc |-> "finished", sent |-> 0]
  OBVIOUS
<1>2. l \in ClientSessions /\ l.pc = "finished" /\ l.sent = 0
  BY <1>1, <1>b DEF ClientSessions
<1>3. PICK k : k = [e EXCEPT !.pc = "closed"]
  OBVIOUS
<1>4. k \in ServerSessions /\ k.pc = "closed" /\ k.length = e.length /\ k.sent = e.sent
  BY <1>a, <1>3 DEF ServerSessions
<1>5. CASE c.pc = "connecting" /\ ss' = [ss EXCEPT ![s].pc = "closed"]
  <2>1. Becomes(s, l, k, u, d, b)
    BY <1>a, <1>1, <1>3, <1>5 DEF ClientFails, Becomes, IInv, TypeOK
  <2>2. ConnectionInv(l, k, u, d, b)
    BY <1>a, <1>2, <1>4, <1>5 DEF ConnectionInv, WholeBlockInv
  <2> QED
    BY <1>a, <1>2, <1>4, <2>1, <2>2, BecomesIInv
<1>6. CASE e.pc = "closed" /\ ss' = ss
  <2>1. Becomes(s, l, e, u, d, b)
    BY <1>a, <1>1, <1>6 DEF ClientFails, Becomes
  <2>2. ConnectionInv(l, e, u, d, b)
    BY <1>a, <1>2, <1>6 DEF ConnectionInv, WholeBlockInv
  <2> QED
    BY <1>a, <1>2, <2>1, <2>2, BecomesIInv
<1> QED
  BY <1>a, <1>5, <1>6 DEF ClientFails

-------------------------------------------------------------------------------
(* The server's side. *)
LEMMA AcceptedIInv == ASSUME IInv, NEW s \in Sessions, Accepted(s) PROVE IInv'
<1>a. PICK c, e, u, d, b :
        /\ c = cs[s] /\ e = ss[s] /\ u = up[s] /\ d = down[s] /\ b = balance[s]
        /\ c \in ClientSessions /\ e \in ServerSessions
        /\ u \in 0..Capacity /\ d \in 0..Capacity /\ b \in Int
        /\ ConnectionInv(c, e, u, d, b)
        /\ cs = [cs EXCEPT ![s] = c] /\ ss = [ss EXCEPT ![s] = e]
        /\ up = [up EXCEPT ![s] = u] /\ down = [down EXCEPT ![s] = d]
        /\ balance = [balance EXCEPT ![s] = b]
  BY ConnectionOf
<1>b. BlockSize \in Nat /\ BlockSize > 0 /\ Capacity \in Nat
  BY EchoAssumption
<1>1. e.pc = "accepting" /\ c.pc # "connecting"
  BY <1>a DEF Accepted
<1>2. PICK pc \in {"reading", "closed"} : ss' = [ss EXCEPT ![s].pc = pc]
  BY DEF Accepted
<1>3. PICK k : k = [e EXCEPT !.pc = pc]
  OBVIOUS
<1>4. k \in ServerSessions /\ k.pc = pc /\ k.length = e.length /\ k.sent = e.sent
  BY <1>a, <1>3 DEF ServerSessions
<1>5. Becomes(s, c, k, u, d, b)
  BY <1>a, <1>2, <1>3 DEF Accepted, Becomes, IInv, TypeOK
<1>6. ConnectionInv(c, k, u, d, b)
  BY <1>a, <1>1, <1>4 DEF ConnectionInv, WholeBlockInv
<1> QED
  BY <1>a, <1>4, <1>5, <1>6, BecomesIInv

(* The acceptor's end closes all that it has not accepted. *)
LEMMA AcceptFailsIInv == ASSUME IInv, NEW s \in Sessions, AcceptFails(s) PROVE IInv'
<1>1. /\ cs' = cs /\ up' = up /\ down' = down /\ balance' = balance
      /\ UNCHANGED clientVars
  BY DEF AcceptFails
<1>2. ASSUME NEW t \in Sessions
      PROVE  ss'[t] \in ServerSessions /\ SessionInv(t)'
  <2>1. PICK e : e = ss[t] /\ e \in ServerSessions
    BY DEF IInv, TypeOK, ServerSessions
  <2>2. PICK k : k = [e EXCEPT !.pc = "closed"]
    OBVIOUS
  <2>3. k \in ServerSessions /\ k.pc = "closed" /\ k.length = e.length /\ k.sent = e.sent
    BY <2>1, <2>2 DEF ServerSessions
  <2>4. ConnectionInv(cs[t], e, up[t], down[t], balance[t])
    BY <2>1 DEF IInv, SessionInv
  <2>5. ss'[t] = IF e.pc = "accepting" THEN k ELSE e
    BY <2>1, <2>2 DEF AcceptFails
  <2>6. e.pc = "accepting" => ConnectionInv(cs[t], k, up[t], down[t], balance[t])
    BY <2>3, <2>4 DEF ConnectionInv, WholeBlockInv
  <2> QED
    BY <1>1, <2>1, <2>3, <2>4, <2>5, <2>6 DEF SessionInv
<1>3. ss' \in [Sessions -> ServerSessions]
  <2>1. ss' = [t \in Sessions |-> ss'[t]]
    BY DEF AcceptFails
  <2> QED
    BY <1>2, <2>1
<1>4. TypeOK'
  BY <1>1, <1>3 DEF IInv, TypeOK, clientVars, ServerSessions
<1>5. ClientInv'
  BY <1>1 DEF IInv, ClientInv, Ready, clientVars
<1> QED
  BY <1>2, <1>4, <1>5 DEF IInv

LEMMA ServerReadsIInv == ASSUME IInv, NEW s \in Sessions, ServerReads(s) PROVE IInv'
<1>a. PICK c, e, u, d, b :
        /\ c = cs[s] /\ e = ss[s] /\ u = up[s] /\ d = down[s] /\ b = balance[s]
        /\ c \in ClientSessions /\ e \in ServerSessions
        /\ u \in 0..Capacity /\ d \in 0..Capacity /\ b \in Int
        /\ ConnectionInv(c, e, u, d, b)
        /\ cs = [cs EXCEPT ![s] = c] /\ ss = [ss EXCEPT ![s] = e]
        /\ up = [up EXCEPT ![s] = u] /\ down = [down EXCEPT ![s] = d]
        /\ balance = [balance EXCEPT ![s] = b]
  BY ConnectionOf
<1>b. BlockSize \in Nat /\ BlockSize > 0 /\ Capacity \in Nat
  BY EchoAssumption
<1>1. PICK n \in ReadSizes(u) :
        /\ up' = [up EXCEPT ![s] = u - n]
        /\ ss' = [ss EXCEPT ![s] = [pc |-> "writing", length |-> BlockSize, sent |-> 0]]
  BY <1>a DEF ServerReads, ReplyLength
<1>2. /\ n \in 1..BlockSize /\ n <= u /\ u - n \in 0..Capacity
      /\ ~SplitBlocks => n = BlockSize
  BY <1>a, <1>b, ReadSizesInBlock
<1>3. PICK k : k = [pc |-> "writing", length |-> BlockSize, sent |-> 0]
  OBVIOUS
<1>4. k \in ServerSessions /\ k.pc = "writing" /\ k.length = BlockSize /\ k.sent = 0
  BY <1>b, <1>3 DEF ServerSessions
<1>5. e.pc = "reading" /\ Becomes(s, c, k, u - n, d, b)
  BY <1>a, <1>1, <1>3 DEF ServerReads, Becomes
<1>6. ConnectionInv(c, k, u - n, d, b)
  <2>1. c.sent \in 0..(BlockSize - 1)
    BY <1>a DEF ClientSessions
  <2> QED
    BY <1>a, <1>2, <1>4, <1>5, <2>1, <1>b DEF ConnectionInv, WholeBlockInv
<1> QED
  BY <1>a, <1>2, <1>4, <1>5, <1>6, BecomesIInv

LEMMA ServerWritesIInv == ASSUME IInv, NEW s \in Sessions, ServerWrites(s) PROVE IInv'
<1>a. PICK c, e, u, d, b :
        /\ c = cs[s] /\ e = ss[s] /\ u = up[s] /\ d = down[s] /\ b = balance[s]
        /\ c \in ClientSessions /\ e \in ServerSessions
        /\ u \in 0..Capacity /\ d \in 0..Capacity /\ b \in Int
        /\ ConnectionInv(c, e, u, d, b)
        /\ cs = [cs EXCEPT ![s] = c] /\ ss = [ss EXCEPT ![s] = e]
        /\ up = [up EXCEPT ![s] = u] /\ down = [down EXCEPT ![s] = d]
        /\ balance = [balance EXCEPT ![s] = b]
  BY ConnectionOf
<1>b. BlockSize \in Nat /\ BlockSize > 0 /\ Capacity \in Nat
  BY EchoAssumption
<1>1. e.pc = "writing" /\ e.length = BlockSize /\ d + 1 \in 0..Capacity /\ b - 1 \in Int
  BY <1>a, <1>b DEF ServerWrites, ConnectionInv
<1>2. e.sent \in 0..(BlockSize - 1) /\ c.sent \in Nat
  BY <1>a, <1>b DEF ClientSessions, ServerSessions
<1>3. \A k : ss' = [ss EXCEPT ![s] = k] => Becomes(s, c, k, u, d + 1, b - 1)
  BY <1>a DEF ServerWrites, Becomes
<1>4. CASE e.sent + 1 = e.length
  <2>1. PICK k : k = [pc |-> "reading", length |-> 0, sent |-> 0]
    OBVIOUS
  <2>2. k \in ServerSessions /\ k.pc = "reading" /\ k.length = 0 /\ k.sent = 0
    BY <2>1, <1>b DEF ServerSessions
  <2>3. Becomes(s, c, k, u, d + 1, b - 1)
    BY <1>a, <1>3, <1>4, <2>1 DEF ServerWrites
  <2>4. ASSUME ~SplitBlocks PROVE WholeBlockInv(c, k, u, d + 1, b - 1)
    <3>1. WholeBlockInv(c, e, u, d, b)
      BY <1>a, <2>4 DEF ConnectionInv
    <3>2. b - 1 >= u
      <4>1. b >= u + (e.length - e.sent)
        BY <3>1 DEF WholeBlockInv
      <4>2. u \in Int /\ b \in Int /\ e.sent \in Int /\ e.length = e.sent + 1
        BY <1>a, <1>b, <1>2, <1>4
      <4> QED
        BY <4>1, <4>2
    <3>3. c.pc # "writing" /\ (c.pc = "reading" => u = 0 /\ d + 1 = BlockSize)
      BY <1>a, <1>1, <1>2, <1>4, <1>b, <3>1 DEF WholeBlockInv
    <3> QED
      BY <1>a, <2>2, <3>2, <3>3 DEF WholeBlockInv
  <2>5. ConnectionInv(c, k, u, d + 1, b - 1)
    BY <1>a, <1>1, <2>2, <2>4 DEF ConnectionInv
  <2> QED
    BY <1>a, <1>1, <2>2, <2>3, <2>5, BecomesIInv
<1>5. CASE e.sent + 1 # e.length
  <2>1. PICK k : k = [e EXCEPT !.sent = e.sent + 1]
    OBVIOUS
  <2>2. Becomes(s, c, k, u, d + 1, b - 1)
    <3>1. ss' = [ss EXCEPT ![s] = [ss[s] EXCEPT !.sent = ss[s].sent + 1]]
      BY <1>a, <1>5 DEF ServerWrites, IInv, TypeOK
    <3> QED
      BY <1>a, <1>3, <2>1, <3>1
  <2>3. k \in ServerSessions
    <3>1. e.sent + 1 \in 0..(BlockSize - 1)
      BY <1>1, <1>2, <1>5, <1>b
    <3> QED
      BY <1>a, <2>1, <3>1, Zenon DEF ServerSessions
  <2>4. k.pc = "writing" /\ k.length = BlockSize /\ k.sent = e.sent + 1
    BY <1>a, <1>1, <2>1 DEF ServerSessions
  <2>5. ConnectionInv(c, k, u, d + 1, b - 1)
    BY <1>a, <1>1, <1>2, <2>4, <1>b DEF ConnectionInv, WholeBlockInv
  <2> QED
    BY <1>a, <1>1, <2>2, <2>3, <2>5, BecomesIInv
<1> QED
  BY <1>4, <1>5

LEMMA ServerFailsIInv == ASSUME IInv, NEW s \in Sessions, ServerFails(s) PROVE IInv'
<1>a. PICK c, e, u, d, b :
        /\ c = cs[s] /\ e = ss[s] /\ u = up[s] /\ d = down[s] /\ b = balance[s]
        /\ c \in ClientSessions /\ e \in ServerSessions
        /\ u \in 0..Capacity /\ d \in 0..Capacity /\ b \in Int
        /\ ConnectionInv(c, e, u, d, b)
        /\ cs = [cs EXCEPT ![s] = c] /\ ss = [ss EXCEPT ![s] = e]
        /\ up = [up EXCEPT ![s] = u] /\ down = [down EXCEPT ![s] = d]
        /\ balance = [balance EXCEPT ![s] = b]
  BY ConnectionOf
<1>b. BlockSize \in Nat /\ BlockSize > 0 /\ Capacity \in Nat
  BY EchoAssumption
<1>1. PICK k : k = [pc |-> "closed", length |-> 0, sent |-> 0]
  OBVIOUS
<1>2. k \in ServerSessions /\ k.pc = "closed" /\ k.length = 0 /\ k.sent = 0
  BY <1>1, <1>b DEF ServerSessions
<1>3. Becomes(s, c, k, u, d, b)
  BY <1>a, <1>1 DEF ServerFails, Becomes
<1>4. ConnectionInv(c, k, u, d, b)
  <2>1. /\ e.length \in Nat /\ e.sent \in 0..(BlockSize - 1)
        /\ e.pc = "writing" => e.length = BlockSize
        /\ e.pc # "writing" => e.length = 0 /\ e.sent = 0
        /\ c.pc = "finished" /\ c.sent = 0
    BY <1>a, <1>b DEF ServerSessions, ServerFails, ConnectionInv
  <2> QED
    BY <1>a, <1>2, <2>1, <1>b DEF ConnectionInv, WholeBlockInv
<1> QED
  BY <1>a, <1>2, <1>3, <1>4, BecomesIInv

-------------------------------------------------------------------------------
(* The client coroutine leaves in its list what has not completed.          *)
LEMMA AwaitSessionsKeepsPending ==
  ASSUME IInv, AwaitSessions
  PROVE  /\ sessions' \in Seq(Sessions) /\ client' \in {"polling", "returned"}
         /\ client' = "returned" => Len(sessions') = 0
         /\ \A s \in Sessions :
              Ready(s) \/ \E i \in 1..Len(sessions') : sessions'[i] = s
<1>1. PICK k \in 0..Len(sessions) :
        /\ \A i \in 1..k : Ready(sessions[i])
        /\ sessions' = SubSeq(sessions, k + 1, Len(sessions))
        /\ client' = IF k = Len(sessions) THEN "returned" ELSE "polling"
  BY DEF AwaitSessions
<1>2. sessions \in Seq(Sessions) /\ Len(sessions) \in Nat /\ k \in Nat
  BY DEF IInv, TypeOK
<1>3. /\ sessions' \in Seq(Sessions)
      /\ Len(sessions') = Len(sessions) - k
      /\ \A i \in 1..(Len(sessions) - k) : sessions'[i] = sessions[k + i]
  <2>1. \A i \in (k + 1)..Len(sessions) : sessions[i] \in Sessions
    BY <1>2
  <2>2. /\ SubSeq(sessions, k + 1, Len(sessions)) \in Seq(Sessions)
        /\ Len(SubSeq(sessions, k + 1, Len(sessions))) =
             IF k + 1 <= Len(sessions) THEN Len(sessions) - (k + 1) + 1 ELSE 0
        /\ \A i \in 1..(Len(sessions) - (k + 1) + 1) :
             SubSeq(sessions, k + 1, Len(sessions))[i] = sessions[k + 1 + i - 1]
    BY <1>2, <2>1, SubSeqProperties
  <2> QED
    BY <1>1, <1>2, <2>2
<1>4. ASSUME NEW s \in Sessions, ~Ready(s)
      PROVE  \E i \in 1..Len(sessions') : sessions'[i] = s
  <2>1. PICK j \in 1..Len(sessions) : sessions[j] = s
    BY <1>4 DEF IInv, ClientInv
  <2>2. j > k
    BY <1>1, <1>2, <1>4, <2>1
  <2>3. j - k \in 1..Len(sessions') /\ sessions'[j - k] = s
    BY <1>2, <1>3, <2>1, <2>2
  <2> QED
    BY <2>3
<1>5. /\ client' \in {"polling", "returned"}
      /\ client' = "returned" => Len(sessions') = 0
  BY <1>1, <1>2, <1>3
<1>6. \A s \in Sessions :
        Ready(s) \/ \E i \in 1..Len(sessions') : sessions'[i] = s
  BY <1>4
<1> QED
  BY <1>3, <1>5, <1>6, Zenon

LEMMA ClientStepIInv ==
  ASSUME IInv, Timeout \/ Poll \/ RunReturns \/ UNCHANGED vars
  PROVE  IInv'
<1>1. cs' = cs /\ ss' = ss /\ up' = up /\ down' = down /\ balance' = balance
  BY DEF Timeout, Poll, RunReturns, vars
<1>2. \A s \in Sessions : SessionInv(s)' /\ (Ready(s)' <=> Ready(s))
  BY <1>1 DEF IInv, SessionInv, Ready
<1>3. CASE Timeout \/ Poll
  <2>1. AwaitSessions /\ run' = run /\ stop' \in BOOLEAN
    BY <1>3 DEF IInv, TypeOK, Timeout, Poll
  <2>2. TypeOK'
    BY <1>1, <2>1, AwaitSessionsKeepsPending DEF IInv, TypeOK
  <2>3. ClientInv'
    BY <1>2, <2>1, AwaitSessionsKeepsPending DEF IInv, ClientInv
  <2> QED
    BY <1>2, <2>2, <2>3 DEF IInv
<1>4. CASE RunReturns
  BY <1>1, <1>2, <1>4 DEF IInv, TypeOK, ClientInv, RunReturns
<1>5. CASE UNCHANGED vars
  BY <1>1, <1>2, <1>5 DEF IInv, TypeOK, ClientInv, vars
<1> QED
  BY <1>3, <1>4, <1>5

LEMMA NextIInv == IInv /\ [Next]_vars => IInv'
BY ConnectedIInv, ClientWritesIInv, ClientReadsIInv, ClientFailsIInv, AcceptedIInv,
   AcceptFailsIInv, ServerReadsIInv, ServerWritesIInv, ServerFailsIInv, ClientStepIInv
   DEF Next, Over

-------------------------------------------------------------------------------
(* The invariant of the coroutine client and server.                        *)
THEOREM EchoInvariant == Spec => []IInv
<1>1. Init => IInv
  BY InitIInv
<1>2. IInv /\ [Next]_vars => IInv'
  BY NextIInv
<1> QED
  BY <1>1, <1>2, PTL DEF Spec

(* Type correctness; no write counts past its block and no socket buffer    *)
(* past its capacity.                                                       *)
THEOREM TypeCorrect == Spec => []TypeOK
<1>1. IInv => TypeOK
  BY DEF IInv
<1> QED
  BY <1>1, EchoInvariant, PTL

(* The client coroutine's frame, with the flag that the sessions read, is   *)
(* there until all of them have finished, split blocks or not.              *)
THEOREM FramesOutliveSessions == Spec => []FrameOutlivesSessions
<1>1. IInv => FrameOutlivesSessions
  BY DEF IInv, ClientInv, FrameOutlivesSessions, Ready
<1> QED
  BY <1>1, EchoInvariant, PTL

(* When the network delivers whole blocks, client and server never wait for *)
(* each other for good.                                                     *)
THEOREM WholeBlocksNeverWait ==
  ASSUME ~SplitBlocks PROVE Spec => []NoMutualWait
<1>1. IInv => NoMutualWait
  <2> SUFFICES ASSUME IInv, NEW s \in Sessions,
                      cs[s].pc \in {"writing", "reading"},
                      ss[s].pc \in {"reading", "writing"}
               PROVE  \/ cs[s].pc = "writing" /\ up[s] < Capacity
                      \/ cs[s].pc = "reading" /\ ReadSizes(down[s]) # {}
                      \/ ss[s].pc = "reading" /\ ReadSizes(up[s]) # {}
                      \/ ss[s].pc = "writing" /\ down[s] < Capacity
    BY DEF NoMutualWait
  <2>a. PICK c, e, u, d, b :
          /\ c = cs[s] /\ e = ss[s] /\ u = up[s] /\ d = down[s] /\ b = balance[s]
          /\ c \in ClientSessions /\ e \in ServerSessions
          /\ u \in 0..Capacity /\ d \in 0..Capacity /\ b \in Int
          /\ ConnectionInv(c, e, u, d, b)
          /\ cs = [cs EXCEPT ![s] = c] /\ ss = [ss EXCEPT ![s] = e]
          /\ up = [up EXCEPT ![s] = u] /\ down = [down EXCEPT ![s] = d]
          /\ balance = [balance EXCEPT ![s] = b]
    BY ConnectionOf
  <2>b. BlockSize \in Nat /\ BlockSize > 0 /\ Capacity \in Nat
    BY EchoAssumption
  <2>1. /\ BlockSize <= Capacity
        /\ c.sent \in 0..(BlockSize - 1) /\ e.sent \in 0..(BlockSize - 1)
        /\ WholeBlockInv(c, e, u, d, b)
    BY <2>a, EchoAssumption DEF ClientSessions, ServerSessions, ConnectionInv
  <2>2. BlockSize \in ReadSizes(BlockSize)
    BY <2>b DEF ReadSizes
  <2> QED
    BY <2>a, <2>b, <2>1, <2>2 DEF WholeBlockInv
<1> QED
  BY <1>1, EchoInvariant, PTL

(* Nor does the server then send back more than it was sent: what over_echo *)
(* finds is due to split blocks alone.                                      *)
THEOREM WholeBlocksAreNotOverEchoed ==
  ASSUME ~SplitBlocks PROVE Spec => []NeverOverEchoes
<1>1. IInv => NeverOverEchoes
  <2> SUFFICES ASSUME IInv, NEW s \in Sessions PROVE balance[s] >= 0
    BY DEF NeverOverEchoes
  <2>a. PICK c, e, u, d, b :
          /\ c = cs[s] /\ e = ss[s] /\ u = up[s] /\ d = down[s] /\ b = balance[s]
          /\ c \in ClientSessions /\ e \in ServerSessions
          /\ u \in 0..Capacity /\ d \in 0..Capacity /\ b \in Int
          /\ ConnectionInv(c, e, u, d, b)
          /\ cs = [cs EXCEPT ![s] = c] /\ ss = [ss EXCEPT ![s] = e]
          /\ up = [up EXCEPT ![s] = u] /\ down = [down EXCEPT ![s] = d]
          /\ balance = [balance EXCEPT ![s] = b]
    BY ConnectionOf
  <2>b. BlockSize \in Nat /\ BlockSize > 0 /\ Capacity \in Nat
    BY EchoAssumption
  <2>1. e.length \in 0..BlockSize /\ e.sent \in 0..(BlockSize - 1) /\ ConnectionInv(c, e, u, d, b)
    BY <2>a DEF ServerSessions
  <2> QED
    BY <2>a, <2>b, <2>1 DEF ConnectionInv, WholeBlockInv
<1> QED
  BY <1>1, EchoInvariant, PTL

-------------------------------------------------------------------------------
(* The steps that are left to a connection once the flag is raised, with    *)
(* its sides at p and q, m and k bytes into their blocks, and d bytes on    *)
(* their way to the client: the client finishes its block and reads once,   *)
(* and the server answers one block, or has answered it.                    *)
ClientLeft(p, m) == IF p = "writing" THEN BlockSize - m + 1 ELSE 1

ServerLeft(q, k, d) ==
  IF q = "accepting" THEN BlockSize + 3
  ELSE IF q = "reading" /\ d = 0 THEN BlockSize + 2
  ELSE IF q = "writing" THEN BlockSize + 1 - k ELSE 0

Left(p, m, q, k, d) ==
  IF p = "finished" THEN 0 ELSE ClientLeft(p, m) + ServerLeft(q, k, d)

LeftOf(s) == Left(cs[s].pc, cs[s].sent, ss[s].pc, ss[s].sent, down[s])

Connection(s) == <<cs[s], ss[s], up[s], down[s]>>

(* Raised, the flag stays so; a session that has not finished comes nearer  *)
(* to its end with whatever happens to its connection, and one that has     *)
(* finished does not begin again.                                           *)
RunsDown ==
  stop =>
    /\ stop'
    /\ \A s \in Sessions :
         /\ LeftOf(s) \in Nat
         /\ Ready(s) => Ready(s)'
         /\ ~Ready(s) /\ Connection(s)' # Connection(s) => LeftOf(s)' < LeftOf(s)

LEMMA LeftTypes ==
  ASSUME NEW p, NEW q, NEW m \in 0..(BlockSize - 1), NEW k \in 0..(BlockSize - 1), NEW d
  PROVE  /\ ClientLeft(p, m) \in Nat /\ ClientLeft(p, m) > 0
         /\ ServerLeft(q, k, d) \in Nat
         /\ Left(p, m, q, k, d) \in Nat
         /\ p # "finished" => Left(p, m, q, k, d) > 0
<1>1. BlockSize \in Nat
  BY EchoAssumption
<1>2. ClientLeft(p, m) \in Nat /\ ClientLeft(p, m) > 0
  BY <1>1 DEF ClientLeft
<1>3. ServerLeft(q, k, d) \in Nat
  BY <1>1 DEF ServerLeft
<1>4. PICK a \in Nat, b \in Nat : a = ClientLeft(p, m) /\ b = ServerLeft(q, k, d)
  BY <1>2, <1>3
<1>5. Left(p, m, q, k, d) = IF p = "finished" THEN 0 ELSE a + b
  BY <1>4 DEF Left
<1> QED
  BY <1>2, <1>3, <1>4, <1>5

FieldsTyped ==
  \A s \in Sessions :
    /\ cs[s].sent \in 0..(BlockSize - 1) /\ ss[s].sent \in 0..(BlockSize - 1)
    /\ down[s] \in Nat
    /\ cs[s] \in ClientSessions /\ ss[s] \in ServerSessions

LEMMA FieldTypes == IInv => FieldsTyped
BY EchoAssumption DEF IInv, TypeOK, ClientSessions, ServerSessions, FieldsTyped

(* What finishes has nothing left. *)
LEMMA FinishedLeft ==
  ASSUME IInv, IInv', NEW s \in Sessions, ~Ready(s), Ready(s)'
  PROVE  LeftOf(s)' < LeftOf(s)
<1>1. LeftOf(s) \in Nat /\ LeftOf(s) > 0
  BY FieldTypes, LeftTypes DEF LeftOf, Ready, FieldsTyped
<1>2. LeftOf(s)' = 0
  BY DEF LeftOf, Left, Ready
<1> QED
  BY <1>1, <1>2

LEMMA ClientStepLeft ==
  ASSUME IInv, IInv', stop, NEW s \in Sessions,
         Connected(s) \/ ClientWrites(s) \/ ClientReads(s) \/ ClientFails(s)
  PROVE  ~Ready(s) /\ LeftOf(s)' < LeftOf(s)
<1>1. ~Ready(s)
  BY DEF Connected, ClientWrites, ClientReads, ClientFails, Ready
<1>2. CASE Connected(s) \/ ClientReads(s) \/ ClientFails(s)
  <2>1. Ready(s)'
    BY <1>2 DEF IInv, TypeOK, Connected, ClientReads, ClientFails, Ready, Loop
  <2> QED
    BY <1>1, <2>1, FinishedLeft
<1>3. CASE ClientWrites(s)
  <2>1. PICK m \in 0..(BlockSize - 1), k \in 0..(BlockSize - 1),
             q \in {"accepting", "reading", "writing", "closed"}, d \in Nat :
          /\ m = cs[s].sent /\ k = ss[s].sent /\ q = ss[s].pc /\ d = down[s]
          /\ k = ss'[s].sent /\ q = ss'[s].pc /\ d = down'[s]
    BY <1>3, FieldTypes DEF ClientWrites, FieldsTyped, ServerSessions
  <2>2. BlockSize \in Nat /\ cs[s].pc = "writing"
    BY <1>3, EchoAssumption DEF ClientWrites
  <2>3. \/ cs'[s].pc = "reading" /\ m + 1 = BlockSize
        \/ cs'[s].pc = "writing" /\ cs'[s].sent = m + 1 /\ m + 1 # BlockSize
    BY <1>3, <2>1 DEF ClientWrites, IInv, TypeOK
  <2>4. PICK b \in Nat : b = ServerLeft(q, k, d)
    BY LeftTypes
  <2>5. LeftOf(s) = BlockSize - m + 1 + b
    BY <2>1, <2>2, <2>4 DEF LeftOf, Left, ClientLeft
  <2>6. CASE cs'[s].pc = "reading" /\ m + 1 = BlockSize
    <3>1. LeftOf(s)' = 1 + b
      BY <2>1, <2>4, <2>6 DEF LeftOf, Left, ClientLeft
    <3> QED
      BY <1>1, <2>2, <2>5, <2>6, <3>1
  <2>7. CASE cs'[s].pc = "writing" /\ cs'[s].sent = m + 1
    <3>1. LeftOf(s)' = BlockSize - (m + 1) + 1 + b
      BY <2>1, <2>4, <2>7 DEF LeftOf, Left, ClientLeft
    <3> QED
      BY <1>1, <2>2, <2>5, <3>1
  <2> QED
    BY <2>3, <2>6, <2>7
<1> QED
  BY <1>2, <1>3

(* A step that leaves the client's side as it is takes the server's nearer. *)
LEMMA ServerNearer ==
  ASSUME NEW p, p # "finished", NEW m \in 0..(BlockSize - 1),
         NEW q, NEW k \in 0..(BlockSize - 1), NEW d \in Nat,
         NEW qq, NEW kk \in 0..(BlockSize - 1), NEW dd \in Nat,
         \/ q = "accepting" /\ qq \in {"reading", "closed"}
         \/ q = "reading" /\ d = 0 /\ qq = "writing"
         \/ q = "writing" /\ qq = "writing" /\ kk = k + 1
         \/ q = "writing" /\ qq = "reading" /\ dd # 0
  PROVE  Left(p, m, qq, kk, dd) < Left(p, m, q, k, d)
<1>1. BlockSize \in Nat
  BY EchoAssumption
<1>2. PICK a \in Nat, b \in Nat, bb \in Nat :
        a = ClientLeft(p, m) /\ b = ServerLeft(q, k, d) /\ bb = ServerLeft(qq, kk, dd)
  BY LeftTypes
<1>3. bb < b
  BY <1>1, <1>2 DEF ServerLeft
<1>4. Left(p, m, q, k, d) = a + b /\ Left(p, m, qq, kk, dd) = a + bb
  BY <1>2 DEF Left
<1> QED
  BY <1>3, <1>4

LEMMA ServerStepLeft ==
  ASSUME IInv, IInv', ~SplitBlocks, NEW s \in Sessions, ~Ready(s), cs'[s] = cs[s],
         \/ Accepted(s) \/ ServerReads(s) \/ ServerWrites(s)
         \/ /\ ss[s].pc = "accepting" /\ ss'[s].pc = "closed"
            /\ down'[s] = down[s]
  PROVE  LeftOf(s)' < LeftOf(s)
<1>1. PICK m \in 0..(BlockSize - 1), k \in 0..(BlockSize - 1),
           kk \in 0..(BlockSize - 1), d \in Nat, dd \in Nat :
        /\ m = cs[s].sent /\ k = ss[s].sent /\ d = down[s]
        /\ m = cs'[s].sent /\ kk = ss'[s].sent /\ dd = down'[s]
  <2>1. (IInv => FieldsTyped)'
    BY FieldTypes, PTL
  <2> QED
    BY <2>1, FieldTypes DEF FieldsTyped
<1>2. cs[s].pc # "finished"
  BY DEF Ready
<1>3. \/ ss[s].pc = "accepting" /\ ss'[s].pc \in {"reading", "closed"}
      \/ ss[s].pc = "reading" /\ d = 0 /\ ss'[s].pc = "writing"
      \/ ss[s].pc = "writing" /\ ss'[s].pc = "writing" /\ kk = k + 1
      \/ ss[s].pc = "writing" /\ ss'[s].pc = "reading" /\ dd # 0
  <2>1. CASE Accepted(s)
    BY <2>1 DEF Accepted, IInv, TypeOK
  <2>2. CASE ServerReads(s)
    <3>1. PICK n \in ReadSizes(up[s]) : ss[s].pc = "reading" /\ ss'[s].pc = "writing"
      BY <2>2 DEF ServerReads, IInv, TypeOK
    <3>2. up[s] \in Nat /\ BlockSize \in Nat \ {0}
      BY EchoAssumption DEF IInv, TypeOK
    <3>3. up[s] # 0
      BY <3>1, <3>2, ReadSizesInBlock
    <3>4. cs[s].pc \in {"writing", "reading"}
      BY <1>2, <3>1 DEF IInv, SessionInv, ConnectionInv, TypeOK
    <3>5. WholeBlockInv(cs[s], ss[s], up[s], down[s], balance[s])
      BY DEF IInv, SessionInv, ConnectionInv
    <3>6. d = 0
      BY <1>1, <3>1, <3>3, <3>4, <3>5 DEF WholeBlockInv
    <3> QED
      BY <3>1, <3>6
  <2>3. CASE ServerWrites(s)
    <3>1. ss[s].pc = "writing" /\ dd = d + 1
      BY <1>1, <2>3 DEF ServerWrites, IInv, TypeOK
    <3>2. \/ ss' = [ss EXCEPT ![s] = [pc |-> "reading", length |-> 0, sent |-> 0]]
          \/ ss' = [ss EXCEPT ![s] = [ss[s] EXCEPT !.sent = ss[s].sent + 1]]
      BY <2>3 DEF ServerWrites
    <3>3. DOMAIN ss = Sessions /\ ss[s] \in ServerSessions
      BY FieldTypes DEF IInv, TypeOK, FieldsTyped
    <3>4. \/ ss'[s].pc = "reading"
          \/ ss'[s].pc = "writing" /\ ss'[s].sent = ss[s].sent + 1
      BY <3>1, <3>2, <3>3 DEF ServerSessions
    <3> QED
      BY <1>1, <3>1, <3>4
  <2> QED
    BY <2>1, <2>2, <2>3
<1>4. Left(cs[s].pc, m, ss'[s].pc, kk, dd) < Left(cs[s].pc, m, ss[s].pc, k, d)
  <2>1. PICK p, q, qq : p = cs[s].pc /\ q = ss[s].pc /\ qq = ss'[s].pc
    OBVIOUS
  <2> QED
    BY <1>2, <1>3, <2>1, ServerNearer
<1>5. /\ LeftOf(s) = Left(cs[s].pc, m, ss[s].pc, k, d)
      /\ LeftOf(s)' = Left(cs[s].pc, m, ss'[s].pc, kk, dd)
  BY <1>1 DEF LeftOf
<1> QED
  BY <1>4, <1>5

LEMMA NextLeft ==
  ASSUME IInv, IInv', ~SplitBlocks, stop, [Next]_vars, NEW s \in Sessions
  PROVE  /\ stop' = stop
         /\ Ready(s) => Ready(s)'
         /\ ~Ready(s) /\ Connection(s)' # Connection(s) => LeftOf(s)' < LeftOf(s)
<1>1. CASE Timeout \/ Poll \/ RunReturns \/ Over \/ UNCHANGED vars
  BY <1>1 DEF Timeout, Poll, RunReturns, Over, vars, Ready, Connection
<1>2. ASSUME NEW t \in Sessions,
             \/ Connected(t) \/ ClientWrites(t) \/ ClientReads(t) \/ ClientFails(t)
             \/ Accepted(t) \/ ServerReads(t) \/ ServerWrites(t) \/ ServerFails(t)
      PROVE  /\ stop' = stop
             /\ Ready(s) => Ready(s)'
             /\ ~Ready(s) /\ Connection(s)' # Connection(s) => LeftOf(s)' < LeftOf(s)
  <2>1. stop' = stop
    BY <1>2 DEF Connected, ClientWrites, ClientReads, ClientFails, Accepted,
       ServerReads, ServerWrites, ServerFails, clientVars
  <2>2. CASE t # s
    <3>1. cs'[s] = cs[s] /\ ss'[s] = ss[s] /\ up'[s] = up[s] /\ down'[s] = down[s]
      BY <1>2, <2>2 DEF IInv, TypeOK, Connected, ClientWrites, ClientReads, ClientFails,
         Accepted, ServerReads, ServerWrites, ServerFails
    <3> QED
      BY <2>1, <3>1 DEF Ready, Connection
  <2>3. CASE t = s /\ (Connected(s) \/ ClientWrites(s) \/ ClientReads(s) \/ ClientFails(s))
    BY <2>1, <2>3, ClientStepLeft
  <2>4. CASE t = s /\ (Accepted(s) \/ ServerReads(s) \/ ServerWrites(s) \/ ServerFails(s))
    <3>1. cs' = cs
      BY <2>4 DEF Accepted, ServerReads, ServerWrites, ServerFails
    <3>2. ServerFails(s) => Ready(s)
      BY DEF ServerFails, Ready
    <3> QED
      BY <2>1, <2>4, <3>1, <3>2, ServerStepLeft DEF Ready
  <2> QED
    BY <1>2, <2>2, <2>3, <2>4
<1>3. ASSUME NEW t \in Sessions, AcceptFails(t)
      PROVE  /\ stop' = stop
             /\ Ready(s) => Ready(s)'
             /\ ~Ready(s) /\ Connection(s)' # Connection(s) => LeftOf(s)' < LeftOf(s)
  <2>1. cs' = cs /\ down' = down /\ up' = up /\ stop' = stop
    BY <1>3 DEF AcceptFails, clientVars
  <2>2. ss'[s] = ss[s] \/ (ss[s].pc = "accepting" /\ ss'[s].pc = "closed")
    BY <1>3 DEF AcceptFails, IInv, TypeOK
  <2>3. CASE ss'[s] = ss[s]
    BY <2>1, <2>3 DEF Ready, Connection
  <2>4. CASE ss[s].pc = "accepting" /\ ss'[s].pc = "closed"
    BY <2>1, <2>4, ServerStepLeft DEF Ready
  <2> QED
    BY <2>2, <2>3, <2>4
<1> QED
  BY <1>1, <1>2, <1>3 DEF Next

(* The safety half of StopEndsProgram: when the network delivers whole      *)
(* blocks, each session has only so many steps before it after the flag is  *)
(* raised, and by WholeBlocksNeverWait one of them is possible.             *)
THEOREM StoppedSessionsRunDown ==
  ASSUME ~SplitBlocks PROVE Spec => [][RunsDown]_vars
<1>1. ASSUME IInv PROVE \A s \in Sessions : LeftOf(s) \in Nat
  BY <1>1, FieldTypes, LeftTypes DEF LeftOf, FieldsTyped
<1>2. ASSUME IInv, IInv', [Next]_vars PROVE RunsDown
  <2> SUFFICES ASSUME stop PROVE /\ stop'
                                 /\ \A s \in Sessions :
                                      /\ LeftOf(s) \in Nat
                                      /\ Ready(s) => Ready(s)'
                                      /\ ~Ready(s) /\ Connection(s)' # Connection(s)
                                           => LeftOf(s)' < LeftOf(s)
    BY DEF RunsDown
  <2>1. stop'
    BY <1>2 DEF Next, Timeout, Poll, RunReturns, Over, vars, Connected, ClientWrites,
       ClientReads, ClientFails, Accepted, AcceptFails, ServerReads, ServerWrites,
       ServerFails, clientVars
  <2> QED
    BY <1>1, <1>2, <2>1, NextLeft
<1>3. IInv /\ IInv' /\ [Next]_vars => [RunsDown]_vars
  BY <1>2
<1> QED
  BY <1>3, EchoInvariant, PTL DEF Spec
===============================================================================
