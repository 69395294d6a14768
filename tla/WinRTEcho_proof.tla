---------------------------- MODULE WinRTEcho_proof ----------------------------
(***************************************************************************)
(* Proofs about the WinRT client against a server that replies with what   *)
(* it has read, for any finite set of sessions, and any block size and     *)
(* connection that can go round.                                           *)
(*                                                                         *)
(* SessionInv, for each connection, accounts for the bytes of its block;   *)
(* ClientInv says that a session which the client has let go of has        *)
(* completed.                                                              *)
(***************************************************************************)
EXTENDS WinRTEcho, FiniteSetTheorems, SequenceTheorems, TLAPS

ClientSessions ==
  [pc : {"connecting", "writing", "reading", "done"},
   length : 0..BlockSize, sent : 0..BlockSize]

ServerSessions ==
  [pc : {"none", "reading", "writing", "closed"},
   length : 0..BlockSize, sent : 0..BlockSize]

TypeInv ==
  /\ stop \in BOOLEAN
  /\ client \in {"ticking", "waiting", "returned"}
  /\ sessions \in Seq(Sessions)
  /\ main \in {"waiting", "exited"}
  /\ cs \in [Sessions -> ClientSessions]
  /\ ss \in [Sessions -> ServerSessions]
  /\ up \in [Sessions -> Nat]
  /\ down \in [Sessions -> Nat]

(* Where the bytes of the client's block are, in a connection whose sides   *)
(* have the states c and e, with u and d bytes in flight.                   *)
ConnectionInv(c, e, u, d) ==
  /\ c.pc = "connecting" => /\ c.length = BlockSize /\ c.sent = 0
                            /\ e.pc = "none" /\ u = 0 /\ d = 0
  /\ e.pc # "writing" => e.length = 0 /\ e.sent = 0
  /\ e.pc = "writing" => e.sent < e.length
  /\ c.sent <= c.length
  /\ c.pc \in {"writing", "reading"} /\ e.pc # "closed" =>
       (IF c.pc = "writing" THEN c.length - c.sent ELSE 0)
       + u + (e.length - e.sent) + d = BlockSize

SessionInv(s) == ConnectionInv(cs[s], ss[s], up[s], down[s])

(* A session is completed or still in the client's list. *)
ClientInv ==
  /\ \A s \in Sessions : Completed(s) \/ \E i \in 1..Len(sessions) : sessions[i] = s
  /\ client = "returned" => Len(sessions) = 0
  /\ client = "waiting" => Len(sessions) > 0
  /\ main = "exited" => client = "returned"

IInv ==
  /\ TypeInv
  /\ \A s \in Sessions : SessionInv(s)
  /\ ClientInv

-------------------------------------------------------------------------------
(* Every session is in the list that the client starts with. *)
LEMMA SetToSeqListsAll ==
  ASSUME NEW S, IsFiniteSet(S)
  PROVE  /\ SetToSeq(S) \in Seq(S)
         /\ \A s \in S : \E i \in 1..Len(SetToSeq(S)) : SetToSeq(S)[i] = s
<1>1. PICK n \in Nat : n = Cardinality(S)
  BY FS_CardinalityType
<1>2. \E f \in [1..n -> S] : IsInjective(f)
  BY <1>1, FS_CardinalityType DEF ExistsBijection, Bijection, Injection
<1>3. PICK f : f = SetToSeq(S)
  OBVIOUS
<1>4. f \in [1..n -> S] /\ IsInjective(f)
  BY <1>1, <1>2, <1>3, Zenon DEF SetToSeq
<1>5. f \in Injection(1..n, S)
  BY <1>4, Zenon DEF Injection
<1>6. IsFiniteSet(1..n) /\ Cardinality(1..n) = n
  BY <1>1, FS_Interval
<1>7. f \in Surjection(1..n, S)
  BY <1>1, <1>5, <1>6, FS_Injection
<1>8. \A s \in S : \E i \in 1..n : f[i] = s
  BY <1>7, Zenon DEF Surjection
<1>9. f \in Seq(S) /\ Len(f) = n
  BY <1>1, <1>4, SeqDef, LenProperties
<1> QED
  BY <1>3, <1>8, <1>9

LEMMA InitIInv == Init => IInv
<1> SUFFICES ASSUME Init PROVE IInv
  OBVIOUS
<1>1. BlockSize \in 0..BlockSize /\ 0 \in 0..BlockSize
  BY CapacityAssumption
<1>2. TypeInv
  BY <1>1, SetToSeqListsAll, SessionsAssumption
     DEF Init, TypeInv, ClientSessions, ServerSessions
<1>3. \A s \in Sessions : SessionInv(s)
  BY <1>1 DEF Init, SessionInv, ConnectionInv
<1>4. ClientInv
  BY SetToSeqListsAll, SessionsAssumption DEF Init, ClientInv
<1> QED
  BY <1>2, <1>3, <1>4 DEF IInv

-------------------------------------------------------------------------------
(* A step of one connection: its sides and its bytes become c, e, u and d.  *)
Becomes(s, c, e, u, d) ==
  /\ cs' = [cs EXCEPT ![s] = c] /\ ss' = [ss EXCEPT ![s] = e]
  /\ up' = [up EXCEPT ![s] = u] /\ down' = [down EXCEPT ![s] = d]
  /\ UNCHANGED clientVars

LEMMA ConnectionOf ==
  ASSUME IInv, NEW s \in Sessions
  PROVE  \E c, e, u, d :
           /\ c = cs[s] /\ e = ss[s] /\ u = up[s] /\ d = down[s]
           /\ c \in ClientSessions /\ e \in ServerSessions
           /\ u \in Nat /\ d \in Nat
           /\ ConnectionInv(c, e, u, d)
           /\ cs = [cs EXCEPT ![s] = c] /\ ss = [ss EXCEPT ![s] = e]
           /\ up = [up EXCEPT ![s] = u] /\ down = [down EXCEPT ![s] = d]
BY DEF IInv, TypeInv, SessionInv

LEMMA BecomesIInv ==
  ASSUME IInv, NEW s \in Sessions,
         NEW c \in ClientSessions, NEW e \in ServerSessions, NEW u \in Nat, NEW d \in Nat,
         Becomes(s, c, e, u, d), ConnectionInv(c, e, u, d),
         cs[s].pc = "done" => c.pc = "done"
  PROVE  IInv'
<1>1. TypeInv'
  BY DEF IInv, TypeInv, Becomes, clientVars
<1>2. ASSUME NEW t \in Sessions PROVE SessionInv(t)'
  <2>1. CASE t = s
    BY <2>1 DEF IInv, TypeInv, Becomes, SessionInv
  <2>2. CASE t # s
    <3>1. cs'[t] = cs[t] /\ ss'[t] = ss[t] /\ up'[t] = up[t] /\ down'[t] = down[t]
      BY <2>2 DEF IInv, TypeInv, Becomes
    <3> QED
      BY <3>1 DEF IInv, SessionInv
  <2> QED
    BY <2>1, <2>2
<1>3. ClientInv'
  <2>1. \A t \in Sessions : Completed(t) => Completed(t)'
    BY DEF IInv, TypeInv, Becomes, Completed
  <2> QED
    BY <2>1 DEF IInv, ClientInv, Becomes, clientVars
<1> QED
  BY <1>1, <1>2, <1>3 DEF IInv

(* What a connection has left to do once the flag is raised: the steps of   *)
(* its coroutines up to their ends, and four for each byte on its way from  *)
(* the client's hands, through the connection and the server's, and back.   *)
ClientLeft(c) ==
  CASE c.pc = "connecting" -> 3
    [] c.pc = "writing" -> 2
    [] c.pc = "reading" -> 1
    [] c.pc = "done" -> 0

ServerLeft(e) ==
  CASE e.pc = "none" -> 2
    [] e.pc \in {"reading", "writing"} -> 1
    [] e.pc = "closed" -> 0

Left(c, e, u, d) ==
  ClientLeft(c) + ServerLeft(e)
  + 4 * (IF c.pc = "writing" THEN c.length - c.sent ELSE 0)
  + 3 * u + 2 * (e.length - e.sent) + d

(* What every step of a connection does. *)
Moves(s) ==
  \E c \in ClientSessions, e \in ServerSessions, u \in Nat, d \in Nat :
    /\ Becomes(s, c, e, u, d)
    /\ ConnectionInv(c, e, u, d)
    /\ cs[s].pc = "done" => c.pc = "done"
    /\ stop => Left(c, e, u, d) < Left(cs[s], ss[s], up[s], down[s])

LEMMA MovesIntro ==
  ASSUME NEW s \in Sessions,
         NEW c \in ClientSessions, NEW e \in ServerSessions, NEW u \in Nat, NEW d \in Nat,
         Becomes(s, c, e, u, d), ConnectionInv(c, e, u, d),
         cs[s].pc = "done" => c.pc = "done",
         stop => Left(c, e, u, d) < Left(cs[s], ss[s], up[s], down[s])
  PROVE  Moves(s)
BY Zenon DEF Moves

LEMMA MovesIInv == ASSUME IInv, NEW s \in Sessions, Moves(s) PROVE IInv'
BY BecomesIInv DEF Moves

-------------------------------------------------------------------------------
(* The client's side of a connection. *)
LEMMA LoopTypes ==
  ASSUME NEW n \in 0..BlockSize
  PROVE  /\ Loop(n) \in ClientSessions
         /\ Loop(n).pc \in {"done", "writing"} /\ Loop(n).length = n /\ Loop(n).sent = 0
         /\ stop => Loop(n).pc = "done"
<1>1. 0 \in 0..BlockSize
  BY CapacityAssumption
<1> QED
  BY <1>1 DEF Loop, ClientSessions

LEMMA LeftTypes ==
  ASSUME NEW c \in ClientSessions, NEW e \in ServerSessions
  PROVE  /\ ClientLeft(c) \in Nat /\ ServerLeft(e) \in Nat
         /\ c.sent \in Nat /\ c.length \in Nat /\ e.sent \in Nat /\ e.length \in Nat
<1>1. c.sent \in Nat /\ c.length \in Nat /\ e.sent \in Nat /\ e.length \in Nat
  BY CapacityAssumption DEF ClientSessions, ServerSessions
<1>2. ClientLeft(c) \in Nat
  BY DEF ClientSessions, ClientLeft
<1>3. ServerLeft(e) \in Nat
  BY DEF ServerSessions, ServerLeft
<1> QED
  BY <1>1, <1>2, <1>3

LEMMA ConnectedMoves == ASSUME IInv, NEW s \in Sessions, Connected(s) PROVE Moves(s)
<1>a. PICK c, e, u, d : /\ c = cs[s] /\ e = ss[s] /\ u = up[s] /\ d = down[s]
                        /\ c \in ClientSessions /\ e \in ServerSessions
                        /\ u \in Nat /\ d \in Nat
                        /\ ConnectionInv(c, e, u, d)
                        /\ cs = [cs EXCEPT ![s] = c] /\ ss = [ss EXCEPT ![s] = e]
                        /\ up = [up EXCEPT ![s] = u] /\ down = [down EXCEPT ![s] = d]
  BY ConnectionOf
<1>b. BlockSize \in Nat /\ BlockSize > 0 /\ 0 \in 0..BlockSize
  BY CapacityAssumption
<1>c. /\ u \in Int /\ d \in Int /\ ClientLeft(c) \in Int /\ ServerLeft(e) \in Int
      /\ c.sent \in Int /\ c.length \in Int /\ e.sent \in Int /\ e.length \in Int
  BY <1>a, LeftTypes
<1>1. c.pc = "connecting"
  BY <1>a DEF Connected
<1>2. PICK l : /\ l = Loop(BlockSize) /\ l \in ClientSessions
               /\ l.pc \in {"done", "writing"} /\ l.length = BlockSize /\ l.sent = 0
               /\ stop => l.pc = "done"
  BY <1>b, LoopTypes
<1>3. Becomes(s, l, e, u, d)
  BY <1>a, <1>2 DEF Connected, Becomes, clientVars
<1>4. ConnectionInv(l, e, u, d)
  BY <1>a, <1>1, <1>2, <1>b DEF ConnectionInv
<1>5. stop => Left(l, e, u, d) < Left(c, e, u, d)
  BY <1>1, <1>2, <1>c DEF Left, ClientLeft
<1> QED
  BY <1>a, <1>1, <1>2, <1>3, <1>4, <1>5, MovesIntro

LEMMA ClientWritesMoves == ASSUME IInv, NEW s \in Sessions, ClientWrites(s) PROVE Moves(s)
<1>a. PICK c, e, u, d : /\ c = cs[s] /\ e = ss[s] /\ u = up[s] /\ d = down[s]
                        /\ c \in ClientSessions /\ e \in ServerSessions
                        /\ u \in Nat /\ d \in Nat
                        /\ ConnectionInv(c, e, u, d)
                        /\ cs = [cs EXCEPT ![s] = c] /\ ss = [ss EXCEPT ![s] = e]
                        /\ up = [up EXCEPT ![s] = u] /\ down = [down EXCEPT ![s] = d]
  BY ConnectionOf
<1>b. BlockSize \in Nat /\ BlockSize > 0 /\ 0 \in 0..BlockSize
  BY CapacityAssumption
<1>c. /\ u \in Int /\ d \in Int /\ ClientLeft(c) \in Int /\ ServerLeft(e) \in Int
      /\ c.sent \in Int /\ c.length \in Int /\ e.sent \in Int /\ e.length \in Int
  BY <1>a, LeftTypes
<1>1. c.pc = "writing" /\ c.sent < c.length
  BY <1>a DEF ClientWrites
<1>2. PICK l : l = [c EXCEPT !.sent = c.sent + 1]
  OBVIOUS
<1>3. /\ c.sent \in Nat /\ c.length \in 0..BlockSize /\ c.sent + 1 \in 0..BlockSize
      /\ e.sent \in Nat /\ e.length \in Nat
  BY <1>a, <1>1, <1>b DEF ClientSessions, ServerSessions
<1>4. l \in ClientSessions
  BY <1>a, <1>2, <1>3, Zenon DEF ClientSessions
<1>5. l.pc = "writing" /\ l.length = c.length /\ l.sent = c.sent + 1
  BY <1>a, <1>1, <1>2 DEF ClientSessions
<1>6. Becomes(s, l, e, u + 1, d)
  BY <1>a, <1>2 DEF ClientWrites, Becomes, IInv, TypeInv, clientVars
<1>7. ConnectionInv(l, e, u + 1, d)
  BY <1>a, <1>1, <1>3, <1>5, <1>b DEF ConnectionInv
<1>8. stop => Left(l, e, u + 1, d) < Left(c, e, u, d)
  BY <1>1, <1>3, <1>5, <1>c DEF Left, ClientLeft
<1>9. u + 1 \in Nat
  BY <1>a
<1> QED
  BY <1>a, <1>1, <1>4, <1>6, <1>7, <1>8, <1>9, MovesIntro

LEMMA ClientHasWrittenMoves ==
  ASSUME IInv, NEW s \in Sessions, ClientHasWritten(s) PROVE Moves(s)
<1>a. PICK c, e, u, d : /\ c = cs[s] /\ e = ss[s] /\ u = up[s] /\ d = down[s]
                        /\ c \in ClientSessions /\ e \in ServerSessions
                        /\ u \in Nat /\ d \in Nat
                        /\ ConnectionInv(c, e, u, d)
                        /\ cs = [cs EXCEPT ![s] = c] /\ ss = [ss EXCEPT ![s] = e]
                        /\ up = [up EXCEPT ![s] = u] /\ down = [down EXCEPT ![s] = d]
  BY ConnectionOf
<1>b. BlockSize \in Nat /\ BlockSize > 0 /\ 0 \in 0..BlockSize
  BY CapacityAssumption
<1>c. /\ u \in Int /\ d \in Int /\ ClientLeft(c) \in Int /\ ServerLeft(e) \in Int
      /\ c.sent \in Int /\ c.length \in Int /\ e.sent \in Int /\ e.length \in Int
  BY <1>a, LeftTypes
<1>1. c.pc = "writing" /\ c.sent = c.length
  BY <1>a DEF ClientHasWritten
<1>2. PICK l : l = [c EXCEPT !.pc = "reading"]
  OBVIOUS
<1>3. l \in ClientSessions
  BY <1>a, <1>2 DEF ClientSessions
<1>4. l.pc = "reading" /\ l.length = c.length /\ l.sent = c.sent
  BY <1>a, <1>2 DEF ClientSessions
<1>5. Becomes(s, l, e, u, d)
  BY <1>a, <1>2 DEF ClientHasWritten, Becomes, IInv, TypeInv, clientVars
<1>6. ConnectionInv(l, e, u, d)
  <2>1. c.sent \in Nat /\ c.length \in Nat /\ e.sent \in Nat /\ e.length \in Nat
    BY <1>a, <1>b DEF ClientSessions, ServerSessions
  <2> QED
    BY <1>a, <1>1, <1>4, <2>1, <1>b DEF ConnectionInv
<1>7. stop => Left(l, e, u, d) < Left(c, e, u, d)
  BY <1>1, <1>4, <1>c DEF Left, ClientLeft
<1> QED
  BY <1>a, <1>1, <1>3, <1>5, <1>6, <1>7, MovesIntro

LEMMA ClientReadsMoves == ASSUME IInv, NEW s \in Sessions, ClientReads(s) PROVE Moves(s)
<1>a. PICK c, e, u, d : /\ c = cs[s] /\ e = ss[s] /\ u = up[s] /\ d = down[s]
                        /\ c \in ClientSessions /\ e \in ServerSessions
                        /\ u \in Nat /\ d \in Nat
                        /\ ConnectionInv(c, e, u, d)
                        /\ cs = [cs EXCEPT ![s] = c] /\ ss = [ss EXCEPT ![s] = e]
                        /\ up = [up EXCEPT ![s] = u] /\ down = [down EXCEPT ![s] = d]
  BY ConnectionOf
<1>b. BlockSize \in Nat /\ BlockSize > 0 /\ 0 \in 0..BlockSize
  BY CapacityAssumption
<1>c. /\ u \in Int /\ d \in Int /\ ClientLeft(c) \in Int /\ ServerLeft(e) \in Int
      /\ c.sent \in Int /\ c.length \in Int /\ e.sent \in Int /\ e.length \in Int
  BY <1>a, LeftTypes
<1>1. PICK n \in 0..BlockSize :
        /\ IF d = 0 THEN n = 0 /\ e.pc = "closed" ELSE n \in 1..d
        /\ down' = [down EXCEPT ![s] = d - n]
        /\ cs' = [cs EXCEPT ![s] = Loop(n)]
  BY <1>a DEF ClientReads, Swapped, IInv, TypeInv
<1>2. c.pc = "reading" /\ d - n \in Nat
  BY <1>a, <1>1 DEF ClientReads
<1>3. PICK l : /\ l = Loop(n) /\ l \in ClientSessions
               /\ l.pc \in {"done", "writing"} /\ l.length = n /\ l.sent = 0
               /\ stop => l.pc = "done"
  BY LoopTypes
<1>4. Becomes(s, l, e, u, d - n)
  BY <1>a, <1>1, <1>3 DEF ClientReads, Becomes
<1>5. ConnectionInv(l, e, u, d - n)
  <2>1. n \in Nat /\ e.sent \in Nat /\ e.length \in Nat
    BY <1>a, <1>b DEF ServerSessions
  <2> QED
    BY <1>a, <1>1, <1>2, <1>3, <2>1, <1>b DEF ConnectionInv
<1>6. stop => Left(l, e, u, d - n) < Left(c, e, u, d)
  BY <1>1, <1>2, <1>3, <1>b, <1>c DEF Left, ClientLeft
<1> QED
  BY <1>a, <1>2, <1>3, <1>4, <1>5, <1>6, MovesIntro

LEMMA ClientFailsMoves == ASSUME IInv, NEW s \in Sessions, ClientFails(s) PROVE Moves(s)
<1>a. PICK c, e, u, d : /\ c = cs[s] /\ e = ss[s] /\ u = up[s] /\ d = down[s]
                        /\ c \in ClientSessions /\ e \in ServerSessions
                        /\ u \in Nat /\ d \in Nat
                        /\ ConnectionInv(c, e, u, d)
                        /\ cs = [cs EXCEPT ![s] = c] /\ ss = [ss EXCEPT ![s] = e]
                        /\ up = [up EXCEPT ![s] = u] /\ down = [down EXCEPT ![s] = d]
  BY ConnectionOf
<1>b. BlockSize \in Nat /\ BlockSize > 0 /\ 0 \in 0..BlockSize
  BY CapacityAssumption
<1>c. /\ u \in Int /\ d \in Int /\ ClientLeft(c) \in Int /\ ServerLeft(e) \in Int
      /\ c.sent \in Int /\ c.length \in Int /\ e.sent \in Int /\ e.length \in Int
  BY <1>a, LeftTypes
<1>1. PICK l : l = [c EXCEPT !.pc = "done"]
  OBVIOUS
<1>2. l \in ClientSessions /\ l.pc = "done" /\ l.length = c.length /\ l.sent = c.sent
  BY <1>a, <1>1 DEF ClientSessions
<1>3. PICK k : k = [e EXCEPT !.pc = "closed"]
  OBVIOUS
<1>4. k \in ServerSessions /\ k.pc = "closed" /\ k.length = e.length /\ k.sent = e.sent
  BY <1>a, <1>3 DEF ServerSessions
<1>5. CASE c.pc = "connecting" /\ ss' = [ss EXCEPT ![s].pc = "closed"]
  <2>1. Becomes(s, l, k, u, d)
    BY <1>a, <1>1, <1>3, <1>5 DEF ClientFails, Becomes, IInv, TypeInv, clientVars
  <2>2. ConnectionInv(l, k, u, d)
    BY <1>a, <1>2, <1>4, <1>5 DEF ConnectionInv
  <2>3. stop => Left(l, k, u, d) < Left(c, e, u, d)
    <3>1. e.pc = "none"
      BY <1>a, <1>5 DEF ConnectionInv
    <3> QED
      BY <1>2, <1>4, <1>5, <1>c, <3>1 DEF Left, ClientLeft, ServerLeft
  <2> QED
    BY <1>a, <1>2, <1>4, <2>1, <2>2, <2>3, MovesIntro
<1>6. CASE c.pc \in {"writing", "reading"} /\ e.pc = "closed" /\ ss' = ss
  <2>1. Becomes(s, l, e, u, d)
    BY <1>a, <1>1, <1>6 DEF ClientFails, Becomes, IInv, TypeInv, clientVars
  <2>2. ConnectionInv(l, e, u, d)
    BY <1>a, <1>2, <1>6 DEF ConnectionInv
  <2>3. stop => Left(l, e, u, d) < Left(c, e, u, d)
    <3>1. c.length - c.sent >= 0
      BY <1>a, <1>c DEF ConnectionInv
    <3> QED
      BY <1>2, <1>6, <1>c, <3>1 DEF Left, ClientLeft
  <2> QED
    BY <1>a, <1>2, <2>1, <2>2, <2>3, MovesIntro
<1> QED
  BY <1>a, <1>5, <1>6 DEF ClientFails

-------------------------------------------------------------------------------
(* The server's side. *)
LEMMA AcceptedMoves == ASSUME IInv, NEW s \in Sessions, Accepted(s) PROVE Moves(s)
<1>a. PICK c, e, u, d : /\ c = cs[s] /\ e = ss[s] /\ u = up[s] /\ d = down[s]
                        /\ c \in ClientSessions /\ e \in ServerSessions
                        /\ u \in Nat /\ d \in Nat
                        /\ ConnectionInv(c, e, u, d)
                        /\ cs = [cs EXCEPT ![s] = c] /\ ss = [ss EXCEPT ![s] = e]
                        /\ up = [up EXCEPT ![s] = u] /\ down = [down EXCEPT ![s] = d]
  BY ConnectionOf
<1>b. BlockSize \in Nat /\ BlockSize > 0 /\ 0 \in 0..BlockSize
  BY CapacityAssumption
<1>c. /\ u \in Int /\ d \in Int /\ ClientLeft(c) \in Int /\ ServerLeft(e) \in Int
      /\ c.sent \in Int /\ c.length \in Int /\ e.sent \in Int /\ e.length \in Int
  BY <1>a, LeftTypes
<1>1. e.pc = "none" /\ c.pc # "connecting"
  BY <1>a DEF Accepted
<1>2. PICK pc \in {"reading", "closed"} : ss' = [ss EXCEPT ![s].pc = pc]
  BY DEF Accepted
<1>3. PICK k : k = [e EXCEPT !.pc = pc]
  OBVIOUS
<1>4. k \in ServerSessions /\ k.pc = pc /\ k.length = e.length /\ k.sent = e.sent
  BY <1>a, <1>3 DEF ServerSessions
<1>5. Becomes(s, c, k, u, d)
  BY <1>a, <1>2, <1>3 DEF Accepted, Becomes, IInv, TypeInv, clientVars
<1>6. ConnectionInv(c, k, u, d)
  BY <1>a, <1>1, <1>4 DEF ConnectionInv
<1>7. stop => Left(c, k, u, d) < Left(c, e, u, d)
  BY <1>1, <1>4, <1>c DEF Left, ServerLeft
<1> QED
  BY <1>a, <1>4, <1>5, <1>6, <1>7, MovesIntro

LEMMA ServerReadsMoves == ASSUME IInv, NEW s \in Sessions, ServerReads(s) PROVE Moves(s)
<1>a. PICK c, e, u, d : /\ c = cs[s] /\ e = ss[s] /\ u = up[s] /\ d = down[s]
                        /\ c \in ClientSessions /\ e \in ServerSessions
                        /\ u \in Nat /\ d \in Nat
                        /\ ConnectionInv(c, e, u, d)
                        /\ cs = [cs EXCEPT ![s] = c] /\ ss = [ss EXCEPT ![s] = e]
                        /\ up = [up EXCEPT ![s] = u] /\ down = [down EXCEPT ![s] = d]
  BY ConnectionOf
<1>b. BlockSize \in Nat /\ BlockSize > 0 /\ 0 \in 0..BlockSize
  BY CapacityAssumption
<1>c. /\ u \in Int /\ d \in Int /\ ClientLeft(c) \in Int /\ ServerLeft(e) \in Int
      /\ c.sent \in Int /\ c.length \in Int /\ e.sent \in Int /\ e.length \in Int
  BY <1>a, LeftTypes
<1>1. PICK n \in 1..BlockSize :
        /\ n <= u
        /\ up' = [up EXCEPT ![s] = u - n]
        /\ ss' = [ss EXCEPT ![s] = [pc |-> "writing", length |-> n, sent |-> 0]]
  BY <1>a DEF ServerReads, IInv, TypeInv
<1>2. PICK k : k = [pc |-> "writing", length |-> n, sent |-> 0]
  OBVIOUS
<1>3. /\ n \in 0..BlockSize /\ n > 0 /\ u - n \in Nat
      /\ k \in ServerSessions /\ k.pc = "writing" /\ k.length = n /\ k.sent = 0
  BY <1>a, <1>1, <1>2, <1>b DEF ServerSessions
<1>4. e.pc = "reading"
  BY <1>a DEF ServerReads
<1>5. Becomes(s, c, k, u - n, d)
  BY <1>a, <1>1, <1>2 DEF ServerReads, Becomes
<1>6. ConnectionInv(c, k, u - n, d)
  <2>1. c.sent \in Nat /\ c.length \in Nat
    BY <1>a, <1>b DEF ClientSessions
  <2> QED
    BY <1>a, <1>1, <1>3, <1>4, <2>1, <1>b DEF ConnectionInv
<1>7. stop => Left(c, k, u - n, d) < Left(c, e, u, d)
  <2>1. e.length - e.sent = 0
    BY <1>a, <1>4 DEF ConnectionInv
  <2> QED
    BY <1>a, <1>1, <1>3, <1>4, <1>b, <1>c, <2>1 DEF Left, ServerLeft
<1> QED
  BY <1>a, <1>3, <1>5, <1>6, <1>7, MovesIntro

LEMMA ServerWritesMoves == ASSUME IInv, NEW s \in Sessions, ServerWrites(s) PROVE Moves(s)
<1>a. PICK c, e, u, d : /\ c = cs[s] /\ e = ss[s] /\ u = up[s] /\ d = down[s]
                        /\ c \in ClientSessions /\ e \in ServerSessions
                        /\ u \in Nat /\ d \in Nat
                        /\ ConnectionInv(c, e, u, d)
                        /\ cs = [cs EXCEPT ![s] = c] /\ ss = [ss EXCEPT ![s] = e]
                        /\ up = [up EXCEPT ![s] = u] /\ down = [down EXCEPT ![s] = d]
  BY ConnectionOf
<1>b. BlockSize \in Nat /\ BlockSize > 0 /\ 0 \in 0..BlockSize
  BY CapacityAssumption
<1>c. /\ u \in Int /\ d \in Int /\ ClientLeft(c) \in Int /\ ServerLeft(e) \in Int
      /\ c.sent \in Int /\ c.length \in Int /\ e.sent \in Int /\ e.length \in Int
  BY <1>a, LeftTypes
<1>1. e.pc = "writing" /\ e.sent < e.length
  BY <1>a DEF ServerWrites, ConnectionInv
<1>2. /\ e.sent \in Nat /\ e.length \in 0..BlockSize /\ e.sent + 1 \in 0..BlockSize
      /\ c.sent \in Nat /\ c.length \in Nat
  BY <1>a, <1>1, <1>b DEF ServerSessions, ClientSessions
<1>4. \A k : ss' = [ss EXCEPT ![s] = k] => Becomes(s, c, k, u, d + 1)
  BY <1>a DEF ServerWrites, Becomes, IInv, TypeInv
<1>5. CASE e.sent + 1 = e.length
  <2>1. PICK k : k = [pc |-> "reading", length |-> 0, sent |-> 0]
    OBVIOUS
  <2>2. k \in ServerSessions /\ k.pc = "reading" /\ k.length = 0 /\ k.sent = 0
    BY <2>1, <1>b DEF ServerSessions
  <2>3. Becomes(s, c, k, u, d + 1)
    BY <1>a, <1>4, <1>5, <2>1 DEF ServerWrites
  <2>4. ConnectionInv(c, k, u, d + 1)
    BY <1>a, <1>1, <1>2, <1>5, <2>2, <1>b DEF ConnectionInv
  <2>5. stop => Left(c, k, u, d + 1) < Left(c, e, u, d)
    BY <1>1, <1>2, <1>5, <1>c, <2>2 DEF Left, ServerLeft
  <2> QED
    BY <1>a, <2>2, <2>3, <2>4, <2>5, MovesIntro
<1>6. CASE e.sent + 1 # e.length
  <2>1. PICK k : k = [e EXCEPT !.sent = e.sent + 1]
    OBVIOUS
  <2>2. Becomes(s, c, k, u, d + 1)
    <3>1. ss' = [ss EXCEPT ![s] = [ss[s] EXCEPT !.sent = ss[s].sent + 1]]
      BY <1>a, <1>6 DEF ServerWrites, IInv, TypeInv
    <3> QED
      BY <1>a, <1>4, <2>1, <3>1
  <2>3. k \in ServerSessions
    BY <1>a, <1>2, <2>1, Zenon DEF ServerSessions
  <2>4. k.pc = "writing" /\ k.length = e.length /\ k.sent = e.sent + 1
    BY <1>a, <1>1, <2>1 DEF ServerSessions
  <2>5. ConnectionInv(c, k, u, d + 1)
    BY <1>a, <1>1, <1>2, <1>6, <2>4, <1>b DEF ConnectionInv
  <2>6. stop => Left(c, k, u, d + 1) < Left(c, e, u, d)
    BY <1>1, <1>2, <1>c, <2>4 DEF Left, ServerLeft
  <2> QED
    BY <1>a, <2>2, <2>3, <2>5, <2>6, MovesIntro
<1> QED
  BY <1>5, <1>6

LEMMA ServerEndsMoves == ASSUME IInv, NEW s \in Sessions, ServerEnds(s) PROVE Moves(s)
<1>a. PICK c, e, u, d : /\ c = cs[s] /\ e = ss[s] /\ u = up[s] /\ d = down[s]
                        /\ c \in ClientSessions /\ e \in ServerSessions
                        /\ u \in Nat /\ d \in Nat
                        /\ ConnectionInv(c, e, u, d)
                        /\ cs = [cs EXCEPT ![s] = c] /\ ss = [ss EXCEPT ![s] = e]
                        /\ up = [up EXCEPT ![s] = u] /\ down = [down EXCEPT ![s] = d]
  BY ConnectionOf
<1>b. BlockSize \in Nat /\ BlockSize > 0 /\ 0 \in 0..BlockSize
  BY CapacityAssumption
<1>c. /\ u \in Int /\ d \in Int /\ ClientLeft(c) \in Int /\ ServerLeft(e) \in Int
      /\ c.sent \in Int /\ c.length \in Int /\ e.sent \in Int /\ e.length \in Int
  BY <1>a, LeftTypes
<1>1. PICK k : k = [pc |-> "closed", length |-> 0, sent |-> 0]
  OBVIOUS
<1>2. k \in ServerSessions /\ k.pc = "closed" /\ k.length = 0 /\ k.sent = 0
  BY <1>1, <1>b DEF ServerSessions
<1>3. Becomes(s, c, k, u, d)
  BY <1>a, <1>1 DEF ServerEnds, Becomes
<1>4. ConnectionInv(c, k, u, d)
  <2>1. e.pc # "none"
    BY <1>a DEF ServerEnds
  <2> QED
    BY <1>a, <1>2, <2>1 DEF ConnectionInv
<1>5. stop => Left(c, k, u, d) < Left(c, e, u, d)
  <2>1. e.pc \in {"reading", "writing"} /\ e.length - e.sent >= 0
    BY <1>a, <1>c DEF ServerEnds, ConnectionInv
  <2> QED
    BY <1>2, <1>c, <2>1 DEF Left, ServerLeft
<1> QED
  BY <1>a, <1>2, <1>3, <1>4, <1>5, MovesIntro

-------------------------------------------------------------------------------
(* The client coroutine leaves in its list what has not completed.          *)
LEMMA AwaitSessionsKeepsPending ==
  ASSUME IInv, AwaitSessions
  PROVE  /\ sessions' \in Seq(Sessions) /\ client' \in {"waiting", "returned"}
         /\ client' = "returned" => Len(sessions') = 0
         /\ client' = "waiting" => Len(sessions') > 0
         /\ \A s \in Sessions :
              Completed(s) \/ \E i \in 1..Len(sessions') : sessions'[i] = s
<1>1. PICK k \in 0..Len(sessions) :
        /\ \A i \in 1..k : Completed(sessions[i])
        /\ sessions' = SubSeq(sessions, k + 1, Len(sessions))
        /\ client' = IF k = Len(sessions) THEN "returned" ELSE "waiting"
  BY DEF AwaitSessions
<1>2. sessions \in Seq(Sessions) /\ Len(sessions) \in Nat /\ k \in Nat
  BY DEF IInv, TypeInv
<1>3. /\ sessions' \in Seq(Sessions)
      /\ Len(sessions') = Len(sessions) - k
      /\ \A i \in 1..(Len(sessions) - k) : sessions'[i] = sessions[k + i]
  <2>1. \A i \in (k + 1)..Len(sessions) : sessions[i] \in Sessions
    BY <1>2
  <2>2. /\ SubSeq(sessions, k + 1, Len(sessions)) \in Seq(Sessions)
        /\ Len(SubSeq(sessions, k + 1, Len(sessions))) =
             IF k + 1 <= Len(sessions) THEN Len(sessions) - (k + 1) + 1 ELSE 0
        /\ \A i \in 1..(Len(sessions) - (k + 1) + 1) :
             SubSeq(sessions, k + 1, Len(sessions))[i] = sessions[k + 1 + i - 1]
    BY <1>2, <2>1, SubSeqProperties
  <2> QED
    BY <1>1, <1>2, <2>2
<1>4. ASSUME NEW s \in Sessions, ~Completed(s)
      PROVE  \E i \in 1..Len(sessions') : sessions'[i] = s
  <2>1. PICK j \in 1..Len(sessions) : sessions[j] = s
    BY <1>4 DEF IInv, ClientInv
  <2>2. j > k
    BY <1>1, <1>2, <1>4, <2>1
  <2>3. j - k \in 1..Len(sessions') /\ sessions'[j - k] = s
    BY <1>2, <1>3, <2>1, <2>2
  <2> QED
    BY <2>3
<1>5. /\ client' \in {"waiting", "returned"}
      /\ client' = "returned" => Len(sessions') = 0
      /\ client' = "waiting" => Len(sessions') > 0
  BY <1>1, <1>2, <1>3
<1>6. \A s \in Sessions :
        Completed(s) \/ \E i \in 1..Len(sessions') : sessions'[i] = s
  BY <1>4
<1> QED
  BY <1>3, <1>5, <1>6, Zenon

LEMMA ClientStepIInv ==
  ASSUME IInv, Timeout \/ SessionCompletes \/ Exit \/ UNCHANGED vars
  PROVE  IInv'
<1>1. cs' = cs /\ ss' = ss /\ up' = up /\ down' = down
  BY DEF Timeout, SessionCompletes, Exit, vars
<1>2. \A s \in Sessions : SessionInv(s)' /\ (Completed(s)' <=> Completed(s))
  BY <1>1 DEF IInv, SessionInv, Completed
<1>3. CASE Timeout \/ SessionCompletes
  <2>1. AwaitSessions /\ main' = main /\ client # "returned" /\ stop' \in BOOLEAN
    BY <1>3 DEF IInv, TypeInv, Timeout, SessionCompletes
  <2>2. TypeInv'
    BY <1>1, <2>1, AwaitSessionsKeepsPending DEF IInv, TypeInv
  <2>3. ClientInv'
    BY <1>2, <2>1, AwaitSessionsKeepsPending DEF IInv, ClientInv
  <2> QED
    BY <1>2, <2>2, <2>3 DEF IInv
<1>4. CASE Exit
  BY <1>1, <1>2, <1>4 DEF IInv, TypeInv, ClientInv, Exit
<1>5. CASE UNCHANGED vars
  BY <1>1, <1>2, <1>5 DEF IInv, TypeInv, ClientInv, vars, clientVars
<1> QED
  BY <1>3, <1>4, <1>5

LEMMA NextMoves ==
  ASSUME IInv, [Next]_vars
  PROVE  \/ \E s \in Sessions : Moves(s)
         \/ Timeout \/ SessionCompletes \/ Exit \/ UNCHANGED vars
BY ConnectedMoves, ClientWritesMoves, ClientHasWrittenMoves, ClientReadsMoves, ClientFailsMoves,
   AcceptedMoves, ServerReadsMoves, ServerWritesMoves, ServerEndsMoves
   DEF Next, Over

LEMMA NextIInv == IInv /\ [Next]_vars => IInv'
BY NextMoves, MovesIInv, ClientStepIInv

-------------------------------------------------------------------------------
(* The invariant of the client and its server.                              *)
THEOREM EchoInvariant == Spec => []IInv
<1>1. Init => IInv
  BY InitIInv
<1>2. IInv /\ [Next]_vars => IInv'
  BY NextIInv
<1> QED
  BY <1>1, <1>2, PTL DEF Spec

(* However it is split on the way, the client's first block is all there:   *)
(* in the hands of the two sides and in the connection.                     *)
THEOREM BlockIsConserved == Spec => []BlockGoesRound
<1>1. IInv => BlockGoesRound
  <2> SUFFICES ASSUME IInv, NEW s \in Sessions,
                      cs[s].pc \in {"writing", "reading"}, ss[s].pc # "closed"
               PROVE  (IF cs[s].pc = "writing" THEN cs[s].length - cs[s].sent ELSE 0)
                      + up[s] + (ss[s].length - ss[s].sent) + down[s] = BlockSize
    BY DEF BlockGoesRound
  <2> QED
    BY DEF IInv, SessionInv, ConnectionInv
<1> QED
  BY <1>1, EchoInvariant, PTL

(* No session of the client outlives the frame that it refers to, nor the   *)
(* pool that resumes it.                                                    *)
THEOREM FramesOutliveSessions == Spec => []FrameOutlivesSessions
<1>1. IInv => FrameOutlivesSessions
  BY DEF IInv, ClientInv, FrameOutlivesSessions
<1> QED
  BY <1>1, EchoInvariant, PTL

-------------------------------------------------------------------------------
(* Why the timeout ends the program, short of fairness: until a session has *)
(* completed some step of its connection is possible (each of them is one   *)
(* that Fairness speaks of), and once the flag is raised each brings its    *)
(* end closer.                                                              *)
CanMove(s) ==
  \/ cs[s].pc = "connecting"
  \/ cs[s].pc # "connecting" /\ ss[s].pc = "none"
  \/ cs[s].pc = "writing" /\ (cs[s].sent = cs[s].length \/ up[s] < Capacity)
  \/ cs[s].pc = "reading" /\ (ss[s].pc = "closed" \/ down[s] > 0)
  \/ cs[s].pc = "writing" /\ cs[s].sent < cs[s].length /\ ss[s].pc = "closed"
  \/ ss[s].pc = "reading" /\ up[s] > 0
  \/ ss[s].pc = "writing" /\ down[s] < Capacity

(* The two sides never wait for each other with a full connection, or an    *)
(* empty one, between them: what the capacity is assumed for.  And the      *)
(* client, when it waits for a session, waits for one that can move or has  *)
(* completed.                                                               *)
SessionsCanMove == \A s \in Sessions : Completed(s) \/ CanMove(s)

AwaitedCanMove ==
  client = "waiting" =>
    Head(sessions) \in Sessions /\ (Completed(Head(sessions)) \/ CanMove(Head(sessions)))

THEOREM ClientIsNeverStuck == Spec => [](SessionsCanMove /\ AwaitedCanMove)
<1>1. IInv => SessionsCanMove
  <2> SUFFICES ASSUME IInv, NEW s \in Sessions, ~Completed(s), ~CanMove(s) PROVE FALSE
    BY DEF SessionsCanMove
  <2>1. PICK c, e, u, d : /\ c = cs[s] /\ e = ss[s] /\ u = up[s] /\ d = down[s]
                          /\ c \in ClientSessions /\ e \in ServerSessions
                          /\ u \in Nat /\ d \in Nat
                          /\ ConnectionInv(c, e, u, d)
    BY ConnectionOf
  <2>2. /\ c.sent \in Nat /\ c.length \in Nat /\ e.sent \in Nat /\ e.length \in Nat
        /\ c.pc \in {"connecting", "writing", "reading", "done"}
        /\ e.pc \in {"none", "reading", "writing", "closed"}
    BY <2>1, LeftTypes DEF ClientSessions, ServerSessions
  <2>3. c.pc \in {"writing", "reading"} /\ e.pc \in {"reading", "writing"}
    BY <2>1, <2>2 DEF CanMove, Completed, ConnectionInv
  <2>4. /\ c.pc = "writing" => c.sent < c.length /\ u >= Capacity
        /\ c.pc = "reading" => d = 0
        /\ e.pc = "reading" => u = 0
        /\ e.pc = "writing" => e.sent < e.length /\ d >= Capacity
    BY <2>1, <2>2, <2>3, CapacityAssumption DEF CanMove, ConnectionInv
  <2>5. (IF c.pc = "writing" THEN c.length - c.sent ELSE 0)
        + u + (e.length - e.sent) + d = BlockSize
    BY <2>1, <2>3 DEF ConnectionInv
  <2>6. /\ Capacity \in Nat /\ Capacity > 0
        /\ BlockSize \in Nat /\ BlockSize > 0 /\ BlockSize <= 2 * Capacity + 1
    BY CapacityAssumption
  <2>7. CASE c.pc = "reading"
    <3>1. e.pc = "reading" /\ e.length = 0 /\ e.sent = 0
      BY <2>1, <2>3, <2>4, <2>6, <2>7 DEF ConnectionInv
    <3> QED
      BY <2>4, <2>5, <2>6, <2>7, <3>1
  <2>8. CASE c.pc = "writing"
    <3>1. e.pc = "writing"
      BY <2>3, <2>4, <2>6, <2>8
    <3> QED
      BY <2>1, <2>2, <2>4, <2>5, <2>6, <2>8, <3>1
  <2> QED
    BY <2>3, <2>7, <2>8
<1>2. IInv => AwaitedCanMove
  <2>1. IInv /\ client = "waiting" => Head(sessions) \in Sessions
    BY DEF IInv, TypeInv, ClientInv
  <2> QED
    BY <1>1, <2>1 DEF AwaitedCanMove, SessionsCanMove
<1> QED
  BY <1>1, <1>2, EchoInvariant, PTL

Connection(s) == <<cs[s], ss[s], up[s], down[s]>>
LeftOf(s) == Left(cs[s], ss[s], up[s], down[s])

(* Nothing that happens to a connection takes it back, neither the server's *)
(* replies nor its failures, so that it takes only as many steps as are     *)
(* left to it when the flag is raised.                                      *)
RunsDown ==
  stop => /\ stop'
          /\ \A s \in Sessions :
               /\ LeftOf(s) \in Nat
               /\ Connection(s)' # Connection(s) => LeftOf(s)' < LeftOf(s)

THEOREM StoppedSessionsRunDown == Spec => [][RunsDown]_vars
<1>1. ASSUME IInv, NEW s \in Sessions PROVE LeftOf(s) \in Nat
  <2>1. PICK c, e, u, d : /\ c = cs[s] /\ e = ss[s] /\ u = up[s] /\ d = down[s]
                          /\ c \in ClientSessions /\ e \in ServerSessions
                          /\ u \in Nat /\ d \in Nat
                          /\ ConnectionInv(c, e, u, d)
    BY <1>1, ConnectionOf
  <2>2. /\ ClientLeft(c) \in Nat /\ ServerLeft(e) \in Nat
        /\ c.sent \in Nat /\ c.length \in Nat /\ e.sent \in Nat /\ e.length \in Nat
    BY <2>1, LeftTypes
  <2>3. c.sent <= c.length /\ e.sent <= e.length
    BY <2>1, <2>2 DEF ConnectionInv
  <2> QED
    BY <2>1, <2>2, <2>3 DEF LeftOf, Left
<1>2. ASSUME IInv, stop, NEW s \in Sessions, Moves(s)
      PROVE  /\ stop' = stop
             /\ LeftOf(s)' < LeftOf(s)
             /\ \A t \in Sessions : t # s => Connection(t)' = Connection(t)
  <2>1. PICK c \in ClientSessions, e \in ServerSessions, u \in Nat, d \in Nat :
          Becomes(s, c, e, u, d) /\ Left(c, e, u, d) < LeftOf(s)
    BY <1>2 DEF Moves, LeftOf
  <2>2. /\ cs'[s] = c /\ ss'[s] = e /\ up'[s] = u /\ down'[s] = d
        /\ \A t \in Sessions : t # s => Connection(t)' = Connection(t)
    BY <1>2, <2>1 DEF Becomes, IInv, TypeInv, Connection
  <2>3. LeftOf(s)' < LeftOf(s)
    BY <2>1, <2>2 DEF LeftOf
  <2> QED
    BY <2>1, <2>2, <2>3 DEF Becomes, clientVars
<1>3. ASSUME IInv, stop, [Next]_vars
      PROVE  /\ stop'
             /\ \A s \in Sessions : Connection(s)' # Connection(s) => LeftOf(s)' < LeftOf(s)
  <2>1. CASE Timeout \/ SessionCompletes \/ Exit \/ UNCHANGED vars
    BY <1>3, <2>1 DEF Timeout, SessionCompletes, Exit, vars, clientVars, Connection
  <2>2. CASE \E s \in Sessions : Moves(s)
    BY <1>2, <1>3, <2>2
  <2> QED
    BY <1>3, <2>1, <2>2, NextMoves
<1>4. IInv /\ [Next]_vars => [RunsDown]_vars
  BY <1>1, <1>3 DEF RunsDown
<1> QED
  BY <1>4, EchoInvariant, PTL DEF Spec
===============================================================================
