--------------------------- MODULE WinRTServer_proof ---------------------------
(***************************************************************************)
(* Proofs about the WinRT server and its pool awaiter, for any number of   *)
(* connections.                                                            *)
(*                                                                         *)
(* The invariant says, for one session, who is to continue it and with     *)
(* what result, and who refers to its frame; and, for main, that its walk  *)
(* and its list stay among the nodes that callbacks have linked.  At the   *)
(* end: who continues a session, and that the list has no cycle.           *)
(***************************************************************************)
EXTENDS WinRTServer, TLAPS

(* Who continues the coroutine, and how far the exchange of the flag is:    *)
(* the flag is up from set_canceller until the first of await_suspend and   *)
(* the completion handler takes it.                                         *)
ResumerInv(s) ==
  /\ pc[s] = "register" => suspending[s]
  /\ pc[s] = "decide" =>
       /\ ~work[s]
       /\ suspending[s] <=> handler[s] \in {"assigned", "called", "stored"}
       /\ handler[s] \notin {"submit", "refused"}
  /\ pc[s] = "suspended" => ~suspending[s] /\ (~work[s] <=> handler[s] # "none")
  /\ pc[s] \notin {"decide", "suspended"} => ~work[s] /\ handler[s] = "none"

(* Whoever continues it has the operation's end, and no operation ends      *)
(* without calling the handler that it has.                                 *)
ResultInv(s) ==
  /\ \/ handler[s] \in {"called", "stored", "submit", "refused"}
     \/ work[s]
     \/ pc[s] = "decide" /\ ~suspending[s]
     => op[s] \in Ends
  /\ handler[s] = "assigned" => op[s] \notin Ends

(* One reference is the coroutine's until its end, the other the caller's,  *)
(* then the list's; a list that was raced for may keep it for ever.         *)
Running(s) == pc[s] \notin {"none", "done"}

FrameInv(s) ==
  /\ pc[s] = "none" <=> callback[s] = "none"
  /\ pc[s] = "none" => refs[s] = 0
  /\ pc[s] # "none" /\ ListExists => refs[s] = (IF Running(s) THEN 2 ELSE 1)
  /\ pc[s] # "none" => refs[s] \in (IF Running(s) THEN 1..2 ELSE 0..1)

SessionInv(s) == ResumerInv(s) /\ ResultInv(s) /\ FrameInv(s)

(* Links lead to sessions that were started. *)
ListInv == \A n \in Nodes : next[n] \in Sessions => callback[next[n]] # "none"

MainInv == main \in {"mark", "call", "clear", "wait"} => at \in Sessions

IInv ==
  /\ TypeOK
  /\ \A s \in Sessions : SessionInv(s)
  /\ ListInv
  /\ MainInv

-------------------------------------------------------------------------------
(* A step of session s leaves main and the other sessions alone.            *)
OthersUnchanged(s) ==
  /\ main' = main /\ at' = at /\ env' = env
  /\ \A t \in Sessions \ {s} :
       /\ pc'[t] = pc[t] /\ op'[t] = op[t] /\ suspending'[t] = suspending[t]
       /\ handler'[t] = handler[t] /\ work'[t] = work[t]
       /\ refs'[t] = refs[t] /\ callback'[t] = callback[t]
       /\ status'[t] = status[t]

LEMMA LocalStep ==
  ASSUME IInv, NEW s \in Sessions, OthersUnchanged(s), TypeOK', SessionInv(s)',
         ListInv'
  PROVE  IInv'
<1>1. ASSUME NEW t \in Sessions, t # s PROVE SessionInv(t)'
  BY <1>1 DEF IInv, SessionInv, OthersUnchanged, ResumerInv, ResultInv, FrameInv,
     Running, ListExists
<1>2. MainInv'
  BY DEF IInv, MainInv, OthersUnchanged
<1> QED
  BY <1>1, <1>2 DEF IInv

(* Only LinksForward changes a link, and no session goes back to not being. *)
LEMMA LinksKeepListInv ==
  ASSUME IInv, next' = next,
         \A s \in Sessions : callback[s] # "none" => callback'[s] # "none"
  PROVE  ListInv'
BY DEF IInv, ListInv

LEMMA InitIInv == Init => IInv
<1> SUFFICES ASSUME Init PROVE IInv
  OBVIOUS
<1>1. TypeOK
  BY DEF Init, TypeOK, Nodes
<1>2. \A s \in Sessions : SessionInv(s)
  BY DEF Init, SessionInv, ResumerInv, ResultInv, FrameInv, Running
<1>3. ListInv /\ MainInv
  BY HeadAssumption DEF Init, ListInv, MainInv, Nodes
<1> QED
  BY <1>1, <1>2, <1>3 DEF IInv

-------------------------------------------------------------------------------
(* The steps of a session: its callback, its coroutine, its operation's     *)
(* handler and the pool.                                                    *)
LEMMA ConnectionReceivedIInv ==
  ASSUME IInv, NEW s \in Sessions, ConnectionReceived(s) PROVE IInv' /\ OthersUnchanged(s)
<1>1. OthersUnchanged(s)
  BY DEF IInv, TypeOK, ConnectionReceived, OthersUnchanged,
     coroutineVars, awaiterVars, poolVars, callbackVars, mainVars
<1>2. TypeOK'
  BY DEF IInv, TypeOK, ConnectionReceived, SessionInv, ResumerInv, ResultInv, FrameInv,
     Running,
     Ends, coroutineVars, awaiterVars, poolVars, callbackVars, mainVars
<1>3. SessionInv(s)'
  BY DEF IInv, TypeOK, ConnectionReceived, SessionInv, ResumerInv, ResultInv, FrameInv,
     Running,
     ListExists, Ends, coroutineVars, awaiterVars, poolVars, callbackVars, mainVars
<1>4. ListInv'
  BY LinksKeepListInv DEF IInv, TypeOK, ConnectionReceived, coroutineVars, awaiterVars,
     poolVars,
     callbackVars, mainVars
<1> QED
  BY <1>1, <1>2, <1>3, <1>4, LocalStep

LEMMA FindsEndIInv ==
  ASSUME IInv, NEW s \in Sessions, FindsEnd(s) PROVE IInv' /\ OthersUnchanged(s)
<1>1. OthersUnchanged(s)
  BY DEF IInv, TypeOK, FindsEnd, OthersUnchanged,
     coroutineVars, awaiterVars, poolVars, callbackVars, mainVars
<1>2. TypeOK'
  BY DEF IInv, TypeOK, FindsEnd, SessionInv, ResumerInv, ResultInv, FrameInv, Running,
     Ends, coroutineVars, awaiterVars, poolVars, callbackVars, mainVars
<1>3. SessionInv(s)'
  BY DEF IInv, TypeOK, FindsEnd, SessionInv, ResumerInv, ResultInv, FrameInv, Running,
     ListExists, Ends, coroutineVars, awaiterVars, poolVars, callbackVars, mainVars
<1>4. ListInv'
  BY LinksKeepListInv DEF IInv, TypeOK, FindsEnd, coroutineVars, awaiterVars, poolVars,
     callbackVars, mainVars
<1> QED
  BY <1>1, <1>2, <1>3, <1>4, LocalStep

LEMMA LinksBackIInv ==
  ASSUME IInv, NEW s \in Sessions, LinksBack(s) PROVE IInv' /\ OthersUnchanged(s)
<1>1. OthersUnchanged(s)
  BY DEF IInv, TypeOK, LinksBack, OthersUnchanged, Nodes, ListExists,
     coroutineVars, awaiterVars, poolVars, callbackVars, mainVars
<1>2. TypeOK'
  BY DEF IInv, TypeOK, LinksBack, SessionInv, ResumerInv, ResultInv, FrameInv, Running,
     Ends, Nodes, ListExists, coroutineVars, awaiterVars, poolVars, callbackVars, mainVars
<1>3. SessionInv(s)'
  BY DEF IInv, TypeOK, LinksBack, SessionInv, ResumerInv, ResultInv, FrameInv, Running,
     ListExists, Ends, Nodes, coroutineVars, awaiterVars, poolVars, callbackVars, mainVars
<1>4. ListInv'
  BY LinksKeepListInv DEF IInv, TypeOK, LinksBack, Nodes, ListExists, coroutineVars,
     awaiterVars, poolVars,
     callbackVars, mainVars
<1> QED
  BY <1>1, <1>2, <1>3, <1>4, LocalStep

LEMMA BeginsIInv ==
  ASSUME IInv, NEW s \in Sessions, Begins(s) PROVE IInv' /\ OthersUnchanged(s)
<1>1. OthersUnchanged(s)
  BY DEF IInv, TypeOK, Begins, OthersUnchanged, Canceled,
     coroutineVars, awaiterVars, poolVars, callbackVars, mainVars
<1>2. TypeOK'
  BY DEF IInv, TypeOK, Begins, SessionInv, ResumerInv, ResultInv, FrameInv, Running,
     Ends, Canceled, coroutineVars, awaiterVars, poolVars, callbackVars, mainVars
<1>3. SessionInv(s)'
  BY DEF IInv, TypeOK, Begins, SessionInv, ResumerInv, ResultInv, FrameInv, Running,
     ListExists, Ends, Canceled, coroutineVars, awaiterVars, poolVars, callbackVars,
     mainVars
<1>4. ListInv'
  BY LinksKeepListInv DEF IInv, TypeOK, Begins, Canceled, coroutineVars, awaiterVars,
     poolVars,
     callbackVars, mainVars
<1> QED
  BY <1>1, <1>2, <1>3, <1>4, LocalStep

LEMMA Await_transformIInv ==
  ASSUME IInv, NEW s \in Sessions, Await_transform(s) PROVE IInv' /\ OthersUnchanged(s)
<1>1. OthersUnchanged(s)
  BY DEF IInv, TypeOK, Await_transform, OthersUnchanged, Canceled,
     coroutineVars, awaiterVars, poolVars, callbackVars, mainVars
<1>2. TypeOK'
  BY DEF IInv, TypeOK, Await_transform, SessionInv, ResumerInv, ResultInv, FrameInv,
     Running,
     Ends, Canceled, coroutineVars, awaiterVars, poolVars, callbackVars, mainVars
<1>3. SessionInv(s)'
  BY DEF IInv, TypeOK, Await_transform, SessionInv, ResumerInv, ResultInv, FrameInv,
     Running,
     ListExists, Ends, Canceled, coroutineVars, awaiterVars, poolVars, callbackVars,
     mainVars
<1>4. ListInv'
  BY LinksKeepListInv DEF IInv, TypeOK, Await_transform, Canceled, coroutineVars,
     awaiterVars, poolVars,
     callbackVars, mainVars
<1> QED
  BY <1>1, <1>2, <1>3, <1>4, LocalStep

LEMMA ArmsIInv ==
  ASSUME IInv, NEW s \in Sessions, Arms(s) PROVE IInv' /\ OthersUnchanged(s)
<1>1. OthersUnchanged(s)
  BY DEF IInv, TypeOK, Arms, OthersUnchanged,
     coroutineVars, awaiterVars, poolVars, callbackVars, mainVars
<1>2. TypeOK'
  BY DEF IInv, TypeOK, Arms, SessionInv, ResumerInv, ResultInv, FrameInv, Running,
     Ends, coroutineVars, awaiterVars, poolVars, callbackVars, mainVars
<1>3. SessionInv(s)'
  BY DEF IInv, TypeOK, Arms, SessionInv, ResumerInv, ResultInv, FrameInv, Running,
     ListExists, Ends, coroutineVars, awaiterVars, poolVars, callbackVars, mainVars
<1>4. ListInv'
  BY LinksKeepListInv DEF IInv, TypeOK, Arms, coroutineVars, awaiterVars, poolVars,
     callbackVars, mainVars
<1> QED
  BY <1>1, <1>2, <1>3, <1>4, LocalStep

LEMMA RegistersIInv ==
  ASSUME IInv, NEW s \in Sessions, Registers(s) PROVE IInv' /\ OthersUnchanged(s)
<1>1. OthersUnchanged(s)
  BY DEF IInv, TypeOK, Registers, OthersUnchanged,
     coroutineVars, awaiterVars, poolVars, callbackVars, mainVars
<1>2. TypeOK'
  BY DEF IInv, TypeOK, Registers, SessionInv, ResumerInv, ResultInv, FrameInv, Running,
     Ends, coroutineVars, awaiterVars, poolVars, callbackVars, mainVars
<1>3. SessionInv(s)'
  BY DEF IInv, TypeOK, Registers, SessionInv, ResumerInv, ResultInv, FrameInv, Running,
     ListExists, Ends, coroutineVars, awaiterVars, poolVars, callbackVars, mainVars
<1>4. ListInv'
  BY LinksKeepListInv DEF IInv, TypeOK, Registers, coroutineVars, awaiterVars, poolVars,
     callbackVars, mainVars
<1> QED
  BY <1>1, <1>2, <1>3, <1>4, LocalStep

LEMMA DecidesIInv ==
  ASSUME IInv, NEW s \in Sessions, Decides(s) PROVE IInv' /\ OthersUnchanged(s)
<1>1. OthersUnchanged(s)
  BY DEF IInv, TypeOK, Decides, OthersUnchanged, ThreadReturns,
     coroutineVars, awaiterVars, poolVars, callbackVars, mainVars
<1>2. TypeOK'
  <2>1. suspending' \in [Sessions -> BOOLEAN]
    BY Zenon DEF IInv, TypeOK, Decides
  <2>2. pc' = [pc EXCEPT ![s] = "suspended"] \/ pc' = [pc EXCEPT ![s] = "resume"]
    BY Zenon DEF Decides
  <2>3. \/ UNCHANGED <<in_pool, callback>>
        \/ ThreadReturns(s)
    BY Zenon DEF Decides
  <2>4. in_pool' \in [Sessions -> BOOLEAN]
    BY <2>3, Zenon DEF IInv, TypeOK, ThreadReturns
  <2>5. callback' \in [Sessions -> {"none", "calling", "returned", "linking", "linked",
                                    "done"}]
    BY <2>3 DEF IInv, TypeOK, ThreadReturns
  <2>6. UNCHANGED <<then, status, refs, canceller, op, seen, handler, env, work, tail,
                    next, last, mainVars>>
    BY Zenon DEF Decides
  <2> QED
    BY <2>1, <2>2, <2>4, <2>5, <2>6 DEF IInv, TypeOK, mainVars
<1>3. SessionInv(s)'
  BY DEF IInv, TypeOK, Decides, SessionInv, ResumerInv, ResultInv, FrameInv, Running,
     ListExists, Ends, ThreadReturns, coroutineVars, awaiterVars, poolVars, callbackVars,
     mainVars
<1>4. ListInv'
  BY LinksKeepListInv DEF IInv, TypeOK, Decides, ThreadReturns, coroutineVars,
     awaiterVars, poolVars,
     callbackVars, mainVars
<1> QED
  BY <1>1, <1>2, <1>3, <1>4, LocalStep

LEMMA ResumesIInv ==
  ASSUME IInv, NEW s \in Sessions, Resumes(s) PROVE IInv' /\ OthersUnchanged(s)
<1>1. OthersUnchanged(s)
  BY DEF IInv, TypeOK, Resumes, OthersUnchanged,
     coroutineVars, awaiterVars, poolVars, callbackVars, mainVars
<1>2. TypeOK'
  BY DEF IInv, TypeOK, Resumes, SessionInv, ResumerInv, ResultInv, FrameInv, Running,
     Ends, coroutineVars, awaiterVars, poolVars, callbackVars, mainVars
<1>3. SessionInv(s)'
  BY DEF IInv, TypeOK, Resumes, SessionInv, ResumerInv, ResultInv, FrameInv, Running,
     ListExists, Ends, coroutineVars, awaiterVars, poolVars, callbackVars, mainVars
<1>4. ListInv'
  BY LinksKeepListInv DEF IInv, TypeOK, Resumes, coroutineVars, awaiterVars, poolVars,
     callbackVars, mainVars
<1> QED
  BY <1>1, <1>2, <1>3, <1>4, LocalStep

LEMMA RevokesIInv ==
  ASSUME IInv, NEW s \in Sessions, Revokes(s) PROVE IInv' /\ OthersUnchanged(s)
<1>1. OthersUnchanged(s)
  BY DEF IInv, TypeOK, Revokes, OthersUnchanged,
     coroutineVars, awaiterVars, poolVars, callbackVars, mainVars
<1>2. TypeOK'
  BY DEF IInv, TypeOK, Revokes, SessionInv, ResumerInv, ResultInv, FrameInv, Running,
     Ends, coroutineVars, awaiterVars, poolVars, callbackVars, mainVars
<1>3. SessionInv(s)'
  BY DEF IInv, TypeOK, Revokes, SessionInv, ResumerInv, ResultInv, FrameInv, Running,
     ListExists, Ends, coroutineVars, awaiterVars, poolVars, callbackVars, mainVars
<1>4. ListInv'
  BY LinksKeepListInv DEF IInv, TypeOK, Revokes, coroutineVars, awaiterVars, poolVars,
     callbackVars, mainVars
<1> QED
  BY <1>1, <1>2, <1>3, <1>4, LocalStep

LEMMA FinishesIInv ==
  ASSUME IInv, NEW s \in Sessions, Finishes(s) PROVE IInv' /\ OthersUnchanged(s)
<1>1. OthersUnchanged(s)
  BY DEF IInv, TypeOK, Finishes, OthersUnchanged, ThreadReturns,
     coroutineVars, awaiterVars, poolVars, callbackVars, mainVars
<1>2. TypeOK'
  BY DEF IInv, TypeOK, Finishes, SessionInv, ResumerInv, ResultInv, FrameInv, Running,
     Ends, ThreadReturns, coroutineVars, awaiterVars, poolVars, callbackVars, mainVars
<1>3. SessionInv(s)'
  BY DEF IInv, TypeOK, Finishes, SessionInv, ResumerInv, ResultInv, FrameInv, Running,
     ListExists, Ends, ThreadReturns, coroutineVars, awaiterVars, poolVars, callbackVars,
     mainVars
<1>4. ListInv'
  BY LinksKeepListInv DEF IInv, TypeOK, Finishes, ThreadReturns, coroutineVars,
     awaiterVars, poolVars,
     callbackVars, mainVars
<1> QED
  BY <1>1, <1>2, <1>3, <1>4, LocalStep

LEMMA OperationEndsIInv ==
  ASSUME IInv, NEW s \in Sessions, OperationEnds(s) PROVE IInv' /\ OthersUnchanged(s)
<1>1. OthersUnchanged(s)
  BY DEF IInv, TypeOK, OperationEnds, OthersUnchanged, Called,
     coroutineVars, awaiterVars, poolVars, callbackVars, mainVars
<1>2. TypeOK'
  BY DEF IInv, TypeOK, OperationEnds, SessionInv, ResumerInv, ResultInv, FrameInv,
     Running,
     Ends, Called, coroutineVars, awaiterVars, poolVars, callbackVars, mainVars
<1>3. SessionInv(s)'
  BY DEF IInv, TypeOK, OperationEnds, SessionInv, ResumerInv, ResultInv, FrameInv,
     Running,
     ListExists, Ends, Called, coroutineVars, awaiterVars, poolVars, callbackVars,
     mainVars
<1>4. ListInv'
  BY LinksKeepListInv DEF IInv, TypeOK, OperationEnds, Called, coroutineVars,
     awaiterVars, poolVars,
     callbackVars, mainVars
<1> QED
  BY <1>1, <1>2, <1>3, <1>4, LocalStep

LEMMA OperationCanceledIInv ==
  ASSUME IInv, NEW s \in Sessions, OperationCanceled(s) PROVE IInv' /\ OthersUnchanged(s)
<1>1. OthersUnchanged(s)
  BY DEF IInv, TypeOK, OperationCanceled, OthersUnchanged, Called,
     coroutineVars, awaiterVars, poolVars, callbackVars, mainVars
<1>2. TypeOK'
  BY DEF IInv, TypeOK, OperationCanceled, SessionInv, ResumerInv, ResultInv, FrameInv,
     Running,
     Ends, Called, coroutineVars, awaiterVars, poolVars, callbackVars, mainVars
<1>3. SessionInv(s)'
  BY DEF IInv, TypeOK, OperationCanceled, SessionInv, ResumerInv, ResultInv, FrameInv,
     Running,
     ListExists, Ends, Called, coroutineVars, awaiterVars, poolVars, callbackVars,
     mainVars
<1>4. ListInv'
  BY LinksKeepListInv DEF IInv, TypeOK, OperationCanceled, Called, coroutineVars,
     awaiterVars, poolVars,
     callbackVars, mainVars
<1> QED
  BY <1>1, <1>2, <1>3, <1>4, LocalStep

LEMMA HandlerStoresIInv ==
  ASSUME IInv, NEW s \in Sessions, HandlerStores(s) PROVE IInv' /\ OthersUnchanged(s)
<1>1. OthersUnchanged(s)
  BY DEF IInv, TypeOK, HandlerStores, OthersUnchanged,
     coroutineVars, awaiterVars, poolVars, callbackVars, mainVars
<1>2. TypeOK'
  BY DEF IInv, TypeOK, HandlerStores, SessionInv, ResumerInv, ResultInv, FrameInv,
     Running,
     Ends, coroutineVars, awaiterVars, poolVars, callbackVars, mainVars
<1>3. SessionInv(s)'
  BY DEF IInv, TypeOK, HandlerStores, SessionInv, ResumerInv, ResultInv, FrameInv,
     Running,
     ListExists, Ends, coroutineVars, awaiterVars, poolVars, callbackVars, mainVars
<1>4. ListInv'
  BY LinksKeepListInv DEF IInv, TypeOK, HandlerStores, coroutineVars, awaiterVars,
     poolVars,
     callbackVars, mainVars
<1> QED
  BY <1>1, <1>2, <1>3, <1>4, LocalStep

LEMMA HandlerExchangesIInv ==
  ASSUME IInv, NEW s \in Sessions, HandlerExchanges(s) PROVE IInv' /\ OthersUnchanged(s)
<1>1. OthersUnchanged(s)
  BY DEF IInv, TypeOK, HandlerExchanges, OthersUnchanged,
     coroutineVars, awaiterVars, poolVars, callbackVars, mainVars
<1>2. TypeOK'
  BY DEF IInv, TypeOK, HandlerExchanges, SessionInv, ResumerInv, ResultInv, FrameInv,
     Running,
     Ends, coroutineVars, awaiterVars, poolVars, callbackVars, mainVars
<1>3. SessionInv(s)'
  BY DEF IInv, TypeOK, HandlerExchanges, SessionInv, ResumerInv, ResultInv, FrameInv,
     Running,
     ListExists, Ends, coroutineVars, awaiterVars, poolVars, callbackVars, mainVars
<1>4. ListInv'
  BY LinksKeepListInv DEF IInv, TypeOK, HandlerExchanges, coroutineVars, awaiterVars,
     poolVars,
     callbackVars, mainVars
<1> QED
  BY <1>1, <1>2, <1>3, <1>4, LocalStep

LEMMA HandlerSubmitsIInv ==
  ASSUME IInv, NEW s \in Sessions, HandlerSubmits(s) PROVE IInv' /\ OthersUnchanged(s)
<1>1. OthersUnchanged(s)
  BY DEF IInv, TypeOK, HandlerSubmits, OthersUnchanged,
     coroutineVars, awaiterVars, poolVars, callbackVars, mainVars
<1>2. TypeOK'
  <2>1. work' = [work EXCEPT ![s] = TRUE] \/ work' = work
    BY Zenon DEF HandlerSubmits
  <2>2. work' \in [Sessions -> BOOLEAN]
    BY <2>1, Zenon DEF IInv, TypeOK
  <2>3. handler' = [handler EXCEPT ![s] = "none"] \/ handler' = [handler EXCEPT ![s] = "refused"]
    BY Zenon DEF HandlerSubmits
  <2>4. UNCHANGED <<coroutineVars, op, seen, suspending, env, in_pool, callbackVars, mainVars>>
    BY Zenon DEF HandlerSubmits
  <2> QED
    BY <2>2, <2>3, <2>4 DEF IInv, TypeOK, coroutineVars, callbackVars, mainVars
<1>3. SessionInv(s)'
  BY DEF IInv, TypeOK, HandlerSubmits, SessionInv, ResumerInv, ResultInv, FrameInv,
     Running,
     ListExists, Ends, coroutineVars, awaiterVars, poolVars, callbackVars, mainVars
<1>4. ListInv'
  BY LinksKeepListInv DEF IInv, TypeOK, HandlerSubmits, coroutineVars, awaiterVars,
     poolVars,
     callbackVars, mainVars
<1> QED
  BY <1>1, <1>2, <1>3, <1>4, LocalStep

LEMMA PoolCallsIInv ==
  ASSUME IInv, NEW s \in Sessions, PoolCalls(s) PROVE IInv' /\ OthersUnchanged(s)
<1>1. OthersUnchanged(s)
  BY DEF IInv, TypeOK, PoolCalls, OthersUnchanged,
     coroutineVars, awaiterVars, poolVars, callbackVars, mainVars
<1>2. TypeOK'
  BY DEF IInv, TypeOK, PoolCalls, SessionInv, ResumerInv, ResultInv, FrameInv, Running,
     Ends, coroutineVars, awaiterVars, poolVars, callbackVars, mainVars
<1>3. SessionInv(s)'
  BY DEF IInv, TypeOK, PoolCalls, SessionInv, ResumerInv, ResultInv, FrameInv, Running,
     ListExists, Ends, coroutineVars, awaiterVars, poolVars, callbackVars, mainVars
<1>4. ListInv'
  BY LinksKeepListInv DEF IInv, TypeOK, PoolCalls, coroutineVars, awaiterVars, poolVars,
     callbackVars, mainVars
<1> QED
  BY <1>1, <1>2, <1>3, <1>4, LocalStep

(* The last of push_back's steps: what it links was started. *)
LEMMA LinksForwardIInv ==
  ASSUME IInv, NEW s \in Sessions, LinksForward(s) PROVE IInv' /\ OthersUnchanged(s)
<1>1. OthersUnchanged(s)
  BY DEF IInv, TypeOK, LinksForward, OthersUnchanged,
     coroutineVars, awaiterVars, poolVars, mainVars
<1>2. next' \in [Nodes -> Nodes] /\ \A n \in Nodes : next'[n] \in {next[n], s}
  <2>1. s \in Nodes /\ next \in [Nodes -> Nodes]
    BY DEF IInv, TypeOK, Nodes
  <2> QED
    BY <2>1 DEF LinksForward
<1>3. TypeOK'
  BY <1>2 DEF IInv, TypeOK, LinksForward, coroutineVars, awaiterVars, poolVars, mainVars
<1>4. SessionInv(s)'
  BY DEF IInv, TypeOK, LinksForward, SessionInv, ResumerInv, ResultInv, FrameInv,
     Running, ListExists, coroutineVars, awaiterVars, poolVars, mainVars
<1>5. ListInv'
  <2>1. \A t \in Sessions : callback[t] # "none" => callback'[t] # "none"
    BY DEF IInv, TypeOK, LinksForward
  <2>2. callback'[s] # "none"
    BY DEF IInv, TypeOK, LinksForward
  <2> QED
    BY <1>2, <2>1, <2>2 DEF IInv, ListInv
<1> QED
  BY <1>1, <1>3, <1>4, <1>5, LocalStep

LEMMA SessionStepIInv ==
  ASSUME IInv, NEW s \in Sessions, SessionNext(s) PROVE IInv' /\ OthersUnchanged(s)
BY ConnectionReceivedIInv, FindsEndIInv, LinksBackIInv, LinksForwardIInv, BeginsIInv,
   Await_transformIInv, ArmsIInv, RegistersIInv, DecidesIInv, ResumesIInv, RevokesIInv,
   FinishesIInv, OperationEndsIInv, OperationCanceledIInv, HandlerStoresIInv,
   HandlerExchangesIInv, HandlerSubmitsIInv, PoolCallsIInv, Zenon
   DEF SessionNext, CoroutineStep, HandlerStep

-------------------------------------------------------------------------------
(* The steps of main.  What can be reached from the head was started.       *)
LEMMA ListedWasStarted ==
  ASSUME IInv, NEW s \in Listed PROVE s \in Sessions /\ callback[s] # "none"
<1> DEFINE S == {n \in Nodes : n \in Sessions => callback[n] # "none"}
<1>1. s \in Sessions
  BY DEF Listed
<1>2. S \in SUBSET Nodes
  OBVIOUS
<1>3. \A n \in Nodes : next[n] \in S
  BY DEF IInv, TypeOK, ListInv, Nodes
<1>4. Head \in Nodes
  BY DEF Nodes
<1>5. s \in S
  BY <1>2, <1>3, <1>4 DEF Listed
<1> QED
  BY <1>1, <1>5

LEMMA MainStepIInv ==
  ASSUME IInv, \/ Signal \/ CancelsStatus \/ Marks \/ ClearsMark \/ WaitsFor
               \/ ClosesPool \/ Exits \/ UNCHANGED vars
  PROVE  IInv'
<1>1. /\ pc' = pc /\ op' = op /\ suspending' = suspending /\ handler' = handler
      /\ work' = work /\ refs' = refs /\ callback' = callback /\ next' = next
  BY DEF Signal, CancelsStatus, Marks, ClearsMark, WaitsFor, ClosesPool, Exits, vars,
     mainOnly, coroutineVars, awaiterVars, poolVars, callbackVars
<1>2. ListExists' => ListExists
  BY DEF IInv, TypeOK, Signal, CancelsStatus, Marks, ClearsMark, WaitsFor, ClosesPool,
     Exits, vars, mainVars, ListExists
<1>3. \A s \in Sessions : SessionInv(s)'
  BY <1>1, <1>2 DEF IInv, SessionInv, ResumerInv, ResultInv, FrameInv, Running
<1>4. ListInv'
  BY <1>1 DEF IInv, ListInv
<1>5. TypeOK' /\ MainInv'
  <2> USE DEF IInv, MainInv, mainOnly, coroutineVars, awaiterVars, poolVars, callbackVars
  <2>1. CASE Signal \/ WaitsFor
    BY <2>1 DEF TypeOK, Signal, WaitsFor, Nodes
  <2>2. CASE CancelsStatus
    BY <2>2 DEF TypeOK, CancelsStatus, Nodes
  <2>3. CASE Marks \/ ClearsMark
    BY <2>3 DEF TypeOK, Marks, ClearsMark
  <2>4. CASE ClosesPool \/ Exits
    BY <2>4 DEF TypeOK, ClosesPool, Exits
  <2>5. CASE UNCHANGED vars
    BY <2>5 DEF TypeOK, vars, mainVars
  <2> QED
    BY <2>1, <2>2, <2>3, <2>4, <2>5
<1> QED
  BY <1>3, <1>4, <1>5 DEF IInv

(* A canceller cancels only what has not ended. *)
LEMMA CallsCancellerIInv == ASSUME IInv, CallsCanceller PROVE IInv'
<1>1. at \in Sessions /\ op \in [Sessions -> {"none", "started", "canceling"} \union Ends]
  BY DEF IInv, MainInv, CallsCanceller, TypeOK
<1>2. \/ op' = op
      \/ op[at] = "started" /\ \E hit \in {"canceling", "started"} :
                                 op' = [op EXCEPT ![at] = hit]
  BY DEF CallsCanceller
<1>3. /\ op' \in [Sessions -> {"none", "started", "canceling"} \union Ends]
      /\ \A s \in Sessions : op[s] \in Ends <=> op'[s] \in Ends
  BY <1>1, <1>2 DEF Ends
<1>4. /\ main' = "clear" /\ main = "call" /\ loaded' = "null" /\ at' = at
      /\ UNCHANGED <<coroutineVars, seen, suspending, handler, poolVars, callbackVars>>
  BY DEF CallsCanceller
<1>5. TypeOK'
  BY <1>3, <1>4 DEF IInv, TypeOK, coroutineVars, poolVars, callbackVars
<1>6. \A s \in Sessions : SessionInv(s)'
  BY <1>3, <1>4 DEF IInv, SessionInv, ResumerInv, ResultInv, FrameInv, Running,
     ListExists, coroutineVars, poolVars, callbackVars
<1>7. ListInv' /\ MainInv'
  BY <1>1, <1>4 DEF IInv, ListInv, MainInv, coroutineVars, poolVars, callbackVars
<1> QED
  BY <1>5, <1>6, <1>7 DEF IInv

(* The destroyed list gives back one reference to each session in it. *)
LEMMA LeavesScopeIInv == ASSUME IInv, LeavesScope PROVE IInv'
<1>1. /\ main = "clearing" /\ main' = "closing"
      /\ UNCHANGED <<pc, then, status, canceller, awaiterVars, poolVars, callbackVars,
                     at, loaded>>
  BY DEF LeavesScope
<1>2. ASSUME NEW s \in Sessions
      PROVE  refs'[s] \in 0..2 /\ SessionInv(s)'
  <2>1. refs'[s] = IF s \in Listed THEN refs[s] - 1 ELSE refs[s]
    BY DEF LeavesScope
  <2>2. s \in Listed => pc[s] # "none"
    BY ListedWasStarted DEF IInv, SessionInv, FrameInv
  <2>3. FrameInv(s) /\ ListExists /\ ~ListExists' /\ refs[s] \in 0..2
    BY <1>1 DEF IInv, SessionInv, ListExists, TypeOK
  <2>4. refs'[s] \in 0..2 /\ FrameInv(s)'
    BY <1>1, <2>1, <2>2, <2>3 DEF FrameInv, Running, callbackVars
  <2> QED
    BY <1>1, <2>4 DEF IInv, SessionInv, ResumerInv, ResultInv, awaiterVars, poolVars
<1>3. refs' = [s \in Sessions |-> refs'[s]]
  BY DEF LeavesScope
<1>4. TypeOK'
  BY <1>1, <1>2, <1>3 DEF IInv, TypeOK, awaiterVars, poolVars, callbackVars
<1>5. ListInv' /\ MainInv'
  BY <1>1 DEF IInv, ListInv, MainInv, callbackVars
<1> QED
  BY <1>2, <1>4, <1>5 DEF IInv

LEMMA NextIInv == IInv /\ [Next]_vars => IInv'
BY SessionStepIInv, MainStepIInv, CallsCancellerIInv, LeavesScopeIInv DEF Next, MainNext

-------------------------------------------------------------------------------
(* The invariant of the server: for each session, who continues it and who  *)
(* refers to it.                                                            *)
THEOREM ServerInvariant == Spec => []IInv
<1>1. Init => IInv
  BY InitIInv
<1>2. IInv /\ [Next]_vars => IInv'
  BY NextIInv
<1> QED
  BY <1>1, <1>2, PTL DEF Spec

(* Type correctness; the references to a frame are never more than two and  *)
(* never fewer than none.                                                   *)
THEOREM TypeCorrect == Spec => []TypeOK
<1>1. IInv => TypeOK
  BY DEF IInv
<1> QED
  BY <1>1, ServerInvariant, PTL

(* Whatever the order in which await_suspend and the completion handler     *)
(* come to the flag, exactly one of them continues the coroutine.           *)
THEOREM SessionsHaveOneResumer == Spec => []OneResumer
<1>1. IInv => OneResumer
  BY DEF IInv, SessionInv, ResumerInv, OneResumer
<1> QED
  BY <1>1, ServerInvariant, PTL

(* No frame is destroyed under its coroutine, nor under main's list,        *)
(* whatever push_back loses.                                                *)
THEOREM FramesOutliveUsers == Spec => []FrameOutlivesUsers
<1>1. IInv => FrameOutlivesUsers
  <2> SUFFICES ASSUME IInv, NEW s \in Sessions
               PROVE  refs[s] >= (IF Running(s) THEN 1 ELSE 0)
                                 + (IF ListExists /\ s \in Listed THEN 1 ELSE 0)
    BY DEF FrameOutlivesUsers, Running
  <2>1. s \in Listed => pc[s] # "none"
    BY ListedWasStarted DEF IInv, SessionInv, FrameInv
  <2>2. FrameInv(s) /\ refs[s] \in 0..2
    BY DEF IInv, SessionInv, TypeOK
  <2> QED
    BY <2>1, <2>2 DEF FrameInv, Running
<1> QED
  BY <1>1, ServerInvariant, PTL

-------------------------------------------------------------------------------
(* The refinement of Resumption: what the abstract variables are, and what  *)
(* a step of one session does to them.                                      *)
Phase(s) == IF Awaiting(s) THEN "awaiting"
            ELSE IF pc[s] = "done" THEN "finished" ELSE "running"

ResultReady(s) == Awaiting(s) /\ op[s] \in Ends

phases == [s \in Sessions |-> Phase(s)]
results == [s \in Sessions |-> ResultReady(s)]
loops == [s \in Sessions |-> IF env = "up" THEN "up" ELSE "down"]

LEMMA AbstractVariables ==
  /\ R!ResumptionInit <=> /\ phases = [s \in Sessions |-> "running"]
                          /\ results = [s \in Sessions |-> FALSE]
                          /\ loops = [s \in Sessions |-> "up"]
  /\ phases' = phases /\ results' = results /\ loops' = loops =>
       UNCHANGED R!resumptionVars
  /\ R!GoDown <=>
       \E gone \in SUBSET Sessions :
         /\ loops' = [s \in Sessions |-> IF s \in gone THEN "down" ELSE loops[s]]
         /\ \E ended \in SUBSET {s \in gone : loops[s] = "up" /\ phases[s] = "awaiting"} :
              phases' = [s \in Sessions |-> IF s \in ended THEN "finished" ELSE phases[s]]
         /\ results' \in [Sessions -> BOOLEAN]
         /\ \A s \in Sessions \ gone : results'[s] = results[s]
BY Zenon DEF R!ResumptionInit, R!resumptionVars, R!GoDown, phases, results, loops,
   Phase, ResultReady

LEMMA LocalRefinement ==
  ASSUME NEW s \in Sessions, OthersUnchanged(s),
         \/ /\ Phase(s) = "running" /\ Phase(s)' = "awaiting"
         \/ /\ Phase(s) = "awaiting" /\ Phase(s)' = "awaiting" /\ ResultReady(s)'
         \/ /\ Phase(s) = "awaiting" /\ ResultReady(s)
            /\ Phase(s)' = "running" /\ ~ResultReady(s)'
         \/ /\ Phase(s) = "running" /\ Phase(s)' = "finished"
            /\ ~ResultReady(s)' /\ ~ResultReady(s)
         \/ Phase(s)' = Phase(s) /\ (ResultReady(s)' <=> ResultReady(s))
  PROVE  [R!ResumptionNext]_R!resumptionVars
<1>1. \A t \in Sessions \ {s} : Phase(t)' = Phase(t) /\ ResultReady(t)' = ResultReady(t)
  BY DEF OthersUnchanged, Phase, ResultReady, Awaiting
<1>2. loops' = loops
  BY DEF loops, OthersUnchanged
<1>3. phases' = [phases EXCEPT ![s] = Phase(s)']
  BY <1>1, Zenon DEF phases
<1>4. results' = [results EXCEPT ![s] = ResultReady(s)']
  BY <1>1, Zenon DEF results
<1>5. phases[s] = Phase(s) /\ results[s] = ResultReady(s)
  BY DEF phases, results
<1>6. ResultReady(s)' \in BOOLEAN /\ ResultReady(s) \in BOOLEAN
  BY DEF ResultReady
<1>7. CASE Phase(s) = "running" /\ Phase(s)' = "awaiting"
  <2>1. R!Await(s)
    BY <1>2, <1>3, <1>4, <1>5, <1>6, <1>7, Zenon
       DEF R!Await, phases, results, loops, Phase, ResultReady
  <2> QED
    BY <2>1 DEF R!ResumptionNext
<1>8. CASE Phase(s) = "awaiting" /\ Phase(s)' = "awaiting" /\ ResultReady(s)'
  <2>1. phases' = phases
    BY <1>3, <1>5, <1>8 DEF phases
  <2>2. results' = [results EXCEPT ![s] = TRUE]
    BY <1>4, <1>6, <1>8
  <2>3. R!Deliver(s)
    BY <1>2, <1>5, <1>8, <2>1, <2>2, Zenon
       DEF R!Deliver, phases, results, loops, Phase, ResultReady
  <2> QED
    BY <2>3 DEF R!ResumptionNext
<1>9. CASE /\ Phase(s) = "awaiting" /\ ResultReady(s)
           /\ Phase(s)' = "running" /\ ~ResultReady(s)'
  <2>1. results' = [results EXCEPT ![s] = FALSE]
    BY <1>4, <1>6, <1>9
  <2>2. R!Resume(s)
    BY <1>2, <1>3, <1>5, <1>9, <2>1, Zenon
       DEF R!Resume, phases, results, loops, Phase, ResultReady
  <2> QED
    BY <2>2 DEF R!ResumptionNext
<1>10. CASE /\ Phase(s) = "running" /\ Phase(s)' = "finished"
            /\ ~ResultReady(s)' /\ ~ResultReady(s)
  <2>1. results' = results
    BY <1>4, <1>5, <1>6, <1>10 DEF results
  <2>2. R!Finish(s)
    BY <1>2, <1>3, <1>5, <1>10, <2>1, Zenon
       DEF R!Finish, phases, results, loops, Phase, ResultReady
  <2> QED
    BY <2>2 DEF R!ResumptionNext
<1>11. CASE Phase(s)' = Phase(s) /\ (ResultReady(s)' <=> ResultReady(s))
  <2>1. phases' = phases /\ results' = results
    BY <1>3, <1>4, <1>5, <1>6, <1>11 DEF phases, results
  <2> QED
    BY <1>2, <2>1, AbstractVariables
<1> QED
  BY <1>7, <1>8, <1>9, <1>10, <1>11

LEMMA SessionStepRefines ==
  ASSUME IInv, NEW s \in Sessions, SessionNext(s)
  PROVE  [R!ResumptionNext]_R!resumptionVars
<1>1. /\ OthersUnchanged(s)
      /\ pc \in [Sessions -> {"none", "loop", "write", "transform", "arm", "register",
                              "decide", "suspended", "resume", "revoke", "close", "done"}]
      /\ op \in [Sessions -> {"none", "started", "canceling"} \union Ends]
      /\ then \in [Sessions -> {"loop", "write", "close"}]
      /\ suspending \in [Sessions -> BOOLEAN]
      /\ ResumerInv(s) /\ ResultInv(s)
  BY SessionStepIInv DEF IInv, TypeOK, SessionInv
<1> USE <1>1 DEF Phase, ResultReady, Awaiting
<1>2. CASE \/ ConnectionReceived(s) \/ Begins(s) \/ Await_transform(s) \/ Resumes(s)
           \/ Revokes(s)
  <2>1. Phase(s) = "running" /\ Phase(s)' = "running"
    BY <1>2 DEF ConnectionReceived, Begins, Await_transform, Resumes, Revokes,
       FrameInv, SessionInv, IInv
  <2>2. ~ResultReady(s) /\ ~ResultReady(s)'
    BY <2>1
  <2> QED
    BY <2>1, <2>2, LocalRefinement
<1>3. CASE Arms(s)
  <2>1. Phase(s) = "running" /\ Phase(s)' = "awaiting"
    BY <1>3 DEF Arms
  <2> QED
    BY <2>1, LocalRefinement
<1>4. CASE \/ FindsEnd(s) \/ LinksBack(s) \/ LinksForward(s) \/ Registers(s)
           \/ HandlerStores(s) \/ HandlerExchanges(s) \/ HandlerSubmits(s)
  <2>1. Phase(s)' = Phase(s) /\ (ResultReady(s)' <=> ResultReady(s))
    BY <1>4 DEF FindsEnd, LinksBack, LinksForward, Registers, HandlerStores,
       HandlerExchanges, HandlerSubmits, coroutineVars, awaiterVars
  <2> QED
    BY <2>1, LocalRefinement
<1>5. CASE Decides(s)
  <2>1. pc[s] = "decide" /\ op' = op
    BY <1>5 DEF Decides
  <2>2. CASE suspending[s]
    <3>1. pc'[s] = "suspended"
      BY <1>5, <2>2 DEF Decides
    <3>2. Phase(s)' = Phase(s) /\ (ResultReady(s)' <=> ResultReady(s))
      BY <2>1, <3>1
    <3> QED
      BY <3>2, LocalRefinement
  <2>3. CASE ~suspending[s]
    <3>1. pc'[s] = "resume" /\ op[s] \in Ends
      BY <1>5, <2>1, <2>3 DEF Decides, ResultInv
    <3>2. Phase(s) = "awaiting" /\ ResultReady(s) /\ Phase(s)' = "running" /\ ~ResultReady(s)'
      BY <2>1, <3>1
    <3> QED
      BY <3>2, LocalRefinement
  <2> QED
    BY <2>2, <2>3
<1>6. CASE PoolCalls(s)
  <2>1. pc[s] = "suspended" /\ op[s] \in Ends /\ pc'[s] = "resume"
    BY <1>6 DEF PoolCalls, ResumerInv, ResultInv
  <2>2. Phase(s) = "awaiting" /\ ResultReady(s) /\ Phase(s)' = "running" /\ ~ResultReady(s)'
    BY <2>1
  <2> QED
    BY <2>2, LocalRefinement
<1>7. CASE Finishes(s)
  <2>1. pc[s] = "close" /\ pc'[s] = "done"
    BY <1>7 DEF Finishes
  <2>2. Phase(s) = "running" /\ Phase(s)' = "finished" /\ ~ResultReady(s)' /\ ~ResultReady(s)
    BY <2>1
  <2> QED
    BY <2>2, LocalRefinement
<1>8. CASE OperationEnds(s) \/ OperationCanceled(s)
  <2>1. pc' = pc /\ op[s] \notin Ends /\ op'[s] \in Ends
    BY <1>8 DEF OperationEnds, OperationCanceled, coroutineVars, Ends
  <2>2. \/ /\ Phase(s) = "awaiting" /\ Phase(s)' = "awaiting" /\ ResultReady(s)'
        \/ /\ Phase(s)' = Phase(s) /\ (ResultReady(s)' <=> ResultReady(s))
    BY <2>1
  <2> QED
    BY <2>2, LocalRefinement
<1> QED
  BY <1>2, <1>3, <1>4, <1>5, <1>6, <1>7, <1>8 DEF SessionNext, CoroutineStep, HandlerStep

(* main resumes nobody; ~environment takes the pool from everybody.         *)
LEMMA MainStepRefines ==
  ASSUME IInv, MainNext \/ UNCHANGED vars
  PROVE  [R!ResumptionNext]_R!resumptionVars
<1>1. pc' = pc
  BY DEF MainNext, Signal, CancelsStatus, Marks, CallsCanceller, ClearsMark, WaitsFor,
     LeavesScope, ClosesPool, Exits, vars, mainOnly, coroutineVars
<1>2. phases' = phases
  BY <1>1 DEF phases, Phase, Awaiting
<1>3. \A s \in Sessions : op'[s] \in Ends <=> op[s] \in Ends
  <2>1. CASE CallsCanceller
    <3>1. op \in [Sessions -> {"none", "started", "canceling"} \union Ends]
      BY DEF IInv, TypeOK
    <3>2. \/ op' = op
          \/ op[at] = "started" /\ \E hit \in {"canceling", "started"} :
                                     op' = [op EXCEPT ![at] = hit]
      BY <2>1 DEF CallsCanceller
    <3> QED
      BY <3>1, <3>2 DEF Ends
  <2>2. CASE ~CallsCanceller
    BY <2>2 DEF MainNext, Signal, CancelsStatus, Marks, ClearsMark, WaitsFor,
       LeavesScope, ClosesPool, Exits, vars, mainOnly, awaiterVars
  <2> QED
    BY <2>1, <2>2
<1>4. results' = results
  BY <1>1, <1>3 DEF results, ResultReady, Awaiting
<1>5. CASE ClosesPool
  <2>1. loops' = [s \in Sessions |-> IF s \in Sessions THEN "down" ELSE loops[s]]
    BY <1>5 DEF ClosesPool, loops
  <2>2. phases' = [s \in Sessions |-> IF s \in {} THEN "finished" ELSE phases[s]]
    BY <1>2 DEF phases
  <2>3. results' \in [Sessions -> BOOLEAN]
    BY DEF results, ResultReady
  <2>4. \A s \in Sessions \ Sessions : results'[s] = results[s]
    OBVIOUS
  <2>5. {} \in SUBSET {s \in Sessions : loops[s] = "up" /\ phases[s] = "awaiting"}
    OBVIOUS
  <2>6. R!GoDown
    BY <2>1, <2>2, <2>3, <2>4, <2>5, AbstractVariables, Zenon
  <2> QED
    BY <2>6 DEF R!ResumptionNext
<1>6. CASE ~ClosesPool
  <2>1. env' = env
    BY <1>6 DEF MainNext, Signal, CancelsStatus, Marks, CallsCanceller, ClearsMark,
       WaitsFor, LeavesScope, Exits, vars, mainOnly, poolVars
  <2>2. loops' = loops
    BY <2>1 DEF loops
  <2> QED
    BY <1>2, <1>4, <2>2, AbstractVariables
<1> QED
  BY <1>5, <1>6

(* A session of the pool awaiter is continued only after its operation has  *)
(* ended, and never after its own end.                                      *)
THEOREM PoolAwaiterImplementsResumption == Spec => ImplementsResumption
<1>1. Init => R!ResumptionInit
  <2> SUFFICES ASSUME Init PROVE /\ phases = [s \in Sessions |-> "running"]
                                 /\ results = [s \in Sessions |-> FALSE]
                                 /\ loops = [s \in Sessions |-> "up"]
    BY AbstractVariables
  <2> QED
    BY DEF Init, phases, results, loops, Phase, ResultReady, Awaiting
<1>2. IInv /\ [Next]_vars => [R!ResumptionNext]_R!resumptionVars
  BY SessionStepRefines, MainStepRefines DEF Next
<1> QED
  BY <1>1, <1>2, ServerInvariant, PTL DEF Spec, ImplementsResumption, R!ResumptionSpec
-------------------------------------------------------------------------------
(* What NoLostResumption and CancelledSessionEnds rest on, as far as safety *)
(* goes: who is to continue a suspended session, and a number that falls    *)
(* with each step of what continues it, and of a session that is cancelled. *)

(* A session is suspended on an operation that has its handler, or the      *)
(* handler is on its way, or the pool has the session.                      *)
SomebodyContinues ==
  \A s \in Sessions : pc[s] = "suspended" =>
    \/ op[s] \notin Ends /\ handler[s] = "assigned"
    \/ op[s] \in Ends /\ handler[s] \in {"called", "stored", "submit", "refused"}
    \/ op[s] \in Ends /\ work[s]

(* How far the coroutine is from its end if nothing lets it await again,    *)
(* and how far its operation, its handler and its work item are.            *)
PcLeft(p) ==
  CASE p = "none" -> 40
    [] p = "arm" -> 32
    [] p = "register" -> 30
    [] p = "decide" -> 22
    [] p = "suspended" -> 20
    [] p = "resume" -> 18
    [] p = "revoke" -> 17
    [] p = "write" -> 10
    [] p = "loop" -> 9
    [] p = "transform" -> 5
    [] p = "close" -> 1
    [] OTHER -> 0

OpLeft(o) == IF o = "started" THEN 2 ELSE IF o = "canceling" THEN 1 ELSE 0

HandlerLeft(h) ==
  CASE h = "assigned" -> 5
    [] h = "called" -> 4
    [] h = "stored" -> 3
    [] h = "submit" -> 2
    [] OTHER -> 0

WorkLeft(w) == IF w THEN 1 ELSE 0

Left(p, o, h, w) == PcLeft(p) + OpLeft(o) + HandlerLeft(h) + WorkLeft(w)
LeftOf(s) == Left(pc[s], op[s], handler[s], work[s])

Unmoved(s) ==
  pc'[s] = pc[s] /\ op'[s] = op[s] /\ handler'[s] = handler[s] /\ work'[s] = work[s]

Nearer(s) == Left(pc'[s], op'[s], handler'[s], work'[s]) < LeftOf(s)

EndedGoesOn ==
  \A s \in Sessions : pc[s] = "suspended" /\ op[s] \in Ends =>
    \/ Unmoved(s)
    \/ op'[s] = op[s] /\ pc'[s] \in {"suspended", "resume"} /\ Nearer(s)

CancelledRunsDown ==
  \A s \in Sessions : Canceled(s) => Canceled(s)' /\ (Unmoved(s) \/ Nearer(s))

LEMMA LeftTypes ==
  ASSUME NEW p, NEW o, NEW h, NEW w
  PROVE  /\ PcLeft(p) \in 0..40 /\ OpLeft(o) \in 0..2
         /\ HandlerLeft(h) \in 0..5 /\ WorkLeft(w) \in 0..1
BY DEF PcLeft, OpLeft, HandlerLeft, WorkLeft

(* A step of the coroutine that a cancelled session can take. *)
LEMMA CoroutineLeft ==
  ASSUME IInv, NEW s \in Sessions, Canceled(s), CoroutineStep(s)
  PROVE  Unmoved(s) \/ Nearer(s)
<1>1. PICK p : p = pc'[s]
  OBVIOUS
<1>2. PICK o : o = op'[s]
  OBVIOUS
<1>3. PICK h : h = handler'[s]
  OBVIOUS
<1>4. PICK w : w = work'[s]
  OBVIOUS
<1>5. SUFFICES ASSUME ~Unmoved(s) PROVE Left(p, o, h, w) < LeftOf(s)
  BY <1>1, <1>2, <1>3, <1>4 DEF Nearer
<1>6. TypeOK /\ w = work[s]
  BY <1>4
     DEF IInv, CoroutineStep, Begins, Await_transform, Arms, Registers, Decides, Resumes,
         Revokes, Finishes, ThreadReturns, poolVars
<1>7. /\ PcLeft(pc[s]) \in 0..40 /\ OpLeft(op[s]) \in 0..2
      /\ HandlerLeft(handler[s]) \in 0..5 /\ WorkLeft(w) \in 0..1
      /\ OpLeft(o) \in 0..2 /\ HandlerLeft(h) \in 0..5
  BY LeftTypes
<1>8. CASE Registers(s)
  <2>1. pc[s] = "register" /\ p = "decide" /\ o = op[s]
    BY <1>1, <1>2, <1>6, <1>8 DEF Registers, TypeOK
  <2>2. PcLeft(pc[s]) = 30 /\ PcLeft(p) = 22
    BY <2>1 DEF PcLeft
  <2> QED
    BY <1>6, <1>7, <2>1, <2>2 DEF Left, LeftOf
<1>9. CASE ~Registers(s)
  <2>1. h = handler[s]
    BY <1>3, <1>9
       DEF CoroutineStep, Begins, Await_transform, Arms, Decides, Resumes, Revokes,
           Finishes, awaiterVars
  <2>2. \/ pc[s] = "loop" /\ p = "close" /\ o = op[s]
        \/ pc[s] = "write" /\ p = "transform"
        \/ pc[s] = "transform" /\ p = "close" /\ o = "none"
        \/ pc[s] = "arm" /\ p = "register" /\ o = op[s]
        \/ pc[s] = "decide" /\ p \in {"suspended", "resume"} /\ o = op[s]
        \/ pc[s] = "resume" /\ p = "revoke" /\ o = "none"
        \/ pc[s] = "revoke" /\ p \in {"loop", "write", "close"} /\ o = op[s]
        \/ pc[s] = "close" /\ p = "done" /\ o = op[s]
    <3>1. CASE Begins(s) \/ Await_transform(s)
      BY <1>1, <1>2, <1>6, <3>1 DEF Begins, Await_transform, TypeOK
    <3>2. CASE Arms(s) \/ Decides(s)
      BY <1>1, <1>2, <1>6, <3>2 DEF Arms, Decides, TypeOK
    <3>3. CASE Resumes(s) \/ Finishes(s)
      BY <1>1, <1>2, <1>6, <3>3 DEF Resumes, Finishes, TypeOK, awaiterVars
    <3>4. CASE Revokes(s)
      <4>1. /\ pc[s] = "revoke" /\ p \in {"revoke", "loop", "write", "close"}
            /\ op'[s] = op[s] /\ work'[s] = work[s] /\ handler'[s] = handler[s]
        BY <1>1, <1>6, <3>4 DEF Revokes, TypeOK, awaiterVars, poolVars
      <4> QED
        BY <1>1, <1>2, <1>5, <4>1 DEF Unmoved
    <3> QED
      BY <1>9, <3>1, <3>2, <3>3, <3>4 DEF CoroutineStep
  <2>3. /\ PcLeft(p) + OpLeft(o) < PcLeft(pc[s]) + OpLeft(op[s])
        /\ PcLeft(p) \in Int
    BY <1>7, <2>2 DEF PcLeft, OpLeft
  <2> QED
    BY <1>6, <1>7, <2>1, <2>3 DEF Left, LeftOf
<1> QED
  BY <1>8, <1>9

(* A step of the operation, its handler or the pool. *)
LEMMA HandlerStepLeft ==
  ASSUME IInv, NEW s \in Sessions,
         OperationEnds(s) \/ OperationCanceled(s) \/ HandlerStep(s) \/ PoolCalls(s)
  PROVE  /\ Nearer(s)
         /\ pc[s] = "suspended" /\ op[s] \in Ends =>
              op'[s] = op[s] /\ pc'[s] \in {"suspended", "resume"}
<1>1. PICK p : p = pc'[s]
  OBVIOUS
<1>2. PICK o : o = op'[s]
  OBVIOUS
<1>3. PICK h : h = handler'[s]
  OBVIOUS
<1>4. PICK w : w = work'[s]
  OBVIOUS
<1>5. TypeOK /\ ResumerInv(s)
  BY DEF IInv, SessionInv
<1>6. /\ PcLeft(pc[s]) \in 0..40 /\ OpLeft(op[s]) \in 0..2
      /\ HandlerLeft(handler[s]) \in 0..5 /\ WorkLeft(work[s]) \in 0..1
      /\ PcLeft(p) \in 0..40 /\ OpLeft(o) \in 0..2
      /\ HandlerLeft(h) \in 0..5 /\ WorkLeft(w) \in 0..1
  BY LeftTypes
<1>7. CASE OperationEnds(s) \/ OperationCanceled(s)
  <2>1. /\ p = pc[s] /\ w = work[s] /\ op[s] \in {"started", "canceling"} /\ o \in Ends
        /\ h = handler[s] \/ (handler[s] = "assigned" /\ h = "called")
    BY <1>1, <1>2, <1>3, <1>4, <1>5, <1>7
       DEF OperationEnds, OperationCanceled, Called, TypeOK, coroutineVars, poolVars, Ends
  <2>2. OpLeft(o) < OpLeft(op[s]) /\ HandlerLeft(h) <= HandlerLeft(handler[s])
    BY <2>1 DEF OpLeft, HandlerLeft, Ends
  <2>3. op[s] \notin Ends
    BY <2>1 DEF Ends
  <2>4. Left(p, o, h, w) < LeftOf(s)
    BY <1>6, <2>1, <2>2 DEF Left, LeftOf
  <2> QED
    BY <1>1, <1>2, <1>3, <1>4, <2>3, <2>4 DEF Nearer
<1>8. CASE HandlerStep(s)
  <2>1. /\ p = pc[s] /\ o = op[s]
        /\ \/ handler[s] = "called" /\ h = "stored" /\ w = work[s]
           \/ handler[s] = "stored" /\ h \in {"none", "submit"} /\ w = work[s]
           \/ handler[s] = "submit" /\ h \in {"none", "refused"}
    BY <1>1, <1>2, <1>3, <1>4, <1>5, <1>8
       DEF HandlerStep, HandlerStores, HandlerExchanges, HandlerSubmits, TypeOK,
           coroutineVars, poolVars
  <2>2. HandlerLeft(h) + WorkLeft(w) < HandlerLeft(handler[s]) + WorkLeft(work[s])
    BY <1>6, <2>1 DEF HandlerLeft
  <2>3. Left(p, o, h, w) < LeftOf(s)
    BY <1>6, <2>1, <2>2 DEF Left, LeftOf
  <2> QED
    BY <1>1, <1>2, <1>3, <1>4, <2>1, <2>3 DEF Nearer
<1>9. CASE PoolCalls(s)
  <2>1. /\ pc[s] = "suspended" /\ p = "resume" /\ o = op[s] /\ h = handler[s]
    BY <1>1, <1>2, <1>3, <1>5, <1>9 DEF PoolCalls, TypeOK, ResumerInv, awaiterVars
  <2>2. PcLeft(p) = 18 /\ PcLeft(pc[s]) = 20
    BY <2>1 DEF PcLeft
  <2>3. Left(p, o, h, w) < LeftOf(s)
    BY <1>6, <2>1, <2>2 DEF Left, LeftOf
  <2> QED
    BY <1>1, <1>2, <1>3, <1>4, <2>1, <2>3 DEF Nearer
<1> QED
  BY <1>7, <1>8, <1>9

(* Main moves an operation at most: it has it cancelled. *)
LEMMA MainStepLeft ==
  ASSUME IInv, MainNext, NEW s \in Sessions
  PROVE  /\ Canceled(s) => Canceled(s)'
         /\ \/ Unmoved(s)
            \/ op[s] = "started" /\ Nearer(s)
<1>1. TypeOK
  BY DEF IInv
<1>2. Canceled(s) => Canceled(s)'
  BY <1>1
     DEF MainNext, Signal, CancelsStatus, Marks, CallsCanceller, ClearsMark, WaitsFor,
         LeavesScope, ClosesPool, Exits, TypeOK, Canceled, mainOnly, coroutineVars
<1>3. CASE CallsCanceller
  <2>1. PICK o : o = op'[s]
    OBVIOUS
  <2>2. /\ pc' = pc /\ handler' = handler /\ work' = work
        /\ o = op[s] \/ (op[s] = "started" /\ o = "canceling")
    BY <1>1, <1>3, <2>1 DEF CallsCanceller, TypeOK, coroutineVars, poolVars
  <2>3. CASE op[s] = "started" /\ o = "canceling"
    <3>1. OpLeft(op[s]) = 2 /\ OpLeft(o) = 1
      BY <2>3 DEF OpLeft
    <3>2. Left(pc[s], o, handler[s], work[s]) < LeftOf(s)
      BY <3>1, LeftTypes DEF Left, LeftOf
    <3> QED
      BY <1>2, <2>1, <2>2, <2>3, <3>2 DEF Nearer
  <2> QED
    BY <1>2, <2>1, <2>2, <2>3 DEF Unmoved
<1>4. CASE ~CallsCanceller
  BY <1>2, <1>4
     DEF MainNext, Signal, CancelsStatus, Marks, ClearsMark, WaitsFor, LeavesScope,
         ClosesPool, Exits, Unmoved, mainOnly, coroutineVars, awaiterVars, poolVars
<1> QED
  BY <1>3, <1>4

(* A step of a session's own. *)
LEMMA SessionStepLeft ==
  ASSUME IInv, NEW s \in Sessions, SessionNext(s)
  PROVE  /\ Canceled(s) => Canceled(s)' /\ (Unmoved(s) \/ Nearer(s))
         /\ pc[s] = "suspended" /\ op[s] \in Ends =>
              \/ Unmoved(s)
              \/ op'[s] = op[s] /\ pc'[s] \in {"suspended", "resume"} /\ Nearer(s)
<1>1. TypeOK /\ FrameInv(s)
  BY DEF IInv, SessionInv
<1>2. Canceled(s) => Canceled(s)'
  BY <1>1
     DEF SessionNext, ConnectionReceived, FindsEnd, LinksBack, LinksForward,
         CoroutineStep, Begins, Await_transform, Arms, Registers, Decides, Resumes,
         Revokes, Finishes, OperationEnds, OperationCanceled, HandlerStep,
         HandlerStores, HandlerExchanges, HandlerSubmits, PoolCalls, TypeOK, Canceled,
         coroutineVars
<1>3. CASE CoroutineStep(s)
  <2>1. pc[s] # "suspended"
    BY <1>3
       DEF CoroutineStep, Begins, Await_transform, Arms, Registers, Decides, Resumes,
           Revokes, Finishes
  <2> QED
    BY <1>2, <1>3, <2>1, CoroutineLeft
<1>4. CASE OperationEnds(s) \/ OperationCanceled(s) \/ HandlerStep(s) \/ PoolCalls(s)
  BY <1>2, <1>4, HandlerStepLeft
<1>5. CASE FindsEnd(s) \/ LinksBack(s) \/ LinksForward(s)
  BY <1>2, <1>5
     DEF FindsEnd, LinksBack, LinksForward, Unmoved, coroutineVars, awaiterVars, poolVars
<1>6. CASE ConnectionReceived(s)
  <2>1. PICK p : p = pc'[s]
    OBVIOUS
  <2>2. /\ pc[s] = "none" /\ p = "loop"
        /\ op' = op /\ handler' = handler /\ work' = work
    BY <1>1, <1>6, <2>1 DEF ConnectionReceived, FrameInv, TypeOK, awaiterVars, poolVars
  <2>3. PcLeft(pc[s]) = 40 /\ PcLeft(p) = 9
    BY <2>2 DEF PcLeft
  <2>4. Left(p, op[s], handler[s], work[s]) < LeftOf(s)
    BY <2>3, LeftTypes DEF Left, LeftOf
  <2> QED
    BY <1>2, <2>1, <2>2, <2>4 DEF Nearer
<1> QED
  BY <1>3, <1>4, <1>5, <1>6 DEF SessionNext

LEMMA NextLeft == IInv /\ [Next]_vars => EndedGoesOn /\ CancelledRunsDown
<1> SUFFICES ASSUME IInv, [Next]_vars, NEW s \in Sessions
             PROVE  /\ Canceled(s) => Canceled(s)' /\ (Unmoved(s) \/ Nearer(s))
                    /\ pc[s] = "suspended" /\ op[s] \in Ends =>
                         \/ Unmoved(s)
                         \/ /\ op'[s] = op[s] /\ pc'[s] \in {"suspended", "resume"}
                            /\ Nearer(s)
  BY DEF EndedGoesOn, CancelledRunsDown
<1>1. CASE SessionNext(s)
  BY <1>1, SessionStepLeft
<1>2. ASSUME NEW t \in Sessions, t # s, SessionNext(t)
      PROVE  Unmoved(s) /\ status'[s] = status[s]
  BY <1>2, SessionStepIInv DEF OthersUnchanged, Unmoved
<1>3. CASE MainNext
  BY <1>3, MainStepLeft DEF Ends
<1>4. CASE UNCHANGED vars
  BY <1>4 DEF vars, coroutineVars, awaiterVars, poolVars, Unmoved, Canceled
<1> QED
  BY <1>1, <1>2, <1>3, <1>4 DEF Next, Canceled

(* No session is suspended without somebody to continue it: before the end  *)
(* of its operation that has its handler, and from then on the handler or   *)
(* the pool has the coroutine, unless the pool has refused it.              *)
THEOREM SuspendedSessionsAreContinued == Spec => []SomebodyContinues
<1>1. IInv => SomebodyContinues
  BY DEF IInv, TypeOK, SessionInv, ResumerInv, ResultInv, SomebodyContinues
<1> QED
  BY <1>1, ServerInvariant, PTL

(* Once its operation has ended each step of the handler or of the pool     *)
(* brings the session nearer to its resumption, with that very end: neither *)
(* main's Cancel nor another session can put it back.                       *)
THEOREM EndedOperationsResume == Spec => [][EndedGoesOn]_vars
<1>1. IInv /\ [Next]_vars => [EndedGoesOn]_vars
  BY NextLeft
<1> QED
  BY <1>1, ServerInvariant, PTL DEF Spec

(* A cancelled session takes finitely many steps more, wherever the cancel  *)
(* finds it: it may end the await it is in, and begins no other.            *)
THEOREM CancelledSessionsRunDown == Spec => [][CancelledRunsDown]_vars
<1>1. IInv /\ [Next]_vars => [CancelledRunsDown]_vars
  BY NextLeft
<1> QED
  BY <1>1, ServerInvariant, PTL DEF Spec

-------------------------------------------------------------------------------
(* The links of main's list.  A push_back that has linked its node back has *)
(* one before it that was linked back earlier, so going backwards never     *)
(* comes round; and a node leads only to one that has found it at the end.  *)
LinkedBack(s) == callback[s] \in {"linked", "done"}
FoundEnd(s) == callback[s] = "linking" \/ LinkedBack(s)

LinksInv ==
  /\ last \in Sessions => LinkedBack(last)
  /\ \A s \in Sessions : FoundEnd(s) /\ tail[s] \in Sessions => LinkedBack(tail[s])
  /\ \A n \in Nodes : next[n] \in Sessions => LinkedBack(next[n]) /\ tail[next[n]] = n

BackwardsEnds ==
  \A S \in SUBSET Sessions :
    S # {} /\ (\A n \in S : LinkedBack(n)) => \E n \in S : tail[n] \notin S

(* However the push_backs of callbacks race with each other and with main's *)
(* walk, the links of the list never lead round: in each set of sessions    *)
(* there is one to which no session of the set leads.  The list may lose    *)
(* sessions, but main's loop over it comes to its end.                      *)
ListHasNoCycle ==
  \A S \in SUBSET Sessions : S # {} => \E n \in S : \A m \in S : next[m] # n

LEMMA LinksBackKeepsOrder ==
  ASSUME IInv, LinksInv, BackwardsEnds, NEW s \in Sessions, LinksBack(s)
  PROVE  LinksInv' /\ BackwardsEnds'
<1>1. /\ callback[s] = "linking" /\ tail' = tail /\ next' = next
      /\ last' \in {last, s}
  BY DEF LinksBack
<1>2. /\ callback' = [callback EXCEPT ![s] = "linked"]
      /\ DOMAIN callback = Sessions
  BY DEF LinksBack, IInv, TypeOK
<1>3. /\ \A t \in Sessions : LinkedBack(t)' <=> (LinkedBack(t) \/ t = s)
      /\ \A t \in Sessions : FoundEnd(t)' <=> FoundEnd(t)
      /\ ~ LinkedBack(s) /\ FoundEnd(s)
  BY <1>1, <1>2 DEF LinkedBack, FoundEnd
<1>4. \A t \in Sessions : FoundEnd(t) => tail[t] # s
  BY <1>3 DEF LinksInv
<1>5. LinksInv'
  <2>1. (last \in Sessions => LinkedBack(last))'
    BY <1>1, <1>3 DEF LinksInv
  <2>2. (\A t \in Sessions : FoundEnd(t) /\ tail[t] \in Sessions => LinkedBack(tail[t]))'
    BY <1>1, <1>3 DEF LinksInv
  <2>3. (\A n \in Nodes : next[n] \in Sessions => LinkedBack(next[n]) /\ tail[next[n]] = n)'
    BY <1>1, <1>3 DEF LinksInv
  <2> QED
    BY <2>1, <2>2, <2>3 DEF LinksInv
<1>6. ASSUME NEW S \in SUBSET Sessions, S # {}, \A n \in S : LinkedBack(n)'
      PROVE  \E n \in S : tail[n] \notin S
  <2>1. CASE S \subseteq {s}
    BY <1>3, <1>4, <1>6, <2>1
  <2>2. CASE ~ (S \subseteq {s})
    <3>1. /\ S \ {s} \in SUBSET Sessions /\ S \ {s} # {}
          /\ \A n \in S \ {s} : LinkedBack(n)
      BY <1>3, <1>6, <2>2
    <3>2. PICK n \in S \ {s} : tail[n] \notin S \ {s}
      BY <3>1 DEF BackwardsEnds
    <3>3. tail[n] # s
      BY <1>4, <3>1 DEF FoundEnd
    <3> QED
      BY <3>2, <3>3
  <2> QED
    BY <2>1, <2>2
<1> QED
  BY <1>1, <1>5, <1>6 DEF BackwardsEnds

LEMMA FindsEndKeepsOrder ==
  ASSUME IInv, LinksInv, BackwardsEnds, NEW s \in Sessions, FindsEnd(s)
  PROVE  LinksInv' /\ BackwardsEnds'
<1>1. /\ callback[s] = "returned" /\ next' = next /\ last' = last
      /\ tail' = [tail EXCEPT ![s] = last] /\ DOMAIN tail = Sessions
      /\ callback' = [callback EXCEPT ![s] = "linking"] /\ DOMAIN callback = Sessions
  BY DEF FindsEnd, IInv, TypeOK
<1>2. /\ \A t \in Sessions : LinkedBack(t)' <=> LinkedBack(t)
      /\ \A t \in Sessions : FoundEnd(t)' => FoundEnd(t) \/ t = s
      /\ \A t \in Sessions \ {s} : tail'[t] = tail[t]
      /\ ~ LinkedBack(s) /\ tail'[s] = last
  BY <1>1 DEF LinkedBack, FoundEnd
<1>3. LinksInv'
  <2>1. (last \in Sessions => LinkedBack(last))'
    BY <1>1, <1>2 DEF LinksInv
  <2>2. (\A t \in Sessions : FoundEnd(t) /\ tail[t] \in Sessions => LinkedBack(tail[t]))'
    BY <1>1, <1>2 DEF LinksInv
  <2>3. (\A n \in Nodes : next[n] \in Sessions => LinkedBack(next[n]) /\ tail[next[n]] = n)'
    BY <1>1, <1>2 DEF LinksInv
  <2> QED
    BY <2>1, <2>2, <2>3 DEF LinksInv
<1>4. BackwardsEnds'
  BY <1>2 DEF BackwardsEnds
<1> QED
  BY <1>3, <1>4

LEMMA LinksForwardKeepsOrder ==
  ASSUME IInv, LinksInv, BackwardsEnds, NEW s \in Sessions, LinksForward(s)
  PROVE  LinksInv' /\ BackwardsEnds'
<1>1. /\ callback[s] = "linked" /\ tail' = tail /\ last' = last
      /\ callback' = [callback EXCEPT ![s] = "done"] /\ DOMAIN callback = Sessions
      /\ next \in [Nodes -> Nodes]
  BY DEF LinksForward, IInv, TypeOK
<1>2. \A n \in Nodes : next'[n] = next[n] \/ (n = tail[s] /\ next'[n] = s)
  BY <1>1 DEF LinksForward
<1>3. /\ \A t \in Sessions : LinkedBack(t)' <=> LinkedBack(t)
      /\ \A t \in Sessions : FoundEnd(t)' <=> FoundEnd(t)
      /\ LinkedBack(s)
  BY <1>1 DEF LinkedBack, FoundEnd
<1>4. LinksInv'
  <2>1. (last \in Sessions => LinkedBack(last))'
    BY <1>1, <1>3 DEF LinksInv
  <2>2. (\A t \in Sessions : FoundEnd(t) /\ tail[t] \in Sessions => LinkedBack(tail[t]))'
    BY <1>1, <1>3 DEF LinksInv
  <2>3. (\A n \in Nodes : next[n] \in Sessions => LinkedBack(next[n]) /\ tail[next[n]] = n)'
    BY <1>1, <1>2, <1>3 DEF LinksInv
  <2> QED
    BY <2>1, <2>2, <2>3 DEF LinksInv
<1>5. BackwardsEnds'
  BY <1>1, <1>3 DEF BackwardsEnds
<1> QED
  BY <1>4, <1>5

(* The other steps touch neither the links nor a push_back under way. *)
LEMMA OthersKeepOrder ==
  ASSUME LinksInv, BackwardsEnds, tail' = tail, next' = next, last' = last,
         \A t \in Sessions : LinkedBack(t)' <=> LinkedBack(t),
         \A t \in Sessions : FoundEnd(t)' <=> FoundEnd(t)
  PROVE  LinksInv' /\ BackwardsEnds'
<1>1. (last \in Sessions => LinkedBack(last))'
  BY DEF LinksInv
<1>2. (\A t \in Sessions : FoundEnd(t) /\ tail[t] \in Sessions => LinkedBack(tail[t]))'
  BY DEF LinksInv
<1>3. (\A n \in Nodes : next[n] \in Sessions => LinkedBack(next[n]) /\ tail[next[n]] = n)'
  BY DEF LinksInv
<1>4. BackwardsEnds'
  BY DEF BackwardsEnds
<1> QED
  BY <1>1, <1>2, <1>3, <1>4 DEF LinksInv

LEMMA NextKeepsOrder ==
  ASSUME IInv, LinksInv, BackwardsEnds, [Next]_vars
  PROVE  LinksInv' /\ BackwardsEnds'
<1>1. CASE \E s \in Sessions : FindsEnd(s) \/ LinksBack(s) \/ LinksForward(s)
  BY <1>1, FindsEndKeepsOrder, LinksBackKeepsOrder, LinksForwardKeepsOrder
<1>2. ASSUME NEW s \in Sessions,
             \/ ConnectionReceived(s) \/ CoroutineStep(s) \/ OperationEnds(s)
             \/ OperationCanceled(s) \/ HandlerStep(s) \/ PoolCalls(s)
      PROVE  /\ tail' = tail /\ next' = next /\ last' = last
             /\ \A t \in Sessions : LinkedBack(t)' <=> LinkedBack(t)
             /\ \A t \in Sessions : FoundEnd(t)' <=> FoundEnd(t)
  <2>1. /\ tail' = tail /\ next' = next /\ last' = last
    BY <1>2 DEF ConnectionReceived, CoroutineStep, Begins, Await_transform, Arms,
       Registers, Decides, Resumes, Revokes, Finishes, OperationEnds,
       OperationCanceled, HandlerStep, HandlerStores, HandlerExchanges,
       HandlerSubmits, PoolCalls, callbackVars
  <2>2. /\ DOMAIN callback = Sessions
        /\ \/ callback' = callback
           \/ callback[s] = "none" /\ callback' = [callback EXCEPT ![s] = "calling"]
           \/ callback' = [callback EXCEPT ![s] = IF @ = "calling" THEN "returned"
                                                                   ELSE @]
    BY <1>2 DEF ConnectionReceived, CoroutineStep, Begins, Await_transform, Arms,
       Registers, Decides, Resumes, Revokes, Finishes, OperationEnds,
       OperationCanceled, HandlerStep, HandlerStores, HandlerExchanges,
       HandlerSubmits, PoolCalls, callbackVars, ThreadReturns, IInv, TypeOK
  <2> QED
    BY <2>1, <2>2 DEF LinkedBack, FoundEnd
<1>3. CASE MainNext \/ UNCHANGED vars
  <2>1. tail' = tail /\ next' = next /\ last' = last /\ callback' = callback
    BY <1>3 DEF MainNext, Signal, CancelsStatus, Marks, CallsCanceller, ClearsMark,
       WaitsFor, LeavesScope, ClosesPool, Exits, mainOnly, callbackVars, vars
  <2> QED
    BY <2>1, OthersKeepOrder DEF LinkedBack, FoundEnd
<1> QED
  BY <1>1, <1>2, <1>3, OthersKeepOrder DEF Next, SessionNext

(* winrt_server.cpp:114 and :126, sessions appended to by callbacks on the  *)
(* system's threads while main walks it: whatever the races lose, the links *)
(* never lead round, so that the walk ends for any number of connections.   *)
THEOREM RacingPushBacksMakeNoCycle == Spec => []ListHasNoCycle
<1>1. Init => LinksInv /\ BackwardsEnds
  BY HeadAssumption DEF Init, LinksInv, BackwardsEnds, LinkedBack, FoundEnd, Nodes
<1>2. IInv /\ (LinksInv /\ BackwardsEnds) /\ [Next]_vars
        => (LinksInv /\ BackwardsEnds)'
  BY NextKeepsOrder
<1>3. ASSUME LinksInv, BackwardsEnds PROVE ListHasNoCycle
  <2> SUFFICES ASSUME NEW S \in SUBSET Sessions, S # {}
               PROVE  \E n \in S : \A m \in S : next[m] # n
    BY DEF ListHasNoCycle
  <2>1. \A n \in S, m \in S : next[m] = n => LinkedBack(n) /\ tail[n] = m
    BY <1>3 DEF LinksInv, Nodes
  <2> QED
    BY <1>3, <2>1 DEF BackwardsEnds
<1> QED
  BY <1>1, <1>2, <1>3, ServerInvariant, PTL DEF Spec
===============================================================================
