------------------------------ MODULE WinRTServer ------------------------------
(***************************************************************************)
(* The WinRT echo server, winrt/winrt_server.cpp: session coroutines that  *)
(* threadpool_winrt.h resumes on a thread pool of its own, the listener's  *)
(* callback that starts them, and main, which waits for a signal, cancels  *)
(* the sessions and leaves, destroying the pool.                           *)
(*                                                                         *)
(* The coroutine machinery underneath is C++/WinRT's: the promise with its *)
(* status, references and canceller (promise_base, cancellable_promise)    *)
(* and the awaiter with its suspending flag (await_adapter, overridden by  *)
(* pool_awaiter).  A co_await is taken step by step, because main's Cancel *)
(* and the operation's completion handler run in other threads.            *)
(*                                                                         *)
(* Undefined behaviour is given the outcomes that the build can produce:   *)
(* each access to the links of main's list is a step, so that push_backs   *)
(* that race with one another, or with main's walk, lose elements; a       *)
(* canceller called for an awaiter being destroyed cancels nothing or what *)
(* has taken the awaiter's place; a pool that was destroyed runs nothing.  *)
(*                                                                         *)
(* Abstracted: what is read and written, and the sockets.                  *)
(***************************************************************************)
EXTENDS Integers

CONSTANTS Sessions,        \* the connections that the listener receives
          Head             \* the node before the first and after the last
                           \* of main's list

ASSUME HeadAssumption == Head \notin Sessions

Nodes == Sessions \union {Head}

VARIABLES
  (* the session's coroutine and its promise *)
  pc,                 \* the step the coroutine has come to
  then,               \* where it goes on after the awaiter is destroyed
  status,             \* promise_base::m_status
  refs,               \* references to the promise, and so to the frame
  canceller,          \* cancellable_promise::m_canceller
  (* the operation awaited and its awaiter *)
  op,                 \* "none", "started", "canceling", or how it ended
  seen,               \* pool_awaiter::status
  suspending,         \* pool_awaiter::suspending
  handler,            \* the completion handler
  (* the pool *)
  env,                \* "up" or "destroyed"
  work,               \* is a work item queued for the session?
  in_pool,            \* is a pool thread running the session?
  (* the listener's callback and main *)
  callback,           \* the progress of the callback, for each connection
  tail,               \* the node that push_back found at the end
  next,               \* main's list: the nodes' links, and
  last,               \* the head's link to the last node
  main,               \* the step main has come to
  at,                 \* the node that main's loop has come to
  loaded              \* the canceller that cancel() took

coroutineVars == <<pc, then, status, refs, canceller>>
awaiterVars == <<op, seen, suspending, handler>>
poolVars == <<env, work, in_pool>>
callbackVars == <<callback, tail, next, last>>
mainVars == <<main, at, loaded>>
vars == <<coroutineVars, awaiterVars, poolVars, callbackVars, mainVars>>

Ends == {"completed", "failed"}

Init ==
  /\ pc = [s \in Sessions |-> "none"]
  /\ then = [s \in Sessions |-> "loop"]
  /\ status = [s \in Sessions |-> "started"]
  /\ refs = [s \in Sessions |-> 0]
  /\ canceller = [s \in Sessions |-> "null"]
  /\ op = [s \in Sessions |-> "none"]
  /\ seen = [s \in Sessions |-> "started"]
  /\ suspending = [s \in Sessions |-> FALSE]
  /\ handler = [s \in Sessions |-> "none"]
  /\ env = "up"
  /\ work = [s \in Sessions |-> FALSE]
  /\ in_pool = [s \in Sessions |-> FALSE]
  /\ callback = [s \in Sessions |-> "none"]
  /\ tail = [s \in Sessions |-> Head]
  /\ next = [n \in Nodes |-> Head]
  /\ last = Head
  /\ main = "serving" /\ at = Head /\ loaded = "null"

(* The thread that runs the coroutine comes back: a pool thread is free, or *)
(* the listener's callback has the session's return value.                  *)
ThreadReturns(s) ==
  /\ in_pool' = [in_pool EXCEPT ![s] = FALSE]
  /\ callback' = [callback EXCEPT ![s] = IF @ = "calling" THEN "returned" ELSE @]

-------------------------------------------------------------------------------
(* The listener's callback. *)

(* Mutated forms (named ..._Bug here and below) are never part of Next:     *)
(* each is a plausible slip that one of the properties must detect.         *)

ConnectionReceived_OneReferenceBug(s) ==
  /\ main \in {"serving", "clearing", "mark", "call", "clear", "wait"}
  /\ callback[s] = "none"
  /\ callback' = [callback EXCEPT ![s] = "calling"]
  /\ pc' = [pc EXCEPT ![s] = "loop"]
  /\ refs' = [refs EXCEPT ![s] = 1]
  /\ UNCHANGED <<then, status, canceller, awaiterVars, poolVars, tail,
                 next, last, mainVars>>

(* ConnectionReceived: session(env, ...) starts in the callback's thread;   *)
(* one reference is the coroutine's, the other goes to the caller.          *)
ConnectionReceived(s) ==
  /\ main \in {"serving", "clearing", "mark", "call", "clear", "wait"}
  /\ callback[s] = "none"
  /\ callback' = [callback EXCEPT ![s] = "calling"]
  /\ pc' = [pc EXCEPT ![s] = "loop"]
  /\ refs' = [refs EXCEPT ![s] = 2]
  /\ UNCHANGED <<then, status, canceller, awaiterVars, poolVars, tail,
                 next, last, mainVars>>

(* sessions.push_back, which nothing protects from other callbacks: it      *)
(* finds the last node, makes its own node the head's last one, and then    *)
(* the successor of the node that it found.  A list that main has destroyed *)
(* keeps nothing.                                                           *)
ListExists == main \notin {"closing", "leaving", "exited"}

FindsEnd(s) ==
  /\ callback[s] = "returned"
  /\ callback' = [callback EXCEPT ![s] = "linking"]
  /\ tail' = [tail EXCEPT ![s] = last]
  /\ UNCHANGED <<coroutineVars, awaiterVars, poolVars, next, last, mainVars>>

LinksBack(s) ==
  /\ callback[s] = "linking"
  /\ callback' = [callback EXCEPT ![s] = "linked"]
  /\ last' = IF ListExists THEN s ELSE last
  /\ UNCHANGED <<coroutineVars, awaiterVars, poolVars, tail, next, mainVars>>

LinksForward(s) ==
  /\ callback[s] = "linked"
  /\ callback' = [callback EXCEPT ![s] = "done"]
  /\ next' = IF ListExists THEN [next EXCEPT ![tail[s]] = s] ELSE next
  /\ UNCHANGED <<coroutineVars, awaiterVars, poolVars, tail, last, mainVars>>

(* What can be reached from the head of the list: the smallest set with its *)
(* first node and the successor of each of its own.                         *)
Listed ==
  {s \in Sessions :
     \A S \in SUBSET Nodes :
       next[Head] \in S /\ (\A n \in S \ {Head} : next[n] \in S) => s \in S}

-------------------------------------------------------------------------------
(* The session's coroutine. *)

Canceled(s) == status[s] = "canceled"

(* `while (!cancel())`, then ReadAsync; or WriteAsync after a read.         *)
Begins(s) ==
  /\ pc[s] \in {"loop", "write"}
  /\ IF pc[s] = "loop" /\ Canceled(s)
       THEN /\ pc' = [pc EXCEPT ![s] = "close"]
            /\ then' = [then EXCEPT ![s] = "close"]
            /\ UNCHANGED op
       ELSE /\ pc' = [pc EXCEPT ![s] = "transform"]
            /\ then' = [then EXCEPT ![s] = IF pc[s] = "loop" THEN "write"
                                                             ELSE "loop"]
            /\ op' = [op EXCEPT ![s] = "started"]
  /\ UNCHANGED <<status, refs, canceller, seen, suspending, handler,
                 poolVars, callbackVars, mainVars>>

Await_transform_NoCheckBug(s) ==
  /\ pc[s] = "transform"
  /\ pc' = [pc EXCEPT ![s] = "arm"]
  /\ UNCHANGED <<then, status, refs, canceller, awaiterVars, poolVars,
                 callbackVars, mainVars>>

(* promise_base::await_transform throws in a coroutine that was cancelled;  *)
(* the operation it was given is abandoned.                                 *)
Await_transform(s) ==
  /\ pc[s] = "transform"
  /\ IF Canceled(s)
       THEN /\ pc' = [pc EXCEPT ![s] = "close"]
            /\ then' = [then EXCEPT ![s] = "close"]
            /\ op' = [op EXCEPT ![s] = "none"]
       ELSE /\ pc' = [pc EXCEPT ![s] = "arm"]
            /\ UNCHANGED <<then, op>>
  /\ UNCHANGED <<status, refs, canceller, seen, suspending, handler, poolVars,
                 callbackVars, mainVars>>

(* await_suspend, first: set_canceller. *)
Arms(s) ==
  /\ pc[s] = "arm"
  /\ pc' = [pc EXCEPT ![s] = "register"]
  /\ canceller' = [canceller EXCEPT ![s] = "set"]
  /\ seen' = [seen EXCEPT ![s] = "started"]
  /\ suspending' = [suspending EXCEPT ![s] = TRUE]
  /\ UNCHANGED <<then, status, refs, op, handler, poolVars,
                 callbackVars, mainVars>>

(* Then async.Completed(handler): an operation that has ended calls it now. *)
Registers(s) ==
  /\ pc[s] = "register"
  /\ pc' = [pc EXCEPT ![s] = "decide"]
  /\ handler' = [handler EXCEPT ![s] = IF op[s] \in Ends THEN "called"
                                                        ELSE "assigned"]
  /\ UNCHANGED <<then, status, refs, canceller, op, seen,
                 suspending, poolVars, callbackVars, mainVars>>

Decides_LoadBug(s) ==
  /\ pc[s] = "decide"
  /\ IF suspending[s]
       THEN /\ pc' = [pc EXCEPT ![s] = "suspended"]
            /\ ThreadReturns(s)
       ELSE /\ pc' = [pc EXCEPT ![s] = "resume"]
            /\ UNCHANGED <<in_pool, callback>>
  /\ UNCHANGED <<then, status, refs, canceller, op, seen,
                 suspending, handler, env, work, tail, next, last,
                 mainVars>>

Decides_InvertedBug(s) ==
  /\ pc[s] = "decide"
  /\ suspending' = [suspending EXCEPT ![s] = FALSE]
  /\ IF ~suspending[s]
       THEN /\ pc' = [pc EXCEPT ![s] = "suspended"]
            /\ ThreadReturns(s)
       ELSE /\ pc' = [pc EXCEPT ![s] = "resume"]
            /\ UNCHANGED <<in_pool, callback>>
  /\ UNCHANGED <<then, status, refs, canceller, op, seen, handler, env, work,
                 tail, next, last,
                 mainVars>>

(* And last suspending.exchange(false): suspend, unless the handler has     *)
(* been there already.                                                      *)
Decides(s) ==
  /\ pc[s] = "decide"
  /\ suspending' = [suspending EXCEPT ![s] = FALSE]
  /\ IF suspending[s]
       THEN /\ pc' = [pc EXCEPT ![s] = "suspended"]
            /\ ThreadReturns(s)
       ELSE /\ pc' = [pc EXCEPT ![s] = "resume"]
            /\ UNCHANGED <<in_pool, callback>>
  /\ UNCHANGED <<then, status, refs, canceller, op, seen,
                 handler, env, work, tail, next, last,
                 mainVars>>

(* await_resume: a cancelled or failed operation throws, and so does the    *)
(* session when it has read nothing.  The awaiter's async goes first.       *)
Resumes(s) ==
  /\ pc[s] = "resume"
  /\ pc' = [pc EXCEPT ![s] = "revoke"]
  /\ \E goes \in IF seen[s] # "completed" THEN {"close"}
                 ELSE IF then[s] = "write" THEN {"write", "close"} ELSE {"loop"} :
       then' = [then EXCEPT ![s] = goes]
  /\ op' = [op EXCEPT ![s] = "none"]
  /\ seen' = [seen EXCEPT ![s] = "started"]
  /\ UNCHANGED <<status, refs, canceller, suspending, handler, poolVars,
                 callbackVars, mainVars>>

(* revoke_canceller: exchange(nullptr), until it does not find a cancel().  *)
Revokes(s) ==
  /\ pc[s] = "revoke"
  /\ canceller' = [canceller EXCEPT ![s] = "null"]
  /\ pc' = [pc EXCEPT ![s] = IF canceller[s] = "cancelling" THEN "revoke"
                                                           ELSE then[s]]
  /\ UNCHANGED <<then, status, refs, awaiterVars, poolVars, callbackVars, mainVars>>

(* socket.Close() and the coroutine's end: final_suspend sets the status,   *)
(* unless it was cancelled, and gives the coroutine's own reference back.   *)
(* Who gives the last one back destroys the frame.                          *)
Finishes(s) ==
  /\ pc[s] = "close"
  /\ pc' = [pc EXCEPT ![s] = "done"]
  /\ status' = [status EXCEPT ![s] = IF @ = "started" THEN "completed" ELSE @]
  /\ refs' = [refs EXCEPT ![s] = @ - 1]
  /\ ThreadReturns(s)
  /\ UNCHANGED <<then, canceller, awaiterVars, env, work, tail, next, last,
                 mainVars>>

-------------------------------------------------------------------------------
(* The operation and its completion handler, in a thread of the system. *)

Called(s) == handler' = [handler EXCEPT ![s] = IF @ = "assigned" THEN "called" ELSE @]

OperationEnds(s) ==
  /\ op[s] \in {"started", "canceling"}
  /\ \E end \in Ends : op' = [op EXCEPT ![s] = end]
  /\ Called(s)
  /\ UNCHANGED <<coroutineVars, seen, suspending, poolVars,
                 callbackVars, mainVars>>

OperationCanceled(s) ==
  /\ op[s] = "canceling"
  /\ op' = [op EXCEPT ![s] = "failed"]
  /\ Called(s)
  /\ UNCHANGED <<coroutineVars, seen, suspending, poolVars,
                 callbackVars, mainVars>>

(* The handler keeps the status, *)
HandlerStores(s) ==
  /\ handler[s] = "called"
  /\ handler' = [handler EXCEPT ![s] = "stored"]
  /\ seen' = [seen EXCEPT ![s] = op[s]]
  /\ UNCHANGED <<coroutineVars, op, suspending, poolVars, callbackVars, mainVars>>

HandlerExchanges_InvertedBug(s) ==
  /\ handler[s] = "stored"
  /\ suspending' = [suspending EXCEPT ![s] = FALSE]
  /\ handler' = [handler EXCEPT ![s] = IF suspending[s] THEN "submit" ELSE "none"]
  /\ UNCHANGED <<coroutineVars, op, seen, poolVars, callbackVars, mainVars>>

(* and then takes the flag: await_suspend is still to look and will go on,  *)
(* or the coroutine is suspended and has to be submitted.                   *)
HandlerExchanges(s) ==
  /\ handler[s] = "stored"
  /\ suspending' = [suspending EXCEPT ![s] = FALSE]
  /\ handler' = [handler EXCEPT ![s] = IF suspending[s] THEN "none" ELSE "submit"]
  /\ UNCHANGED <<coroutineVars, op, seen, poolVars, callbackVars, mainVars>>

(* TrySubmitThreadpoolCallback; a refusal is thrown into the operation, and *)
(* nobody resumes the coroutine any more.                                   *)
HandlerSubmits(s) ==
  /\ handler[s] = "submit"
  /\ \/ /\ env = "up"
        /\ work' = [work EXCEPT ![s] = TRUE]
        /\ handler' = [handler EXCEPT ![s] = "none"]
     \/ /\ handler' = [handler EXCEPT ![s] = "refused"]
        /\ UNCHANGED work
  /\ UNCHANGED <<coroutineVars, op, seen, suspending, env,
                 in_pool, callbackVars, mainVars>>

(* threadpool_callback: the handle, called. *)
PoolCalls(s) ==
  /\ work[s]
  /\ work' = [work EXCEPT ![s] = FALSE]
  /\ in_pool' = [in_pool EXCEPT ![s] = TRUE]
  /\ pc' = [pc EXCEPT ![s] = "resume"]
  /\ UNCHANGED <<then, status, refs, canceller, awaiterVars, env, callbackVars,
                 mainVars>>

-------------------------------------------------------------------------------
(* main. *)

mainOnly == <<coroutineVars, awaiterVars, poolVars, callbackVars>>

Signal ==
  /\ main = "serving"
  /\ main' = "clearing"
  /\ at' = next[Head]
  /\ UNCHANGED <<mainOnly, loaded>>

(* promise_base::Cancel: the status, under the promise's lock, and then     *)
(* cancellable_promise::cancel.                                             *)
CancelsStatus ==
  /\ main = "clearing" /\ at # Head
  /\ main' = "mark"
  /\ status' = [status EXCEPT ![at] = IF @ = "started" THEN "canceled" ELSE @]
  /\ UNCHANGED <<pc, then, refs, canceller, awaiterVars, poolVars, callbackVars,
                 at, loaded>>

(* cancel(): m_canceller.exchange(cancelling_ptr), *)
Marks ==
  /\ main = "mark"
  /\ main' = "call"
  /\ loaded' = canceller[at]
  /\ canceller' = [canceller EXCEPT ![at] = "cancelling"]
  /\ UNCHANGED <<pc, then, status, refs, awaiterVars, poolVars, callbackVars, at>>

(* a call of what was there, which has the operation cancelled in the       *)
(* background; the awaiter that it is called with may be gone by now,       *)
AwaiterExists(s) == pc[s] \in {"register", "decide", "suspended", "resume"}

CallsCanceller ==
  /\ main = "call"
  /\ main' = "clear"
  /\ IF loaded # "set" \/ op[at] # "started"
       THEN UNCHANGED op
       ELSE \E hit \in IF AwaiterExists(at) THEN {"canceling"}
                                           ELSE {"canceling", "started"} :
              op' = [op EXCEPT ![at] = hit]
  /\ loaded' = "null"
  /\ UNCHANGED <<coroutineVars, seen, suspending, handler, poolVars,
                 callbackVars, at>>

(* and m_canceller.store(nullptr). *)
ClearsMark ==
  /\ main = "clear"
  /\ main' = "wait"
  /\ canceller' = [canceller EXCEPT ![at] = "null"]
  /\ UNCHANGED <<pc, then, status, refs, awaiterVars, poolVars, callbackVars,
                 at, loaded>>

(* wait_for sets a Completed handler and waits for its event.  The promise  *)
(* calls the handler at once when its status is not "started" any more.     *)
WaitsFor ==
  /\ main = "wait"
  /\ status[at] # "started"
  /\ main' = "clearing"
  /\ at' = next[at]
  /\ UNCHANGED <<mainOnly, loaded>>

(* The end of the scope: the revoker, the list with its references, the     *)
(* listener,                                                                *)
LeavesScope ==
  /\ main = "clearing" /\ at = Head
  /\ main' = "closing"
  /\ refs' = [s \in Sessions |-> IF s \in Listed THEN refs[s] - 1 ELSE refs[s]]
  /\ UNCHANGED <<pc, then, status, canceller, awaiterVars, poolVars,
                 callbackVars, at, loaded>>

(* and ~environment, which waits for the callbacks that are queued or       *)
(* running in the pool.                                                     *)
ClosesPool ==
  /\ main = "closing"
  /\ \A s \in Sessions : ~work[s] /\ ~in_pool[s]
  /\ main' = "leaving"
  /\ env' = "destroyed"
  /\ UNCHANGED <<coroutineVars, awaiterVars, work, in_pool, callbackVars, at,
                 loaded>>

(* uninit_apartment, and the end of the process. *)
Exits ==
  /\ main = "leaving"
  /\ main' = "exited"
  /\ UNCHANGED <<mainOnly, at, loaded>>

CoroutineStep(s) ==
  \/ Begins(s)
  \/ Await_transform(s)
  \/ Arms(s)
  \/ Registers(s)
  \/ Decides(s)
  \/ Resumes(s)
  \/ Revokes(s)
  \/ Finishes(s)

HandlerStep(s) ==
  \/ HandlerStores(s)
  \/ HandlerExchanges(s)
  \/ HandlerSubmits(s)

SessionNext(s) ==
  \/ ConnectionReceived(s)
  \/ FindsEnd(s)
  \/ LinksBack(s)
  \/ LinksForward(s)
  \/ CoroutineStep(s)
  \/ OperationEnds(s)
  \/ OperationCanceled(s)
  \/ HandlerStep(s)
  \/ PoolCalls(s)

MainNext ==
  \/ Signal
  \/ CancelsStatus
  \/ Marks
  \/ CallsCanceller
  \/ ClearsMark
  \/ WaitsFor
  \/ LeavesScope
  \/ ClosesPool
  \/ Exits

Next ==
  \/ main # "exited" /\ \E s \in Sessions : SessionNext(s)
  \/ MainNext

Spec == Init /\ [][Next]_vars

(* A thread that runs a coroutine, a completion handler or a work item goes *)
(* on, and the system ends an operation that was cancelled.  No other       *)
(* operation has to end, and nobody has to signal.                          *)
Fairness ==
  \A s \in Sessions :
    /\ WF_vars(main # "exited" /\ CoroutineStep(s))
    /\ WF_vars(main # "exited" /\ HandlerStep(s))
    /\ WF_vars(main # "exited" /\ PoolCalls(s))
    /\ WF_vars(main # "exited" /\ OperationCanceled(s))

FairSpec == Spec /\ Fairness

-------------------------------------------------------------------------------
TypeOK ==
  /\ pc \in [Sessions -> {"none", "loop", "write", "transform", "arm", "register",
                          "decide", "suspended", "resume", "revoke", "close",
                          "done"}]
  /\ then \in [Sessions -> {"loop", "write", "close"}]
  /\ status \in [Sessions -> {"started", "completed", "canceled"}]
  /\ refs \in [Sessions -> 0..2]
  /\ canceller \in [Sessions -> {"null", "set", "cancelling"}]
  /\ op \in [Sessions -> {"none", "started", "canceling"} \union Ends]
  /\ seen \in [Sessions -> {"started"} \union Ends]
  /\ suspending \in [Sessions -> BOOLEAN]
  /\ handler \in [Sessions -> {"none", "assigned", "called", "stored", "submit",
                               "refused"}]
  /\ env \in {"up", "destroyed"}
  /\ work \in [Sessions -> BOOLEAN]
  /\ in_pool \in [Sessions -> BOOLEAN]
  /\ callback \in [Sessions -> {"none", "calling", "returned", "linking", "linked",
                                "done"}]
  /\ tail \in [Sessions -> Nodes]
  /\ next \in [Nodes -> Nodes]
  /\ last \in Nodes
  /\ main \in {"serving", "clearing", "mark", "call", "clear", "wait", "closing",
               "leaving", "exited"}
  /\ at \in Nodes
  /\ loaded \in {"null", "set", "cancelling"}

(* Whatever the order in which await_suspend and the completion handler     *)
(* come to the flag, one of them continues the coroutine, once: a suspended *)
(* coroutine has a handler to come or a work item queued, not both, and a   *)
(* running one has neither.                                                 *)
OneResumer ==
  \A s \in Sessions :
    CASE pc[s] = "suspended" -> ~work[s] <=> handler[s] # "none"
      [] pc[s] = "decide" ->
           /\ ~work[s]
           /\ suspending[s] <=> handler[s] \in {"assigned", "called", "stored"}
           /\ handler[s] \notin {"submit", "refused"}
      [] OTHER -> ~work[s] /\ handler[s] = "none"

(* The frame, with the promise in it, lives while its coroutine has not     *)
(* come to its end or main's list refers to it: neither main, which         *)
(* destroys the list with sessions suspended, nor final_suspend takes it    *)
(* from the other.                                                          *)
FrameOutlivesUsers ==
  \A s \in Sessions :
    LET running == pc[s] \notin {"none", "done"}
        listed  == ListExists /\ s \in Listed
    IN  refs[s] >= (IF running THEN 1 ELSE 0) + (IF listed THEN 1 ELSE 0)

(* The pool awaiter keeps the promise of Resumption: nothing is resumed     *)
(* before its operation has ended, or after its end.                        *)
Awaiting(s) == pc[s] \in {"register", "decide", "suspended"}

R == INSTANCE Resumption WITH
       Coroutines <- Sessions,
       coro <- [s \in Sessions |-> IF Awaiting(s) THEN "awaiting"
                                   ELSE IF pc[s] = "done" THEN "finished"
                                   ELSE "running"],
       ready <- [s \in Sessions |-> Awaiting(s) /\ op[s] \in Ends],
       loop <- [s \in Sessions |-> IF env = "up" THEN "up" ELSE "down"]

ImplementsResumption == R!ResumptionSpec

(* A session whose operation has ended goes on, whichever thread was the    *)
(* first at the flag, unless the pool refuses it or the process ends first. *)
NoLostResumption ==
  \A s \in Sessions :
    pc[s] = "suspended" /\ op[s] \in Ends ~>
      pc[s] # "suspended" \/ handler[s] = "refused" \/ main = "exited"

(* A session whose Cancel has reached the operation it is suspended on, or  *)
(* found it ended, runs to its end without awaiting anything new.           *)
CancelledSessionEnds ==
  \A s \in Sessions :
    Canceled(s) /\ pc[s] = "suspended" /\ op[s] # "started" ~>
      pc[s] = "done" \/ handler[s] = "refused" \/ main = "exited"

(* winrt_server.cpp, "Clear sessions": by the time the pool is destroyed    *)
(* the sessions that run on it have ended.                                  *)
PoolOutlivesSessions ==
  env = "destroyed" =>
    \A s \in Listed : pc[s] = "done"
===============================================================================
