----------------------------- MODULE AsioAwaiters -----------------------------
(***************************************************************************)
(* The ways in which the samples resume a coroutine when an asynchronous   *)
(* operation has ended, and what becomes of the coroutine when the         *)
(* io_service is stopped and destroyed first.                              *)
(*                                                                         *)
(*   "callback"  Gor/include/await_adapters.h: the operation's handler is  *)
(*               a lambda with a copy of the coroutine's handle.           *)
(*   "guarded"   Gor/stop1.cpp: the handler is a Callback object, whose    *)
(*               destructor resumes the coroutine if nobody has.           *)
(*   "polling"   Gor/include/asio_future_await.h: the handler sets a       *)
(*               future, and a timer looks at the future.                  *)
(*   "threaded"  basics/future/future.cpp: a detached thread waits for the *)
(*               future and resumes; no io_service is involved.            *)
(*                                                                         *)
(* Every coroutine has the promise of future_adapter.h (or its equal in    *)
(* future.cpp): it starts at once, its frame is destroyed when it ends,    *)
(* and what it ends with is put in a std::future.  The body is any body:   *)
(* after an await it may await again or return, and a failed await ends it,*)
(* caught or not.  The awaiter is part of the frame, with the memory that  *)
(* handler_allocator lends to asio for the operation.                      *)
(*                                                                         *)
(* io_service::run is called by any number of threads, so that handlers of *)
(* different coroutines interleave; a handler, or a coroutine between two  *)
(* suspensions, is one action where nothing of another thread can come     *)
(* between.                                                                *)
(***************************************************************************)
EXTENDS Integers

CONSTANTS Coroutines,
          Kind             \* of each coroutine

Kinds == {"callback", "guarded", "polling", "threaded"}

ASSUME KindAssumption == Kind \in [Coroutines -> Kinds]

VARIABLES
  io,                 \* "running", "stopped" or "destroyed"
  coro,               \* "running", "asking" (after await_ready was called),
                      \* "suspending" (about to call await_suspend),
                      \* "suspended", "finished" (the frame is gone)
  ec,                 \* what the last await ended with: the awaiter's member
  op,                 \* the asynchronous operation
  holders,            \* the handler objects that hold the coroutine's handle
  memory,             \* where the operation's memory is
  in_use,             \* handler_allocator::in_use_
  future,             \* the future that a polling or threaded awaiter keeps
  waiter,             \* the timer or the thread that looks at it
  result              \* the future of the coroutine itself

vars == <<io, coro, ec, op, holders, memory, in_use, future, waiter, result>>

frame == <<coro, ec, result>>
handler == <<holders, memory, in_use>>

OnLoop(c) == Kind[c] # "threaded"
UsesHandler(c) == Kind[c] \in {"callback", "guarded"}
UsesFuture(c) == Kind[c] \in {"polling", "threaded"}

Init ==
  /\ io = "running"
  /\ coro = [c \in Coroutines |-> "running"]
  /\ ec = [c \in Coroutines |-> "ok"]
  /\ op = [c \in Coroutines |-> "none"]
  /\ holders = [c \in Coroutines |-> {}]
  /\ memory = [c \in Coroutines |-> "none"]
  /\ in_use = [c \in Coroutines |-> FALSE]
  /\ future = [c \in Coroutines |-> "invalid"]
  /\ waiter = [c \in Coroutines |-> "none"]
  /\ result = [c \in Coroutines |-> "empty"]

-------------------------------------------------------------------------------
(* handler_allocator. *)

(* Mutated forms (named ..._Bug here and below) are never part of Next:     *)
(* each is a plausible slip that one of the properties must detect.         *)

(* allocate: the storage, unless it is in use or too small. *)
allocate(used, size) ==
  IF ~used /\ size = "fits" THEN "storage" ELSE "heap"

deallocate_KeepsBug(used, where) == used

(* deallocate: in_use_ after freeing a block of the storage or of the heap. *)
deallocate(used, where) ==
  IF where = "storage" THEN FALSE ELSE used

Sizes == {"fits", "exceeds"}             \* 1024 bytes

(* asio allocates an operation with its handler's allocator, and frees it   *)
(* before it calls the handler.                                             *)
Lends(c, used, size) ==
  LET where == allocate(used, size) IN
  /\ memory' = [memory EXCEPT ![c] = where]
  /\ in_use' = [in_use EXCEPT ![c] = used \/ where = "storage"]

Frees(c) ==
  /\ memory' = [memory EXCEPT ![c] = "none"]
  /\ in_use' = [in_use EXCEPT ![c] = deallocate(@, memory[c])]

-------------------------------------------------------------------------------
(* Handler objects.  Only a Callback has a destructor that does something;  *)
(* a lambda "holds" the handle in the object that will be called.           *)

Moved_CopyBug(held, from, to) == IF from \in held THEN held \union {to} ELSE held

(* The move constructor leaves a null handle behind. *)
Moved(held, from, to) ==
  IF from \in held THEN (held \ {from}) \union {to} ELSE held

Called_NoResetBug(held) == held

(* operator() clears its own handle before it resumes. *)
Called(held) == held \ {"upcall"}

(* await_suspend: the operation takes the handler over from the argument.   *)
AwaitOperation(c) ==
  /\ UsesHandler(c)
  /\ coro[c] = "running" /\ ec[c] = "ok"
  /\ coro' = [coro EXCEPT ![c] = "suspended"]
  /\ ec' = [ec EXCEPT ![c] = "unset"]
  /\ op' = [op EXCEPT ![c] = "pending"]
  /\ holders' = [holders EXCEPT ![c] =
                   @ \union Moved({"argument"}, "argument", "operation")]
  /\ IF Kind[c] = "callback"
       THEN \E size \in Sizes : Lends(c, in_use[c], size)
       ELSE UNCHANGED <<memory, in_use>>
  /\ UNCHANGED <<io, future, waiter, result>>

(* The operation ends; a composed write may still have bytes to write.      *)
OperationEnds(c) ==
  /\ op[c] = "pending"
  /\ \E end \in {"ok", "error"} \union
                (IF Kind[c] = "callback" THEN {"partial"} ELSE {}) :
       op' = [op EXCEPT ![c] = end]
  /\ UNCHANGED <<io, frame, handler, future, waiter>>

(* async_write's own handler writes the rest, with the same allocator.      *)
WriteGoesOn(c) ==
  /\ io = "running"
  /\ op[c] = "partial"
  /\ op' = [op EXCEPT ![c] = "pending"]
  /\ \E size \in Sizes : Lends(c, deallocate(in_use[c], memory[c]), size)
  /\ UNCHANGED <<io, frame, holders, future, waiter>>

(* The handler: store the result in the awaiter, resume. *)
RunHandler(c) ==
  /\ io = "running"
  /\ UsesHandler(c) /\ op[c] \in {"ok", "error"}
  /\ op' = [op EXCEPT ![c] = "none"]
  /\ Frees(c)
  /\ holders' = [holders EXCEPT ![c] = Called(Moved(@, "operation", "upcall"))]
  /\ ec' = [ec EXCEPT ![c] = op[c]]
  /\ coro' = [coro EXCEPT ![c] = "running"]
  /\ UNCHANGED <<io, future, waiter, result>>

-------------------------------------------------------------------------------
(* Futures. *)

Ready(c) == future[c] \in {"ok", "error"}

(* An operation with use_future, or std::async; then the awaiter is made.   *)
AwaitFuture(c) ==
  /\ UsesFuture(c)
  /\ coro[c] = "running" /\ ec[c] = "ok"
  /\ coro' = [coro EXCEPT ![c] = "asking"]
  /\ ec' = [ec EXCEPT ![c] = "unset"]
  /\ op' = [op EXCEPT ![c] = "pending"]
  /\ future' = [future EXCEPT ![c] = "pending"]
  /\ UNCHANGED <<io, handler, waiter, result>>

(* The handler that use_future makes runs in the loop; a task of std::async *)
(* sets its future in its own thread.                                       *)
SetFuture(c) ==
  /\ UsesFuture(c) /\ op[c] \in {"ok", "error"}
  /\ OnLoop(c) => io = "running"
  /\ future' = [future EXCEPT ![c] = op[c]]
  /\ op' = [op EXCEPT ![c] = "none"]
  /\ UNCHANGED <<io, frame, handler, waiter>>

(* Resumed with what the future holds; await_resume takes it out.           *)
Gets(c) ==
  /\ coro' = [coro EXCEPT ![c] = "running"]
  /\ ec' = [ec EXCEPT ![c] = future[c]]
  /\ future' = [future EXCEPT ![c] = "invalid"]
  /\ waiter' = [waiter EXCEPT ![c] = "none"]

await_ready(c) ==
  /\ coro[c] = "asking"
  /\ IF Ready(c)
       THEN Gets(c)
       ELSE /\ coro' = [coro EXCEPT ![c] = "suspending"]
            /\ UNCHANGED <<ec, future, waiter>>
  /\ UNCHANGED <<io, op, handler, result>>

resume_or_wait_OnceBug(c) ==
  IF Ready(c)
    THEN Gets(c)
    ELSE /\ coro' = [coro EXCEPT ![c] = "suspended"]
         /\ waiter' = [waiter EXCEPT ![c] = IF coro[c] = "suspended" THEN "none"
                                                                    ELSE "timer"]
         /\ UNCHANGED <<ec, future>>

(* asio_future_awaiter::resume_or_wait, called by await_suspend and by the  *)
(* timer.                                                                   *)
resume_or_wait(c) ==
  IF Ready(c)
    THEN Gets(c)
    ELSE /\ coro' = [coro EXCEPT ![c] = "suspended"]
         /\ waiter' = [waiter EXCEPT ![c] = "timer"]
         /\ UNCHANGED <<ec, future>>

await_suspend(c) ==
  /\ coro[c] = "suspending"
  /\ \/ /\ Kind[c] = "polling"
        /\ resume_or_wait(c)
     \/ /\ Kind[c] = "threaded"            \* std::thread(...).detach()
        /\ coro' = [coro EXCEPT ![c] = "suspended"]
        /\ waiter' = [waiter EXCEPT ![c] = "thread"]
        /\ UNCHANGED <<ec, future>>
  /\ UNCHANGED <<io, op, handler, result>>

TimerExpires(c) ==
  /\ waiter[c] = "timer"
  /\ waiter' = [waiter EXCEPT ![c] = "expired"]
  /\ UNCHANGED <<io, frame, op, handler, future>>

Tick(c) ==
  /\ io = "running"
  /\ waiter[c] = "expired"
  /\ resume_or_wait(c)
  /\ UNCHANGED <<io, op, handler, result>>

ThreadResumes_NoWaitBug(c) ==
  /\ waiter[c] = "thread"
  /\ Gets(c)
  /\ UNCHANGED <<io, op, handler, result>>

(* The detached thread: wait, then cont(). *)
ThreadResumes(c) ==
  /\ waiter[c] = "thread"
  /\ Ready(c)
  /\ Gets(c)
  /\ UNCHANGED <<io, op, handler, result>>

-------------------------------------------------------------------------------
(* The promise: return_void, return_value or unhandled_exception, and the   *)
(* frame destroyed by final_suspend.  Some bodies catch what await_resume   *)
(* throws (server.cpp, stop1.cpp), others do not (easy.cpp).                *)
Finish(c) ==
  /\ coro[c] = "running"
  /\ \E r \in IF ec[c] = "ok" THEN {"value"} ELSE {"value", "exception"} :
       result' = [result EXCEPT ![c] = r]
  /\ coro' = [coro EXCEPT ![c] = "finished"]
  /\ UNCHANGED <<io, ec, op, handler, future, waiter>>

-------------------------------------------------------------------------------
(* The io_service. *)

(* io_service::stop, from the handler of a signal or of a timer: the        *)
(* threads leave run() after the handler they are in.                       *)
Stop ==
  /\ io = "running"
  /\ io' = "stopped"
  /\ UNCHANGED <<frame, op, handler, future, waiter>>

ResumedByDestructor_NeverBug(c) == FALSE

(* ~Callback resumes the coroutine, with operation_aborted, if its handle   *)
(* has not been moved or used.  ~lambda does not.                           *)
ResumedByDestructor(c) == Kind[c] = "guarded" /\ "operation" \in holders[c]

(* ~io_service: main has joined its threads.  What is left of operations,   *)
(* handlers and timers is destroyed, none of it is called.  A coroutine     *)
(* that a destructor resumes finds its loop's exception and returns.        *)
Destroy ==
  /\ io = "stopped"
  /\ \A c \in Coroutines : OnLoop(c) => coro[c] \in {"suspended", "finished"}
  /\ io' = "destroyed"
  /\ coro' = [c \in Coroutines |->
               IF ResumedByDestructor(c) THEN "finished" ELSE coro[c]]
  /\ ec' = [c \in Coroutines |->
               IF ResumedByDestructor(c) THEN "aborted" ELSE ec[c]]
  /\ result' = [c \in Coroutines |->
               IF ResumedByDestructor(c) THEN "value" ELSE result[c]]
  /\ op' = [c \in Coroutines |-> IF OnLoop(c) THEN "none" ELSE op[c]]
  /\ holders' = [c \in Coroutines |-> {}]
  /\ memory' = [c \in Coroutines |-> "none"]
  /\ in_use' = [c \in Coroutines |-> deallocate(in_use[c], memory[c])]
  /\ future' = [c \in Coroutines |->            \* a broken promise
                IF OnLoop(c) /\ op[c] # "none" /\ UsesFuture(c) THEN "error"
                                                               ELSE future[c]]
  /\ waiter' = [c \in Coroutines |-> IF OnLoop(c) THEN "none" ELSE waiter[c]]

CoroutineNext(c) ==
  \/ AwaitOperation(c)
  \/ OperationEnds(c)
  \/ WriteGoesOn(c)
  \/ RunHandler(c)
  \/ AwaitFuture(c)
  \/ SetFuture(c)
  \/ await_ready(c)
  \/ await_suspend(c)
  \/ TimerExpires(c)
  \/ Tick(c)
  \/ ThreadResumes(c)
  \/ Finish(c)

Next ==
  \/ Stop
  \/ Destroy
  \/ \E c \in Coroutines : CoroutineNext(c)

Spec == Init /\ [][Next]_vars

(* Threads in run() execute handlers that are ready, timers expire and a    *)
(* detached thread is scheduled.  No operation has to end, and no program   *)
(* has to be stopped.                                                       *)
Fairness ==
  \A c \in Coroutines :
    /\ WF_vars(RunHandler(c))
    /\ WF_vars(TimerExpires(c))
    /\ WF_vars(Tick(c))
    /\ WF_vars(ThreadResumes(c))
    /\ WF_vars(await_ready(c))
    /\ WF_vars(await_suspend(c))

FairSpec == Spec /\ Fairness

-------------------------------------------------------------------------------
(* Type correctness.  No object is left that holds a handle after a move or *)
(* a call: an argument and an object being called never outlive the action. *)
TypeOK ==
  /\ io \in {"running", "stopped", "destroyed"}
  /\ coro \in [Coroutines ->
               {"running", "asking", "suspending", "suspended", "finished"}]
  /\ ec \in [Coroutines -> {"unset", "ok", "error", "aborted"}]
  /\ op \in [Coroutines -> {"none", "pending", "partial", "ok", "error"}]
  /\ holders \in [Coroutines -> SUBSET {"operation"}]
  /\ memory \in [Coroutines -> {"none", "storage", "heap"}]
  /\ in_use \in [Coroutines -> BOOLEAN]
  /\ future \in [Coroutines -> {"invalid", "pending", "ok", "error"}]
  /\ waiter \in [Coroutines -> {"none", "timer", "expired", "thread"}]
  /\ result \in [Coroutines -> {"empty", "value", "exception"}]

(* A suspended coroutine is in the hands of exactly one object that can     *)
(* resume it, and a coroutine that runs or has ended is in nobody's: it is  *)
(* neither resumed twice nor forgotten while its loop exists.               *)
Resumers(c) == holders[c] \union ({waiter[c]} \ {"none"})

OneResumer ==
  \A c \in Coroutines :
    IF coro[c] = "suspended" /\ ~(OnLoop(c) /\ io = "destroyed")
      THEN \E r \in Resumers(c) : Resumers(c) = {r}
      ELSE Resumers(c) = {}

(* in_use_ is true exactly while asio has the storage.  The storage is part *)
(* of the awaiter, so asio must have given it back before the coroutine     *)
(* goes on and the awaiter is destroyed.                                    *)
StorageReturnedInTime ==
  \A c \in Coroutines :
    /\ in_use[c] <=> memory[c] = "storage"
    /\ memory[c] # "none" => coro[c] = "suspended"

(* Gor/README.md on stop1: when the io_service is destroyed a handler that  *)
(* never ran resumes its coroutine, which ends and fills its future.        *)
GuardedCoroutinesEnd ==
  io = "destroyed" =>
    \A c \in Coroutines :
      Kind[c] = "guarded" => coro[c] = "finished" /\ result[c] # "empty"

(* Gor/README.md on the client and server coroutines: when all handlers are *)
(* destroyed the coroutines are destroyed too.                              *)
HandlersOwnCoroutines ==
  io = "destroyed" => \A c \in Coroutines : OnLoop(c) => coro[c] = "finished"

(* Every way of resuming keeps the promise of Resumption. *)
ResultReady(c) ==
  /\ coro[c] \in {"suspending", "suspended"}
  /\ IF UsesHandler(c) THEN op[c] \in {"ok", "error"} ELSE Ready(c)

Phase(c) ==
  CASE coro[c] \in {"suspending", "suspended"} -> "awaiting"
    [] coro[c] = "finished" -> "finished"
    [] OTHER -> "running"

R == INSTANCE Resumption WITH
       coro <- [c \in Coroutines |-> Phase(c)],
       ready <- [c \in Coroutines |-> ResultReady(c)],
       loop <- [c \in Coroutines |->
                 IF OnLoop(c) /\ io = "destroyed" THEN "down" ELSE "up"]

ImplementsResumption == R!ResumptionSpec

(* A coroutine whose result is there goes on, unless the loop is stopped    *)
(* under it: no wake-up is lost between await_ready and await_suspend, nor  *)
(* between two looks at the future.                                         *)
NoLostWakeup ==
  \A c \in Coroutines :
    ResultReady(c) ~> (~ResultReady(c) \/ io # "running")
===============================================================================
