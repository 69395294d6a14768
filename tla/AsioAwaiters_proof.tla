--------------------------- MODULE AsioAwaiters_proof ---------------------------
(***************************************************************************)
(* Proofs about the asio awaiters, for any set of coroutines of any kinds. *)
(*                                                                         *)
(* The invariant speaks of one coroutine at a time: the io_service, which  *)
(* all of them share, only ever goes down.  Its main part says where a     *)
(* coroutine and what it waits for can be, for the awaiters that hand the  *)
(* coroutine's handle to a handler and for those that look at a future.    *)
(***************************************************************************)
EXTENDS AsioAwaiters, TLAPS

(* The operation has the handler, and with it the handle, exactly while the *)
(* coroutine is suspended and its loop exists.                              *)
HandlerKindInv(c) ==
  UsesHandler(c) =>
    /\ coro[c] \in {"running", "suspended", "finished"}
    /\ future[c] = "invalid" /\ waiter[c] = "none"
    /\ IF coro[c] = "suspended" /\ io # "destroyed"
         THEN holders[c] = {"operation"} /\ op[c] # "none"
         ELSE holders[c] = {} /\ op[c] = "none"

(* The future is there from the start of the operation until the coroutine  *)
(* gets its value, and a timer or a thread looks at it exactly while the    *)
(* coroutine is suspended and its loop exists.                              *)
FutureKindInv(c) ==
  UsesFuture(c) =>
    /\ holders[c] = {} /\ memory[c] = "none" /\ op[c] # "partial"
    /\ future[c] = "pending" <=> op[c] # "none"
    /\ future[c] = "invalid" <=> coro[c] \in {"running", "finished"}
    /\ waiter[c] # "none" <=> coro[c] = "suspended" /\ ~(OnLoop(c) /\ io = "destroyed")
    /\ waiter[c] = "thread" => Kind[c] = "threaded"
    /\ waiter[c] \in {"timer", "expired"} => Kind[c] = "polling"

(* asio has the storage only while the coroutine is suspended. *)
MemoryInv(c) ==
  /\ in_use[c] <=> memory[c] = "storage"
  /\ memory[c] # "none" => coro[c] = "suspended"

(* What the end of the io_service leaves behind. *)
EndInv(c) ==
  /\ io = "destroyed" /\ OnLoop(c) => coro[c] \in {"suspended", "finished"}
  /\ io = "destroyed" /\ Kind[c] = "guarded" => coro[c] = "finished"
  /\ coro[c] = "finished" => result[c] # "empty"

CoroutineInv(c) ==
  HandlerKindInv(c) /\ FutureKindInv(c) /\ MemoryInv(c) /\ EndInv(c)

IInv == TypeOK /\ \A c \in Coroutines : CoroutineInv(c)

-------------------------------------------------------------------------------
(* Every coroutine is of one of the two sorts. *)
LEMMA KindCases ==
  ASSUME NEW c \in Coroutines
  PROVE  /\ UsesHandler(c) \/ UsesFuture(c)
         /\ ~(UsesHandler(c) /\ UsesFuture(c))
         /\ OnLoop(c) <=> Kind[c] # "threaded"
         /\ UsesHandler(c) => OnLoop(c)
         /\ Kind[c] = "guarded" => UsesHandler(c)
         /\ UsesFuture(c) <=> Kind[c] \in {"polling", "threaded"}
         /\ UsesHandler(c) <=> Kind[c] \in {"callback", "guarded"}
BY KindAssumption DEF UsesHandler, UsesFuture, OnLoop, Kinds

LEMMA InitIInv == Init => IInv
<1> SUFFICES ASSUME Init PROVE IInv
  OBVIOUS
<1>1. TypeOK
  BY DEF Init, TypeOK
<1>2. ASSUME NEW c \in Coroutines PROVE CoroutineInv(c)
  BY KindCases DEF Init, CoroutineInv, HandlerKindInv, FutureKindInv, MemoryInv, EndInv
<1> QED
  BY <1>1, <1>2 DEF IInv

(* A step of coroutine c leaves the others and the io_service alone.        *)
OthersUnchanged(c) ==
  /\ io' = io
  /\ \A d \in Coroutines \ {c} :
       /\ coro'[d] = coro[d] /\ ec'[d] = ec[d] /\ op'[d] = op[d]
       /\ holders'[d] = holders[d] /\ memory'[d] = memory[d]
       /\ in_use'[d] = in_use[d] /\ future'[d] = future[d]
       /\ waiter'[d] = waiter[d] /\ result'[d] = result[d]

LEMMA LocalStep ==
  ASSUME IInv, NEW c \in Coroutines, OthersUnchanged(c), TypeOK', CoroutineInv(c)'
  PROVE  IInv'
<1>1. ASSUME NEW d \in Coroutines, d # c PROVE CoroutineInv(d)'
  BY <1>1 DEF IInv, CoroutineInv, OthersUnchanged, HandlerKindInv, FutureKindInv,
     MemoryInv, EndInv, UsesHandler, UsesFuture, OnLoop
<1> QED
  BY <1>1 DEF IInv

(* Memory that asio borrows while the storage is free is in use when it is  *)
(* the storage, and what asio gives back is free again.                     *)
LEMMA Borrows ==
  ASSUME TypeOK, NEW c \in Coroutines, NEW used, ~used, used \in BOOLEAN,
         \E size \in Sizes : Lends(c, used, size)
  PROVE  /\ memory' \in [Coroutines -> {"none", "storage", "heap"}]
         /\ in_use' \in [Coroutines -> BOOLEAN]
         /\ in_use'[c] <=> memory'[c] = "storage"
         /\ \A d \in Coroutines \ {c} : memory'[d] = memory[d] /\ in_use'[d] = in_use[d]
<1>1. PICK size \in Sizes : Lends(c, used, size)
  OBVIOUS
<1>2. PICK where : where = allocate(used, size)
  OBVIOUS
<1>3. where \in {"storage", "heap"}
  BY <1>2 DEF allocate
<1>4. /\ memory' = [memory EXCEPT ![c] = where]
      /\ in_use' = [in_use EXCEPT ![c] = used \/ where = "storage"]
  BY <1>1, <1>2 DEF Lends
<1>5. (used \/ where = "storage") \in BOOLEAN /\ ((used \/ where = "storage") <=> where = "storage")
  OBVIOUS
<1>6. memory \in [Coroutines -> {"none", "storage", "heap"}] /\ in_use \in [Coroutines -> BOOLEAN]
  BY DEF TypeOK
<1>7. /\ memory' \in [Coroutines -> {"none", "storage", "heap"}]
      /\ memory'[c] = where
      /\ \A d \in Coroutines \ {c} : memory'[d] = memory[d]
  BY <1>3, <1>4, <1>6
<1>8. PICK now \in BOOLEAN : now = (used \/ where = "storage")
  BY <1>5
<1>9. in_use' = [in_use EXCEPT ![c] = now]
  BY <1>4, <1>8, Zenon
<1>10. /\ in_use' \in [Coroutines -> BOOLEAN]
       /\ in_use'[c] = now
       /\ \A d \in Coroutines \ {c} : in_use'[d] = in_use[d]
  BY <1>6, <1>9, Zenon
<1> QED
  BY <1>5, <1>7, <1>8, <1>10

LEMMA AwaitOperationIInv ==
  ASSUME IInv, NEW c \in Coroutines, AwaitOperation(c) PROVE IInv' /\ OthersUnchanged(c)
<1>1. ~in_use[c] /\ memory[c] = "none" /\ in_use[c] \in BOOLEAN
  BY DEF IInv, TypeOK, CoroutineInv, MemoryInv, AwaitOperation
<1>2. /\ memory' \in [Coroutines -> {"none", "storage", "heap"}]
      /\ in_use' \in [Coroutines -> BOOLEAN]
      /\ in_use'[c] <=> memory'[c] = "storage"
      /\ \A d \in Coroutines \ {c} : memory'[d] = memory[d] /\ in_use'[d] = in_use[d]
  <2>1. CASE \E size \in Sizes : Lends(c, in_use[c], size)
    BY <1>1, <2>1, Borrows DEF IInv
  <2>2. CASE UNCHANGED <<memory, in_use>>
    BY <1>1, <2>2 DEF IInv, TypeOK
  <2> QED
    BY <2>1, <2>2 DEF AwaitOperation
<1>3. OthersUnchanged(c)
  BY <1>2 DEF IInv, TypeOK, AwaitOperation, OthersUnchanged
<1>4. holders' = [holders EXCEPT ![c] = {"operation"}]
  <2>1. holders[c] = {}
    BY KindCases DEF IInv, CoroutineInv, HandlerKindInv, AwaitOperation
  <2>2. Moved({"argument"}, "argument", "operation") = {"operation"}
    BY DEF Moved
  <2> QED
    BY <2>1, <2>2 DEF AwaitOperation, IInv, TypeOK
<1>5. TypeOK'
  <2>1. holders' \in [Coroutines -> SUBSET {"operation"}]
    BY <1>4 DEF IInv, TypeOK
  <2>2. /\ io' = io /\ future' = future /\ waiter' = waiter /\ result' = result
        /\ coro' = [coro EXCEPT ![c] = "suspended"]
        /\ ec' = [ec EXCEPT ![c] = "unset"]
        /\ op' = [op EXCEPT ![c] = "pending"]
    BY DEF AwaitOperation
  <2> QED
    BY <1>2, <2>1, <2>2 DEF IInv, TypeOK
<1>6. /\ UsesHandler(c) /\ coro'[c] = "suspended" /\ op'[c] = "pending"
      /\ holders'[c] = {"operation"} /\ future'[c] = "invalid" /\ waiter'[c] = "none"
      /\ io' = io /\ io # "destroyed"
  BY <1>4, KindCases DEF IInv, TypeOK, AwaitOperation, CoroutineInv, HandlerKindInv,
     EndInv
<1>7. CoroutineInv(c)'
  BY <1>2, <1>6, KindCases
     DEF CoroutineInv, HandlerKindInv, FutureKindInv, MemoryInv, EndInv,
         UsesHandler, UsesFuture, OnLoop
<1> QED
  BY <1>3, <1>5, <1>7, LocalStep

LEMMA OperationEndsIInv ==
  ASSUME IInv, NEW c \in Coroutines, OperationEnds(c) PROVE IInv' /\ OthersUnchanged(c)
<1>1. OthersUnchanged(c)
  BY DEF IInv, TypeOK, OperationEnds, OthersUnchanged, frame, handler
<1>2. TypeOK'
  BY DEF IInv, TypeOK, OperationEnds, frame, handler
<1>3. CoroutineInv(c)'
  BY KindCases
     DEF IInv, TypeOK, CoroutineInv, HandlerKindInv, FutureKindInv, MemoryInv, EndInv,
         UsesHandler, UsesFuture, OnLoop, OperationEnds, frame, handler
<1> QED
  BY <1>1, <1>2, <1>3, LocalStep

LEMMA WriteGoesOnIInv ==
  ASSUME IInv, NEW c \in Coroutines, WriteGoesOn(c) PROVE IInv' /\ OthersUnchanged(c)
<1>1. PICK used \in BOOLEAN : used = deallocate(in_use[c], memory[c])
  BY DEF IInv, TypeOK, deallocate
<1>2. ~used
  BY <1>1 DEF IInv, CoroutineInv, MemoryInv, deallocate
<1>3. \E size \in Sizes : Lends(c, used, size)
  BY <1>1, Zenon DEF WriteGoesOn
<1>4. /\ memory' \in [Coroutines -> {"none", "storage", "heap"}]
      /\ in_use' \in [Coroutines -> BOOLEAN]
      /\ in_use'[c] <=> memory'[c] = "storage"
      /\ \A d \in Coroutines \ {c} : memory'[d] = memory[d] /\ in_use'[d] = in_use[d]
  BY <1>2, <1>3, Borrows DEF IInv
<1>5. OthersUnchanged(c)
  BY <1>4 DEF IInv, TypeOK, WriteGoesOn, frame, OthersUnchanged
<1>6. TypeOK'
  BY <1>4 DEF IInv, TypeOK, WriteGoesOn, frame
<1>7. UsesHandler(c) /\ coro[c] = "suspended"
  BY KindCases DEF IInv, CoroutineInv, HandlerKindInv, FutureKindInv, WriteGoesOn
<1>8. CoroutineInv(c)'
  BY <1>4, <1>7, KindCases
     DEF IInv, TypeOK, CoroutineInv, HandlerKindInv, FutureKindInv, MemoryInv, EndInv,
         UsesHandler, UsesFuture, OnLoop, WriteGoesOn, frame
<1> QED
  BY <1>5, <1>6, <1>8, LocalStep

LEMMA RunHandlerIInv ==
  ASSUME IInv, NEW c \in Coroutines, RunHandler(c) PROVE IInv' /\ OthersUnchanged(c)
<1>1. OthersUnchanged(c)
  BY DEF IInv, TypeOK, RunHandler, OthersUnchanged, frame, handler, Frees, deallocate,
     Moved, Called
<1>2. TypeOK'
  BY DEF IInv, TypeOK, RunHandler, frame, handler, Frees, deallocate, Moved, Called
<1>3. CoroutineInv(c)'
  BY KindCases
     DEF IInv, TypeOK, CoroutineInv, HandlerKindInv, FutureKindInv, MemoryInv, EndInv,
         UsesHandler, UsesFuture, OnLoop, RunHandler, frame, handler, Frees, deallocate,
         Moved, Called
<1> QED
  BY <1>1, <1>2, <1>3, LocalStep

LEMMA AwaitFutureIInv ==
  ASSUME IInv, NEW c \in Coroutines, AwaitFuture(c) PROVE IInv' /\ OthersUnchanged(c)
<1>1. OthersUnchanged(c)
  BY DEF IInv, TypeOK, AwaitFuture, OthersUnchanged, frame, handler
<1>2. TypeOK'
  BY DEF IInv, TypeOK, AwaitFuture, frame, handler
<1>3. CoroutineInv(c)'
  BY KindCases
     DEF IInv, TypeOK, CoroutineInv, HandlerKindInv, FutureKindInv, MemoryInv, EndInv,
         UsesHandler, UsesFuture, OnLoop, AwaitFuture, frame, handler
<1> QED
  BY <1>1, <1>2, <1>3, LocalStep

LEMMA SetFutureIInv ==
  ASSUME IInv, NEW c \in Coroutines, SetFuture(c) PROVE IInv' /\ OthersUnchanged(c)
<1>1. OthersUnchanged(c)
  BY DEF IInv, TypeOK, SetFuture, OthersUnchanged, frame, handler
<1>2. TypeOK'
  BY DEF IInv, TypeOK, SetFuture, frame, handler
<1>3. CoroutineInv(c)'
  BY KindCases
     DEF IInv, TypeOK, CoroutineInv, HandlerKindInv, FutureKindInv, MemoryInv, EndInv,
         UsesHandler, UsesFuture, OnLoop, SetFuture, frame, handler
<1> QED
  BY <1>1, <1>2, <1>3, LocalStep

LEMMA await_readyIInv ==
  ASSUME IInv, NEW c \in Coroutines, await_ready(c) PROVE IInv' /\ OthersUnchanged(c)
<1>1. OthersUnchanged(c)
  BY DEF IInv, TypeOK, await_ready, OthersUnchanged, frame, handler, Gets, Ready
<1>2. TypeOK'
  BY DEF IInv, TypeOK, await_ready, frame, handler, Gets, Ready
<1>3. CoroutineInv(c)'
  BY KindCases
     DEF IInv, TypeOK, CoroutineInv, HandlerKindInv, FutureKindInv, MemoryInv, EndInv,
         UsesHandler, UsesFuture, OnLoop, await_ready, frame, handler, Gets, Ready
<1> QED
  BY <1>1, <1>2, <1>3, LocalStep

LEMMA await_suspendIInv ==
  ASSUME IInv, NEW c \in Coroutines, await_suspend(c) PROVE IInv' /\ OthersUnchanged(c)
<1>1. OthersUnchanged(c)
  BY DEF IInv, TypeOK, await_suspend, OthersUnchanged, frame, handler, resume_or_wait,
     Gets, Ready
<1>2. TypeOK'
  BY DEF IInv, TypeOK, await_suspend, frame, handler, resume_or_wait, Gets, Ready
<1>3. CoroutineInv(c)'
  BY KindCases
     DEF IInv, TypeOK, CoroutineInv, HandlerKindInv, FutureKindInv, MemoryInv, EndInv,
         UsesHandler, UsesFuture, OnLoop, await_suspend, frame, handler, resume_or_wait,
         Gets, Ready
<1> QED
  BY <1>1, <1>2, <1>3, LocalStep

LEMMA TimerExpiresIInv ==
  ASSUME IInv, NEW c \in Coroutines, TimerExpires(c) PROVE IInv' /\ OthersUnchanged(c)
<1>1. OthersUnchanged(c)
  BY DEF IInv, TypeOK, TimerExpires, OthersUnchanged, frame, handler
<1>2. TypeOK'
  BY DEF IInv, TypeOK, TimerExpires, frame, handler
<1>3. CoroutineInv(c)'
  BY KindCases
     DEF IInv, TypeOK, CoroutineInv, HandlerKindInv, FutureKindInv, MemoryInv, EndInv,
         UsesHandler, UsesFuture, OnLoop, TimerExpires, frame, handler
<1> QED
  BY <1>1, <1>2, <1>3, LocalStep

LEMMA TickIInv ==
  ASSUME IInv, NEW c \in Coroutines, Tick(c) PROVE IInv' /\ OthersUnchanged(c)
<1>1. OthersUnchanged(c)
  BY DEF IInv, TypeOK, Tick, OthersUnchanged, frame, handler, resume_or_wait, Gets, Ready
<1>2. TypeOK'
  BY DEF IInv, TypeOK, Tick, frame, handler, resume_or_wait, Gets, Ready
<1>3. CoroutineInv(c)'
  BY KindCases
     DEF IInv, TypeOK, CoroutineInv, HandlerKindInv, FutureKindInv, MemoryInv, EndInv,
         UsesHandler, UsesFuture, OnLoop, Tick, frame, handler, resume_or_wait, Gets,
         Ready
<1> QED
  BY <1>1, <1>2, <1>3, LocalStep

LEMMA ThreadResumesIInv ==
  ASSUME IInv, NEW c \in Coroutines, ThreadResumes(c) PROVE IInv' /\ OthersUnchanged(c)
<1>1. OthersUnchanged(c)
  BY DEF IInv, TypeOK, ThreadResumes, OthersUnchanged, frame, handler, Gets, Ready
<1>2. TypeOK'
  BY DEF IInv, TypeOK, ThreadResumes, frame, handler, Gets, Ready
<1>3. CoroutineInv(c)'
  BY KindCases
     DEF IInv, TypeOK, CoroutineInv, HandlerKindInv, FutureKindInv, MemoryInv, EndInv,
         UsesHandler, UsesFuture, OnLoop, ThreadResumes, frame, handler, Gets, Ready
<1> QED
  BY <1>1, <1>2, <1>3, LocalStep

LEMMA FinishIInv ==
  ASSUME IInv, NEW c \in Coroutines, Finish(c) PROVE IInv' /\ OthersUnchanged(c)
<1>1. OthersUnchanged(c)
  BY DEF IInv, TypeOK, Finish, OthersUnchanged, frame, handler
<1>2. TypeOK'
  BY DEF IInv, TypeOK, Finish, frame, handler
<1>3. CoroutineInv(c)'
  BY KindCases
     DEF IInv, TypeOK, CoroutineInv, HandlerKindInv, FutureKindInv, MemoryInv, EndInv,
         UsesHandler, UsesFuture, OnLoop, Finish, frame, handler
<1> QED
  BY <1>1, <1>2, <1>3, LocalStep

-------------------------------------------------------------------------------
LEMMA CoroutineStepIInv ==
  ASSUME IInv, NEW c \in Coroutines, CoroutineNext(c) PROVE IInv' /\ OthersUnchanged(c)
BY AwaitOperationIInv, OperationEndsIInv, WriteGoesOnIInv, RunHandlerIInv,
   AwaitFutureIInv, SetFutureIInv, await_readyIInv, await_suspendIInv,
   TimerExpiresIInv, TickIInv, ThreadResumesIInv, FinishIInv, Zenon
   DEF CoroutineNext

-------------------------------------------------------------------------------
(* The io_service. *)
LEMMA StopIInv == ASSUME IInv, Stop PROVE IInv'
<1>1. TypeOK'
  BY DEF IInv, TypeOK, Stop, frame, handler
<1>2. ASSUME NEW c \in Coroutines PROVE CoroutineInv(c)'
  BY DEF IInv, CoroutineInv, HandlerKindInv, FutureKindInv, MemoryInv, EndInv,
     UsesHandler, UsesFuture, OnLoop, Stop, frame, handler
<1> QED
  BY <1>1, <1>2 DEF IInv

LEMMA DestroyIInv == ASSUME IInv, Destroy PROVE IInv'
<1>1. TypeOK'
  BY DEF IInv, TypeOK, Destroy, deallocate
<1>2. ASSUME NEW c \in Coroutines PROVE CoroutineInv(c)'
  <2>1. CoroutineInv(c) /\ (in_use[c] \in BOOLEAN)
    BY DEF IInv, TypeOK
  <2>2. /\ coro'[c] = IF ResumedByDestructor(c) THEN "finished" ELSE coro[c]
        /\ result'[c] = IF ResumedByDestructor(c) THEN "value" ELSE result[c]
        /\ op'[c] = IF OnLoop(c) THEN "none" ELSE op[c]
        /\ holders'[c] = {} /\ memory'[c] = "none"
        /\ in_use'[c] = deallocate(in_use[c], memory[c])
        /\ future'[c] = IF OnLoop(c) /\ op[c] # "none" /\ UsesFuture(c) THEN "error"
                                                                   ELSE future[c]
        /\ waiter'[c] = IF OnLoop(c) THEN "none" ELSE waiter[c]
        /\ io' = "destroyed" /\ io = "stopped"
        /\ OnLoop(c) => coro[c] \in {"suspended", "finished"}
    BY Zenon DEF Destroy
  <2>3. ResumedByDestructor(c) <=> Kind[c] = "guarded" /\ coro[c] = "suspended"
    BY <2>1, <2>2, KindCases DEF CoroutineInv, HandlerKindInv, ResumedByDestructor
  <2>4. ~in_use'[c]
    BY <2>1, <2>2 DEF CoroutineInv, MemoryInv, deallocate
  <2>5. HandlerKindInv(c)'
    BY <2>1, <2>2, <2>3, KindCases
       DEF CoroutineInv, HandlerKindInv, UsesHandler, UsesFuture, OnLoop
  <2>6. FutureKindInv(c)'
    BY <2>1, <2>2, <2>3, KindCases
       DEF CoroutineInv, FutureKindInv, UsesHandler, UsesFuture, OnLoop
  <2>7. MemoryInv(c)' /\ EndInv(c)'
    BY <2>1, <2>2, <2>3, <2>4, KindCases DEF CoroutineInv, MemoryInv, EndInv, OnLoop
  <2> QED
    BY <2>5, <2>6, <2>7 DEF CoroutineInv
<1> QED
  BY <1>1, <1>2 DEF IInv

LEMMA StutterIInv == ASSUME IInv, UNCHANGED vars PROVE IInv'
BY DEF IInv, TypeOK, CoroutineInv, HandlerKindInv, FutureKindInv, MemoryInv, EndInv,
   UsesHandler, UsesFuture, OnLoop, vars

LEMMA NextIInv == IInv /\ [Next]_vars => IInv'
<1> SUFFICES ASSUME IInv, [Next]_vars PROVE IInv'
  OBVIOUS
<1>1. ASSUME NEW c \in Coroutines, CoroutineNext(c) PROVE IInv'
  BY <1>1, CoroutineStepIInv
<1> QED
  BY <1>1, StopIInv, DestroyIInv, StutterIInv DEF Next

-------------------------------------------------------------------------------
(* The invariant of the awaiters: each coroutine, whatever resumes it, and  *)
(* what it waits for are as far as each other.                              *)
THEOREM AwaitersInvariant == Spec => []IInv
<1>1. Init => IInv
  BY InitIInv
<1>2. IInv /\ [Next]_vars => IInv'
  BY NextIInv
<1> QED
  BY <1>1, <1>2, PTL DEF Spec

(* Type correctness; no handler object keeps a handle after a move or a     *)
(* call.                                                                    *)
THEOREM TypeCorrect == Spec => []TypeOK
<1>1. IInv => TypeOK
  BY DEF IInv
<1> QED
  BY <1>1, AwaitersInvariant, PTL

(* Exactly one object can resume a suspended coroutine, and none a running  *)
(* or finished one, for handlers, timers and threads alike.                 *)
THEOREM SuspendedCoroutinesHaveOneResumer == Spec => []OneResumer
<1>1. IInv => OneResumer
  <2> SUFFICES ASSUME IInv, NEW c \in Coroutines
               PROVE  IF coro[c] = "suspended" /\ ~(OnLoop(c) /\ io = "destroyed")
                        THEN \E r \in Resumers(c) : Resumers(c) = {r}
                        ELSE Resumers(c) = {}
    BY DEF OneResumer
  <2>1. CoroutineInv(c)
    BY DEF IInv
  <2>2. CASE UsesHandler(c)
    BY <2>1, <2>2, KindCases DEF CoroutineInv, HandlerKindInv, Resumers
  <2>3. CASE UsesFuture(c)
    BY <2>1, <2>3, KindCases DEF CoroutineInv, FutureKindInv, Resumers
  <2> QED
    BY <2>2, <2>3, KindCases
<1> QED
  BY <1>1, AwaitersInvariant, PTL

(* The awaiter's memory is back from asio before the awaiter is destroyed,  *)
(* and in_use_ tells whether it is.                                         *)
THEOREM StorageIsReturnedInTime == Spec => []StorageReturnedInTime
<1>1. IInv => StorageReturnedInTime
  BY DEF IInv, CoroutineInv, MemoryInv, StorageReturnedInTime
<1> QED
  BY <1>1, AwaitersInvariant, PTL

(* When the io_service is gone every coroutine of stop1 has ended and its   *)
(* future is filled.                                                        *)
THEOREM GuardedCoroutinesAllEnd == Spec => []GuardedCoroutinesEnd
<1>1. IInv => GuardedCoroutinesEnd
  BY DEF IInv, CoroutineInv, EndInv, GuardedCoroutinesEnd
<1> QED
  BY <1>1, AwaitersInvariant, PTL

-------------------------------------------------------------------------------
(* The refinement of Resumption: what the abstract variables are, and what  *)
(* a step of one coroutine does to them.                                    *)
phases == [c \in Coroutines |-> Phase(c)]
results == [c \in Coroutines |-> ResultReady(c)]
loops == [c \in Coroutines |->
           IF OnLoop(c) /\ io = "destroyed" THEN "down" ELSE "up"]

LEMMA PhaseCases ==
  ASSUME NEW c \in Coroutines
  PROVE  /\ coro[c] \in {"suspending", "suspended"} => Phase(c) = "awaiting"
         /\ coro[c] = "finished" => Phase(c) = "finished"
         /\ coro[c] \in {"running", "asking"} => Phase(c) = "running"
         /\ ResultReady(c) \in BOOLEAN
         /\ ResultReady(c) => Phase(c) = "awaiting"
         /\ ResultReady(c) <=> /\ coro[c] \in {"suspending", "suspended"}
                               /\ UsesHandler(c) => op[c] \in {"ok", "error"}
                               /\ ~UsesHandler(c) => future[c] \in {"ok", "error"}
BY DEF Phase, ResultReady, Ready

LEMMA PhaseCasesAfter ==
  ASSUME NEW c \in Coroutines
  PROVE  /\ coro'[c] \in {"suspending", "suspended"} => Phase(c)' = "awaiting"
         /\ coro'[c] = "finished" => Phase(c)' = "finished"
         /\ coro'[c] \in {"running", "asking"} => Phase(c)' = "running"
         /\ ResultReady(c)' \in BOOLEAN
         /\ ResultReady(c)' => Phase(c)' = "awaiting"
         /\ ResultReady(c)' <=> /\ coro'[c] \in {"suspending", "suspended"}
                                /\ UsesHandler(c) => op'[c] \in {"ok", "error"}
                                /\ ~UsesHandler(c) => future'[c] \in {"ok", "error"}
BY DEF Phase, ResultReady, Ready, UsesHandler

LEMMA LocalRefinement ==
  ASSUME NEW c \in Coroutines, OthersUnchanged(c),
         \/ Phase(c) = "running" /\ Phase(c)' = "awaiting"
         \/ Phase(c) = "awaiting" /\ Phase(c)' = "awaiting" /\ ResultReady(c)'
         \/ /\ Phase(c) = "awaiting" /\ ResultReady(c)
            /\ Phase(c)' = "running" /\ ~ResultReady(c)'
         \/ /\ Phase(c) = "running" /\ Phase(c)' = "finished"
            /\ ResultReady(c)' = ResultReady(c)
         \/ Phase(c)' = Phase(c) /\ ResultReady(c)' = ResultReady(c)
  PROVE  [R!ResumptionNext]_R!resumptionVars
<1>1. \A d \in Coroutines \ {c} : Phase(d)' = Phase(d) /\ ResultReady(d)' = ResultReady(d)
  BY DEF OthersUnchanged, Phase, ResultReady, Ready, UsesHandler
<1>2. loops' = loops
  BY DEF loops, OthersUnchanged, OnLoop
<1>3. phases' = [phases EXCEPT ![c] = Phase(c)']
  BY <1>1, Zenon DEF phases
<1>4. results' = [results EXCEPT ![c] = ResultReady(c)']
  BY <1>1, Zenon DEF results
<1>5. phases[c] = Phase(c) /\ results[c] = ResultReady(c)
  BY DEF phases, results
<1>6. ResultReady(c)' \in BOOLEAN /\ ResultReady(c) \in BOOLEAN
  BY PhaseCases, PhaseCasesAfter
<1>7. CASE Phase(c) = "running" /\ Phase(c)' = "awaiting"
  <2>1. R!Await(c)
    BY <1>2, <1>3, <1>4, <1>5, <1>6, <1>7, Zenon DEF R!Await, phases, results, loops
  <2> QED
    BY <2>1 DEF R!ResumptionNext
<1>8. CASE Phase(c) = "awaiting" /\ Phase(c)' = "awaiting" /\ ResultReady(c)'
  <2>1. R!Deliver(c)
    <3>1. phases' = phases
      BY <1>3, <1>5, <1>8 DEF phases
    <3>2. results' = [results EXCEPT ![c] = TRUE]
      BY <1>4, <1>6, <1>8
    <3> QED
      BY <1>2, <1>5, <1>8, <3>1, <3>2 DEF R!Deliver, phases, results, loops
  <2> QED
    BY <2>1 DEF R!ResumptionNext
<1>9. CASE /\ Phase(c) = "awaiting" /\ ResultReady(c)
           /\ Phase(c)' = "running" /\ ~ResultReady(c)'
  <2>1. R!Resume(c)
    <3>1. results' = [results EXCEPT ![c] = FALSE]
      BY <1>4, <1>6, <1>9
    <3> QED
      BY <1>2, <1>3, <1>5, <1>9, <3>1, Zenon DEF R!Resume, phases, results, loops
  <2> QED
    BY <2>1 DEF R!ResumptionNext
<1>10. CASE /\ Phase(c) = "running" /\ Phase(c)' = "finished"
            /\ ResultReady(c)' = ResultReady(c)
  <2>1. R!Finish(c)
    <3>1. results' = results
      BY <1>4, <1>5, <1>10 DEF results
    <3> QED
      BY <1>2, <1>3, <1>5, <1>10, <3>1, Zenon DEF R!Finish, phases, results, loops
  <2> QED
    BY <2>1 DEF R!ResumptionNext
<1>11. CASE Phase(c)' = Phase(c) /\ ResultReady(c)' = ResultReady(c)
  BY <1>2, <1>3, <1>4, <1>5, <1>11 DEF R!resumptionVars, phases, results, loops
<1> QED
  BY <1>7, <1>8, <1>9, <1>10, <1>11

(* Each step of a coroutine is a step of Resumption, or none.               *)
LEMMA CoroutineStepRefines ==
  ASSUME IInv, NEW c \in Coroutines, CoroutineNext(c)
  PROVE  [R!ResumptionNext]_R!resumptionVars
<1>1. /\ coro \in [Coroutines ->
               {"running", "asking", "suspending", "suspended", "finished"}]
      /\ op \in [Coroutines -> {"none", "pending", "partial", "ok", "error"}]
      /\ future \in [Coroutines -> {"invalid", "pending", "ok", "error"}]
      /\ waiter \in [Coroutines -> {"none", "timer", "expired", "thread"}]
      /\ HandlerKindInv(c) /\ FutureKindInv(c)
  BY DEF IInv, TypeOK, CoroutineInv
<1>2. OthersUnchanged(c)
  BY CoroutineStepIInv
<1>3. CASE AwaitOperation(c)
  <2>1. coro[c] = "running" /\ coro'[c] = "suspended"
    BY <1>1, <1>3 DEF AwaitOperation
  <2>2. Phase(c) = "running" /\ Phase(c)' = "awaiting"
    BY <2>1, PhaseCases, PhaseCasesAfter
  <2> QED
    BY <1>2, <2>2, LocalRefinement
<1>4. CASE OperationEnds(c)
  <2>1. op[c] = "pending" /\ coro' = coro /\ future' = future
    BY <1>4 DEF OperationEnds, frame
  <2>2. CASE UsesHandler(c)
    <3>1. coro[c] = "suspended"
      BY <1>1, <2>1, <2>2 DEF HandlerKindInv
    <3>2. Phase(c) = "awaiting" /\ Phase(c)' = "awaiting" /\ ~ResultReady(c)
      BY <2>1, <2>2, <3>1, PhaseCases, PhaseCasesAfter
    <3>3. ResultReady(c)' \in BOOLEAN /\ ResultReady(c) \in BOOLEAN
      BY PhaseCases, PhaseCasesAfter
    <3> QED
      BY <1>2, <3>2, <3>3, LocalRefinement
  <2>3. CASE ~UsesHandler(c)
    <3>1. Phase(c)' = Phase(c) /\ ResultReady(c)' = ResultReady(c)
      BY <2>1, <2>3 DEF Phase, ResultReady, Ready, UsesHandler
    <3> QED
      BY <1>2, <3>1, LocalRefinement
  <2> QED
    BY <2>2, <2>3
<1>5. CASE WriteGoesOn(c)
  <2>1. op[c] = "partial" /\ op'[c] = "pending" /\ coro' = coro /\ UsesHandler(c)
    BY <1>1, <1>5, KindCases DEF WriteGoesOn, frame, FutureKindInv
  <2>2. Phase(c)' = Phase(c) /\ ~ResultReady(c) /\ ~ResultReady(c)'
    BY <2>1, PhaseCases, PhaseCasesAfter DEF Phase
  <2>3. ResultReady(c)' \in BOOLEAN /\ ResultReady(c) \in BOOLEAN
    BY PhaseCases, PhaseCasesAfter
  <2> QED
    BY <1>2, <2>2, <2>3, LocalRefinement
<1>6. CASE RunHandler(c)
  <2>1. /\ op[c] \in {"ok", "error"} /\ UsesHandler(c)
        /\ coro[c] = "suspended" /\ coro'[c] = "running"
    BY <1>1, <1>6 DEF RunHandler, HandlerKindInv
  <2>2. Phase(c) = "awaiting" /\ ResultReady(c) /\ Phase(c)' = "running" /\ ~ResultReady(c)'
    BY <2>1, PhaseCases, PhaseCasesAfter
  <2> QED
    BY <1>2, <2>2, LocalRefinement
<1>7. CASE AwaitFuture(c)
  <2>1. coro[c] = "running" /\ coro'[c] = "asking"
    BY <1>1, <1>7 DEF AwaitFuture
  <2>2. Phase(c)' = Phase(c) /\ ~ResultReady(c) /\ ~ResultReady(c)'
    BY <2>1, PhaseCases, PhaseCasesAfter
  <2>3. ResultReady(c)' \in BOOLEAN /\ ResultReady(c) \in BOOLEAN
    BY PhaseCases, PhaseCasesAfter
  <2> QED
    BY <1>2, <2>2, <2>3, LocalRefinement
<1>8. CASE SetFuture(c)
  <2>1. /\ coro' = coro /\ UsesFuture(c) /\ ~UsesHandler(c)
        /\ future[c] = "pending" /\ future'[c] \in {"ok", "error"}
        /\ coro[c] \notin {"running", "finished"}
    BY <1>1, <1>8, KindCases DEF SetFuture, frame, FutureKindInv
  <2>2. CASE coro[c] = "asking"
    <3>1. Phase(c)' = Phase(c) /\ ~ResultReady(c) /\ ~ResultReady(c)'
      BY <2>1, <2>2, PhaseCases, PhaseCasesAfter
    <3>2. ResultReady(c)' \in BOOLEAN /\ ResultReady(c) \in BOOLEAN
      BY PhaseCases, PhaseCasesAfter
    <3> QED
      BY <1>2, <3>1, <3>2, LocalRefinement
  <2>3. CASE coro[c] \in {"suspending", "suspended"}
    <3>1. Phase(c) = "awaiting" /\ Phase(c)' = "awaiting" /\ ResultReady(c)'
      BY <2>1, <2>3, PhaseCases, PhaseCasesAfter
    <3> QED
      BY <1>2, <3>1, LocalRefinement
  <2> QED
    BY <1>1, <2>1, <2>2, <2>3
<1>9. CASE await_ready(c)
  <2>1. /\ coro[c] = "asking" /\ UsesFuture(c) /\ ~UsesHandler(c)
        /\ \/ coro'[c] = "running"
           \/ coro'[c] = "suspending"
    BY <1>1, <1>9, KindCases DEF await_ready, Gets, HandlerKindInv
  <2>2. CASE coro'[c] = "running"
    <3>1. Phase(c)' = Phase(c) /\ ~ResultReady(c) /\ ~ResultReady(c)'
      BY <2>1, <2>2, PhaseCases, PhaseCasesAfter
    <3>2. ResultReady(c)' \in BOOLEAN /\ ResultReady(c) \in BOOLEAN
      BY PhaseCases, PhaseCasesAfter
    <3> QED
      BY <1>2, <3>1, <3>2, LocalRefinement
  <2>3. CASE coro'[c] = "suspending"
    <3>1. Phase(c) = "running" /\ Phase(c)' = "awaiting"
      BY <2>1, <2>3, PhaseCases, PhaseCasesAfter
    <3> QED
      BY <1>2, <3>1, LocalRefinement
  <2> QED
    BY <2>1, <2>2, <2>3
<1>10. ASSUME coro[c] \in {"suspending", "suspended"}, ~UsesHandler(c),
              \/ coro'[c] = "running" /\ Ready(c)
              \/ coro'[c] = "suspended" /\ future' = future
       PROVE  [R!ResumptionNext]_R!resumptionVars
  <2>1. CASE coro'[c] = "running" /\ Ready(c)
    <3>1. Phase(c) = "awaiting" /\ ResultReady(c) /\ Phase(c)' = "running" /\ ~ResultReady(c)'
      BY <1>10, <2>1, PhaseCases, PhaseCasesAfter DEF Ready
    <3> QED
      BY <1>2, <3>1, LocalRefinement
  <2>2. CASE coro'[c] = "suspended" /\ future' = future
    <3>1. Phase(c)' = Phase(c) /\ (ResultReady(c)' <=> ResultReady(c))
      BY <1>10, <2>2, PhaseCases, PhaseCasesAfter
    <3>2. ResultReady(c)' \in BOOLEAN /\ ResultReady(c) \in BOOLEAN
      BY PhaseCases, PhaseCasesAfter
    <3> QED
      BY <1>2, <3>1, <3>2, LocalRefinement
  <2> QED
    BY <1>10, <2>1, <2>2
<1>11. CASE await_suspend(c) \/ Tick(c) \/ ThreadResumes(c)
  <2>1. coro[c] \in {"suspending", "suspended"} /\ ~UsesHandler(c)
    BY <1>1, <1>11, KindCases
       DEF await_suspend, Tick, ThreadResumes, FutureKindInv, HandlerKindInv
  <2>2. \/ coro'[c] = "running" /\ Ready(c)
        \/ coro'[c] = "suspended" /\ future' = future
    BY <1>1, <1>11 DEF await_suspend, Tick, ThreadResumes, resume_or_wait, Gets
  <2> QED
    BY <1>10, <2>1, <2>2
<1>12. CASE TimerExpires(c)
  <2>1. Phase(c)' = Phase(c) /\ ResultReady(c)' = ResultReady(c)
    BY <1>12 DEF TimerExpires, frame, Phase, ResultReady, Ready, UsesHandler
  <2> QED
    BY <1>2, <2>1, LocalRefinement
<1>13. CASE Finish(c)
  <2>1. coro[c] = "running" /\ coro'[c] = "finished"
    BY <1>1, <1>13 DEF Finish
  <2>2. Phase(c) = "running" /\ Phase(c)' = "finished" /\ ~ResultReady(c) /\ ~ResultReady(c)'
    BY <2>1, PhaseCases, PhaseCasesAfter
  <2>3. ResultReady(c)' \in BOOLEAN /\ ResultReady(c) \in BOOLEAN
    BY PhaseCases, PhaseCasesAfter
  <2> QED
    BY <1>2, <2>2, <2>3, LocalRefinement
<1> QED
  BY <1>3, <1>4, <1>5, <1>6, <1>7, <1>8, <1>9, <1>11, <1>12, <1>13 DEF CoroutineNext

(* The end of the io_service: the loop goes down for all its coroutines at  *)
(* once, and those that a destructor resumes end.                           *)
LEMMA DestroyRefines ==
  ASSUME IInv, Destroy PROVE R!GoDown
<1> DEFINE gone == {c \in Coroutines : OnLoop(c)}
           ended == {c \in Coroutines : ResumedByDestructor(c)}
<1>1. ASSUME NEW c \in Coroutines
      PROVE  /\ ResumedByDestructor(c) => OnLoop(c) /\ coro[c] = "suspended"
             /\ coro'[c] = IF ResumedByDestructor(c) THEN "finished" ELSE coro[c]
             /\ io = "stopped" /\ io' = "destroyed"
             /\ ~OnLoop(c) => /\ coro'[c] = coro[c] /\ op'[c] = op[c]
                              /\ future'[c] = future[c]
  <2>1. ResumedByDestructor(c) => OnLoop(c) /\ coro[c] = "suspended"
    BY KindCases DEF IInv, CoroutineInv, HandlerKindInv, ResumedByDestructor
  <2> QED
    BY <2>1, Zenon DEF Destroy
<1>2. loops' = [c \in Coroutines |-> IF c \in gone THEN "down" ELSE loops[c]]
  BY <1>1 DEF loops, OnLoop
<1>3. ended \in SUBSET {c \in gone : loops[c] = "up" /\ phases[c] = "awaiting"}
  <2> SUFFICES ASSUME NEW c \in Coroutines, ResumedByDestructor(c)
               PROVE  OnLoop(c) /\ loops[c] = "up" /\ phases[c] = "awaiting"
    OBVIOUS
  <2>1. OnLoop(c) /\ coro[c] = "suspended" /\ io = "stopped"
    BY <1>1
  <2> QED
    BY <2>1, PhaseCases DEF loops, phases
<1>4. phases' = [c \in Coroutines |-> IF c \in ended THEN "finished" ELSE phases[c]]
  <2>1. ASSUME NEW c \in Coroutines
        PROVE  Phase(c)' = IF ResumedByDestructor(c) THEN "finished" ELSE Phase(c)
    <3>1. CASE ResumedByDestructor(c)
      BY <1>1, <3>1, PhaseCasesAfter
    <3>2. CASE ~ResumedByDestructor(c)
      BY <1>1, <3>2 DEF Phase
    <3> QED
      BY <3>1, <3>2
  <2> QED
    BY <2>1 DEF phases
<1>5. results' \in [Coroutines -> BOOLEAN]
  BY PhaseCasesAfter DEF results
<1>6. \A c \in Coroutines \ gone : results'[c] = results[c]
  <2> SUFFICES ASSUME NEW c \in Coroutines, ~OnLoop(c)
               PROVE  ResultReady(c)' = ResultReady(c)
    BY DEF results
  <2> QED
    BY <1>1 DEF ResultReady, Ready, UsesHandler
<1>7. gone \in SUBSET Coroutines
  OBVIOUS
<1> HIDE DEF gone, ended
<1> QED
  BY <1>2, <1>3, <1>4, <1>5, <1>6, <1>7 DEF R!GoDown, phases, results, loops

(* Callback, destructor, polled future or detached thread: a coroutine is   *)
(* resumed only with its result, or with an error when its loop is gone,    *)
(* and never after its end.                                                 *)
THEOREM AwaitersImplementResumption == Spec => ImplementsResumption
<1>1. Init => R!ResumptionInit
  BY KindCases, PhaseCases DEF Init, R!ResumptionInit, Phase, ResultReady, Ready
<1>2. IInv /\ [Next]_vars => [R!ResumptionNext]_R!resumptionVars
  <2> SUFFICES ASSUME IInv, [Next]_vars PROVE [R!ResumptionNext]_R!resumptionVars
    OBVIOUS
  <2>1. ASSUME NEW c \in Coroutines, CoroutineNext(c)
        PROVE  [R!ResumptionNext]_R!resumptionVars
    BY <2>1, CoroutineStepRefines
  <2>2. CASE Stop
    BY <2>2 DEF Stop, frame, handler, R!resumptionVars, Phase, ResultReady, Ready,
       UsesHandler, OnLoop
  <2>3. CASE Destroy
    BY <2>3, DestroyRefines DEF R!ResumptionNext
  <2>4. CASE UNCHANGED vars
    BY <2>4 DEF vars, R!resumptionVars, Phase, ResultReady, Ready, UsesHandler, OnLoop
  <2> QED
    BY <2>1, <2>2, <2>3, <2>4 DEF Next
<1> QED
  BY <1>1, <1>2, AwaitersInvariant, PTL DEF Spec, ImplementsResumption, R!ResumptionSpec
-------------------------------------------------------------------------------
(* What NoLostWakeup rests on, as far as safety goes.  A result that is     *)
(* there stays there, and each step of its coroutine brings the coroutine   *)
(* nearer to it: from await_suspend to a timer or a thread, from a timer    *)
(* that is set to one that has expired, and from there to the body.         *)
Outcome(c) == IF UsesHandler(c) THEN op[c] ELSE future[c]

WakeLeft(c) ==
  IF UsesHandler(c) THEN 1
  ELSE IF coro[c] = "suspending" THEN 3
  ELSE IF waiter[c] = "timer" THEN 2
  ELSE 1

(* Something will look at the result: the handler, which has the handle, or *)
(* await_suspend, a timer or a thread.                                      *)
SomethingWakes(c) ==
  IF UsesHandler(c) THEN coro[c] = "suspended" /\ holders[c] = {"operation"}
  ELSE \/ coro[c] = "suspending"
       \/ coro[c] = "suspended" /\ waiter[c] # "none"

ReadyIsSeen ==
  \A c \in Coroutines :
    ResultReady(c) /\ (OnLoop(c) => io # "destroyed") => SomethingWakes(c)

Unmoved(c) ==
  /\ coro'[c] = coro[c] /\ ec'[c] = ec[c] /\ op'[c] = op[c]
  /\ future'[c] = future[c] /\ waiter'[c] = waiter[c]

ReadyIsTaken ==
  \A c \in Coroutines : ResultReady(c) /\ (OnLoop(c) => io' # "destroyed") =>
    \/ Unmoved(c)
    \/ ResultReady(c)' /\ Outcome(c)' = Outcome(c) /\ WakeLeft(c)' < WakeLeft(c)
    \/ coro'[c] = "running" /\ ec'[c] = Outcome(c)

LEMMA ReadyStep ==
  ASSUME IInv, NEW c \in Coroutines, CoroutineNext(c), ResultReady(c)
  PROVE  \/ ResultReady(c)' /\ Outcome(c)' = Outcome(c) /\ WakeLeft(c)' < WakeLeft(c)
         \/ coro'[c] = "running" /\ ec'[c] = Outcome(c)
<1>1. /\ coro \in [Coroutines ->
               {"running", "asking", "suspending", "suspended", "finished"}]
      /\ ec \in [Coroutines -> {"unset", "ok", "error", "aborted"}]
      /\ op \in [Coroutines -> {"none", "pending", "partial", "ok", "error"}]
      /\ future \in [Coroutines -> {"invalid", "pending", "ok", "error"}]
      /\ waiter \in [Coroutines -> {"none", "timer", "expired", "thread"}]
      /\ HandlerKindInv(c) /\ FutureKindInv(c)
  BY DEF IInv, TypeOK, CoroutineInv
<1>2. coro[c] \in {"suspending", "suspended"}
  BY DEF ResultReady
<1>3. CASE UsesHandler(c)
  <2>1. op[c] \in {"ok", "error"} /\ ~UsesFuture(c) /\ waiter[c] = "none"
        /\ coro[c] = "suspended"
    BY <1>1, <1>2, <1>3, KindCases DEF ResultReady, HandlerKindInv
  <2>2. RunHandler(c)
    BY <2>1
       DEF CoroutineNext, AwaitOperation, OperationEnds, WriteGoesOn, AwaitFuture,
           SetFuture, await_ready, await_suspend, TimerExpires, Tick, ThreadResumes,
           Finish
  <2>3. coro'[c] = "running" /\ ec'[c] = op[c]
    BY <1>1, <2>2 DEF RunHandler
  <2> QED
    BY <1>3, <2>3 DEF Outcome
<1>4. CASE UsesFuture(c)
  <2>1. ~UsesHandler(c) /\ Ready(c) /\ op[c] = "none"
    BY <1>1, <1>4, KindCases DEF ResultReady, Ready, FutureKindInv
  <2>2. await_suspend(c) \/ TimerExpires(c) \/ Tick(c) \/ ThreadResumes(c)
    BY <1>2, <2>1
       DEF CoroutineNext, AwaitOperation, OperationEnds, WriteGoesOn, RunHandler,
           AwaitFuture, SetFuture, await_ready, Finish
  <2>3. ASSUME Gets(c) PROVE coro'[c] = "running" /\ ec'[c] = Outcome(c)
    BY <1>1, <2>1, <2>3 DEF Gets, Outcome
  <2>4. CASE await_suspend(c) /\ Kind[c] = "threaded"
    <3>1. /\ coro[c] = "suspending" /\ coro'[c] = "suspended" /\ waiter'[c] = "thread"
          /\ future' = future
      BY <1>1, <2>4 DEF await_suspend
    <3>2. WakeLeft(c) = 3 /\ WakeLeft(c)' = 1
      BY <2>1, <3>1 DEF WakeLeft, UsesHandler
    <3>3. ResultReady(c)' /\ Outcome(c)' = Outcome(c)
      BY <2>1, <3>1 DEF ResultReady, Outcome, Ready, UsesHandler
    <3> QED
      BY <3>2, <3>3
  <2>5. CASE TimerExpires(c)
    <3>1. /\ coro[c] = "suspended" /\ coro' = coro /\ future' = future
          /\ waiter[c] = "timer" /\ waiter'[c] = "expired"
      BY <1>1, <1>2, <1>4, <2>5 DEF TimerExpires, frame, FutureKindInv
    <3>2. WakeLeft(c) = 2 /\ WakeLeft(c)' = 1
      BY <2>1, <3>1 DEF WakeLeft, UsesHandler
    <3>3. ResultReady(c)' /\ Outcome(c)' = Outcome(c)
      BY <2>1, <3>1 DEF ResultReady, Outcome, Ready, UsesHandler
    <3> QED
      BY <3>2, <3>3
  <2>6. CASE \/ await_suspend(c) /\ Kind[c] # "threaded"
             \/ Tick(c) \/ ThreadResumes(c)
    BY <2>1, <2>3, <2>6 DEF await_suspend, Tick, ThreadResumes, resume_or_wait
  <2> QED
    BY <2>2, <2>4, <2>5, <2>6
<1> QED
  BY <1>3, <1>4, KindCases

(* A result that is there is always about to be seen: no coroutine sleeps   *)
(* on it, whether it came before await_ready, between await_ready and       *)
(* await_suspend, or between two looks at the future.                       *)
THEOREM NoResultIsOverlooked == Spec => []ReadyIsSeen
<1>1. IInv => ReadyIsSeen
  BY KindCases
     DEF IInv, TypeOK, CoroutineInv, HandlerKindInv, FutureKindInv, ReadyIsSeen,
         ResultReady, SomethingWakes
<1> QED
  BY <1>1, AwaitersInvariant, PTL

(* The coroutine goes on with the result that was there, after at most      *)
(* three steps of its own: nothing replaces the result, and no step starts  *)
(* the waiting again.                                                       *)
THEOREM ResultsAreTaken == Spec => [][ReadyIsTaken]_vars
<1>1. ASSUME IInv, Next, NEW c \in Coroutines, ResultReady(c),
             OnLoop(c) => io' # "destroyed"
      PROVE  \/ Unmoved(c)
             \/ ResultReady(c)' /\ Outcome(c)' = Outcome(c) /\ WakeLeft(c)' < WakeLeft(c)
             \/ coro'[c] = "running" /\ ec'[c] = Outcome(c)
  <2>1. CASE CoroutineNext(c)
    BY <1>1, <2>1, ReadyStep
  <2>2. ASSUME NEW d \in Coroutines, d # c, CoroutineNext(d) PROVE Unmoved(c)
    BY <1>1, <2>2, CoroutineStepIInv DEF OthersUnchanged, Unmoved
  <2>3. CASE Stop
    BY <2>3 DEF Stop, frame, Unmoved
  <2>4. CASE Destroy
    <3>1. ~OnLoop(c)
      BY <1>1, <2>4 DEF Destroy
    <3>2. ~ResumedByDestructor(c)
      BY <3>1 DEF ResumedByDestructor, OnLoop
    <3> QED
      BY <2>4, <3>1, <3>2 DEF Destroy, Unmoved
  <2> QED
    BY <1>1, <2>1, <2>2, <2>3, <2>4 DEF Next
<1>2. IInv /\ [Next]_vars => [ReadyIsTaken]_vars
  BY <1>1 DEF ReadyIsTaken
<1> QED
  BY <1>2, AwaitersInvariant, PTL DEF Spec
===============================================================================
