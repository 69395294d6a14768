------------------------------ MODULE Resumption ------------------------------
(***************************************************************************)
(* What the awaiters of a program promise to its coroutines, whatever the  *)
(* threads, handlers and queues behind them: a suspended coroutine is      *)
(* resumed only when its result is there, or with an error when the loop   *)
(* that would have produced it goes away; and a coroutine that has ended,  *)
(* whose frame no longer exists, is never resumed.                         *)
(***************************************************************************)

CONSTANT Coroutines

VARIABLES coro,            \* of each coroutine: "running", "awaiting", "finished"
          ready,           \* is the awaited result there?
          loop             \* the loop it depends on: "up", or "down" for good

resumptionVars == <<coro, ready, loop>>

ResumptionInit ==
  /\ coro = [c \in Coroutines |-> "running"]
  /\ ready = [c \in Coroutines |-> FALSE]
  /\ loop = [c \in Coroutines |-> "up"]

(* co_await of something that is not there yet, or that is there at once. *)
Await(c) ==
  /\ coro[c] = "running"
  /\ coro' = [coro EXCEPT ![c] = "awaiting"]
  /\ \E r \in BOOLEAN : ready' = [ready EXCEPT ![c] = r]
  /\ UNCHANGED loop

Deliver(c) ==
  /\ coro[c] = "awaiting"
  /\ ready' = [ready EXCEPT ![c] = TRUE]
  /\ UNCHANGED <<coro, loop>>

Resume(c) ==
  /\ coro[c] = "awaiting" /\ ready[c]
  /\ coro' = [coro EXCEPT ![c] = "running"]
  /\ ready' = [ready EXCEPT ![c] = FALSE]
  /\ UNCHANGED loop

Finish(c) ==
  /\ coro[c] = "running"
  /\ coro' = [coro EXCEPT ![c] = "finished"]
  /\ UNCHANGED <<ready, loop>>

(* The loop of some coroutines goes away.  Those that were waiting for it   *)
(* are resumed with an error, which ends them, or left suspended for ever.  *)
GoDown ==
  \E gone \in SUBSET Coroutines :
    /\ loop' = [c \in Coroutines |-> IF c \in gone THEN "down" ELSE loop[c]]
    /\ \E ended \in SUBSET {c \in gone : loop[c] = "up" /\ coro[c] = "awaiting"} :
         coro' = [c \in Coroutines |-> IF c \in ended THEN "finished" ELSE coro[c]]
    /\ ready' \in [Coroutines -> BOOLEAN]
    /\ \A c \in Coroutines \ gone : ready'[c] = ready[c]

ResumptionNext ==
  \/ \E c \in Coroutines : Await(c) \/ Deliver(c) \/ Resume(c) \/ Finish(c)
  \/ GoDown

ResumptionSpec == ResumptionInit /\ [][ResumptionNext]_resumptionVars
===============================================================================
