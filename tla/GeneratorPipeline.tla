--------------------------- MODULE GeneratorPipeline ---------------------------
(***************************************************************************)
(* The generators of basics/yield/yield3.cpp: four lazy coroutines,        *)
(* each ranging over the one before it, and main, which accumulates the    *)
(* last.  A generator runs only between a resume() by its consumer's       *)
(* iterator and its next suspension; resuming one that is running, done or *)
(* destroyed is undefined, and nothing in the iterators checks it.         *)
(*                                                                         *)
(* All generators share generator<T>: stage 1 is seq, 2 take_until, 3      *)
(* multiply, 4 add, and 5 is main, the consumer of the last.               *)
(*                                                                         *)
(* Abstracted: int is unbounded (the program's numbers are small).         *)
(***************************************************************************)
EXTENDS Integers, FiniteSetsExt

CONSTANTS Limits, Factors, Addends     \* the arguments main may give

ASSUME ArgumentsAssumption ==
  Limits \subseteq Nat /\ Factors \subseteq Int /\ Addends \subseteq Int

VARIABLES
  args,               \* limit, factor and addend
  frame,              \* "suspended", "running", "done" (at its final
                      \* suspension) or "destroyed"
  current_value,      \* of each promise
  i,                  \* seq's next number
  active,             \* who runs: a stage, main, or (6) the end of main
  resuming,           \* is it about to resume the stage before it?
  total               \* accumulate's sum

vars == <<args, frame, current_value, i, active, resuming, total>>

Stages == 1..4

(* The generator functions have returned: initial_suspend suspends, so none *)
(* of their bodies has begun.  accumulate is about to call a.begin().       *)
Init ==
  /\ args \in [limit: Limits, factor: Factors, addend: Addends]
  /\ frame = [k \in Stages |-> "suspended"]
  /\ current_value = [k \in Stages |-> 0]
  /\ i = 0
  /\ active = 5 /\ resuming = TRUE
  /\ total = 0

(* Mutated forms (named ..._Bug here and below) are never part of Next:     *)
(* each is a plausible slip that one of the properties must detect.         *)

AtEnd_StaleBug(k) == FALSE

(* An iterator that begin() or ++ has resumed its coroutine with compares   *)
(* equal to end() when the coroutine is done.                               *)
AtEnd(k) == frame[k] = "done"

-------------------------------------------------------------------------------
(* begin(), or ++: both resume the coroutine.  A stage that ranges over     *)
(* another one resumes it in turn, for the first or the next number.        *)
Resume ==
  /\ resuming
  /\ frame' = [frame EXCEPT ![active - 1] = "running"]
  /\ active' = active - 1
  /\ resuming' = (active - 1 > 1)
  /\ UNCHANGED <<args, current_value, i, total>>

(* yield_value, and back to the consumer. *)
Yields(k, v) ==
  /\ current_value' = [current_value EXCEPT ![k] = v]
  /\ frame' = [frame EXCEPT ![k] = "suspended"]

(* Off the end of the body, and back to the consumer. *)
Ends(k) ==
  /\ frame' = [frame EXCEPT ![k] = "done"]
  /\ UNCHANGED current_value

seq ==
  /\ active = 1
  /\ Yields(1, i)
  /\ i' = i + 1
  /\ active' = 2
  /\ UNCHANGED <<args, resuming, total>>

Accepted_OffByOneBug(k, v) == k # 2 \/ v <= args.limit

(* take_until breaks out of its loop, the others take what comes. *)
Accepted(k, v) == k # 2 \/ v < args.limit

Transformed(k, v) ==
  CASE k = 2 -> v
    [] k = 3 -> v * args.factor
    [] k = 4 -> v + args.addend

(* The loop body of take_until, multiply and add, up to its next suspension.*)
Adapts(k) ==
  /\ active = k /\ ~resuming
  /\ LET v == current_value[k - 1] IN
       IF ~AtEnd(k - 1) /\ Accepted(k, v)
         THEN Yields(k, Transformed(k, v))
         ELSE Ends(k)
  /\ active' = k + 1
  /\ UNCHANGED <<args, i, resuming, total>>

Accumulates ==
  /\ active = 5 /\ ~resuming
  /\ ~AtEnd(4)
  /\ total' = total + current_value[4]
  /\ resuming' = TRUE
  /\ UNCHANGED <<args, frame, current_value, i, active>>

Prints ==
  /\ active = 5 /\ ~resuming
  /\ AtEnd(4)
  /\ active' = 6
  /\ UNCHANGED <<args, frame, current_value, i, resuming, total>>

Living == {k \in Stages : frame[k] # "destroyed"}

NextDestroyed_OrderBug == CHOOSE k \in Living : \A j \in Living : k <= j

(* main's locals are destroyed in the reverse order of their declaration, *)
NextDestroyed == CHOOSE k \in Living : \A j \in Living : j <= k

(* and ~generator destroys the coroutine wherever it is suspended. *)
Destroys ==
  /\ active = 6 /\ Living # {}
  /\ frame' = [frame EXCEPT ![NextDestroyed] = "destroyed"]
  /\ UNCHANGED <<args, current_value, i, active, resuming, total>>

Exited ==
  /\ active = 6 /\ Living = {}
  /\ UNCHANGED vars

Next ==
  \/ Resume
  \/ seq
  \/ \E k \in 2..4 : Adapts(k)
  \/ Accumulates
  \/ Prints
  \/ Destroys
  \/ Exited

(* One thread, which goes on while it can. *)
Spec == Init /\ [][Next]_vars /\ WF_vars(Next)

-------------------------------------------------------------------------------
(* Only a coroutine that is suspended, and not at its end, is ever resumed, *)
(* whatever stage ends the pipeline first; and the frame that an iterator   *)
(* or a reference of another stage points to is there as long as that stage *)
(* is.                                                                      *)
FramesUsable ==
  /\ resuming => frame[active - 1] = "suspended"
  /\ \A k \in 2..4 : frame[k] # "destroyed" => frame[k - 1] # "destroyed"

(* The pipeline ends, with the sum that the loops without coroutines give,  *)
(* and having asked the endless seq for one number past the limit.          *)
Expected == MapThenSumSet(LAMBDA v : v * args.factor + args.addend,
                          0..(args.limit - 1))

PipelineComputesSum ==
  <>(Living = {} /\ total = Expected /\ i = args.limit + 1)
===============================================================================
