------------------------ MODULE GeneratorPipeline_proof ------------------------
(***************************************************************************)
(* Proofs about the generators, for any arguments that main may give.      *)
(*                                                                         *)
(* The invariant has a part about who runs, FrameInv: the stages from the  *)
(* active one up to main's are on the stack, those below are suspended     *)
(* unless the end of the numbers is on its way up, and at the end main     *)
(* destroys them from the top.  Its other part, ValueInv, says which       *)
(* number is on its way up and what the total accounts for.                *)
(***************************************************************************)
EXTENDS GeneratorPipeline, TLAPS

TypeInv ==
  /\ args \in [limit: Limits, factor: Factors, addend: Addends]
  /\ frame \in [Stages -> {"suspended", "running", "done", "destroyed"}]
  /\ current_value \in [Stages -> Int]
  /\ i \in Nat
  /\ active \in 1..6
  /\ resuming \in BOOLEAN
  /\ total \in Int

(* The stages that the active one has under it: it sees the last of them,   *)
(* and if that one is not done none is.                                     *)
FrameInv ==
  /\ resuming => active \in 2..5
  /\ active = 1 => ~resuming
  /\ active < 6 =>
       /\ \A k \in Stages :
            IF k >= active THEN frame[k] = "running"
                           ELSE frame[k] \in {"suspended", "done"}
       /\ active > 1 /\ (resuming \/ ~AtEnd(active - 1)) =>
            \A k \in Stages : k < active => frame[k] = "suspended"
  /\ active = 6 =>
       /\ ~resuming
       /\ \A k \in Stages :
            /\ frame[k] # "running"
            /\ frame[k] = "destroyed" =>
                 \A j \in Stages : j >= k => frame[j] = "destroyed"

(* The total is that of the first n numbers of seq: twice the sum of        *)
(* v * factor + addend for v in 0..(n - 1), without a recursive definition. *)
TotalOf(n) ==
  2 * total = args.factor * (n * (n - 1)) + 2 * (n * args.addend)

(* seq's last number, transformed by the stages up to k. *)
OnItsWay(k) ==
  CASE k \in 1..2 -> i - 1
    [] k = 3 -> (i - 1) * args.factor
    [] k = 4 -> (i - 1) * args.factor + args.addend

ValueInv ==
  /\ resuming \/ active = 1 => i <= args.limit /\ TotalOf(i)
  /\ active \in 2..5 /\ ~resuming =>
       IF AtEnd(active - 1)
         THEN i = args.limit + 1 /\ TotalOf(args.limit)
         ELSE /\ i > 0 /\ TotalOf(i - 1)
              /\ i - 1 <= args.limit
              /\ active > 2 => i - 1 < args.limit
              /\ current_value[active - 1] = OnItsWay(active - 1)
  /\ active = 6 => i = args.limit + 1 /\ TotalOf(args.limit)

IInv == TypeInv /\ FrameInv /\ ValueInv

-------------------------------------------------------------------------------
LEMMA InitIInv == Init => IInv
<1> SUFFICES ASSUME Init PROVE IInv
  OBVIOUS
<1> USE DEF Init, Stages
<1>1. TypeInv
  BY ArgumentsAssumption DEF TypeInv
<1>2. FrameInv
  BY DEF FrameInv
<1>3. ValueInv
  <2>1. args.limit \in Nat /\ args.factor \in Int /\ args.addend \in Int
    BY <1>1, ArgumentsAssumption DEF TypeInv
  <2>2. 0 <= args.limit /\ TotalOf(0)
    BY <2>1 DEF TotalOf
  <2> QED
    BY <2>2 DEF ValueInv
<1> QED
  BY <1>1, <1>2, <1>3 DEF IInv

(* The arguments are numbers. *)
LEMMA ArgumentTypes ==
  ASSUME TypeInv
  PROVE  args.limit \in Nat /\ args.factor \in Int /\ args.addend \in Int
BY ArgumentsAssumption DEF TypeInv

LEMMA ResumeIInv == IInv /\ Resume => IInv'
<1> SUFFICES ASSUME IInv, Resume PROVE IInv'
  OBVIOUS
<1> USE DEF Resume, IInv
<1>1. active \in 2..5 /\ active - 1 \in Stages
  BY DEF FrameInv, Stages
<1>2. TypeInv'
  BY <1>1 DEF TypeInv, Stages
<1>3. /\ active' \in 1..4 /\ active' = active - 1
      /\ active' = 1 <=> ~resuming'
  <2>1. active' = active - 1 /\ active' \in 1..4
    BY <1>1
  <2>2. resuming' <=> active - 1 > 1
    BY Zenon
  <2>3. active' = 1 <=> ~(active - 1 > 1)
    BY <2>1
  <2> QED
    BY <2>1, <2>2, <2>3, Zenon
<1>4. FrameInv'
  <2>1. \A k \in Stages :
          frame[k] = IF k >= active THEN "running" ELSE "suspended"
    BY <1>1 DEF FrameInv, Stages
  <2>2. \A k \in Stages :
          frame'[k] = IF k >= active' THEN "running" ELSE "suspended"
    BY <1>1, <1>3, <2>1 DEF TypeInv, Stages
  <2> QED
    BY <1>3, <2>2 DEF FrameInv, Stages
<1>5. ValueInv'
  <2>1. i <= args.limit /\ TotalOf(i)
    BY DEF ValueInv
  <2>2. (i <= args.limit /\ TotalOf(i))'
    BY <2>1 DEF TotalOf
  <2> QED
    BY <1>3, <2>2 DEF ValueInv
<1> QED
  BY <1>2, <1>4, <1>5

LEMMA SeqIInv == IInv /\ seq => IInv'
<1> SUFFICES ASSUME IInv, seq PROVE IInv'
  OBVIOUS
<1> USE DEF seq, IInv, Yields
<1>1. TypeInv'
  BY DEF TypeInv, Stages
<1>2. FrameInv'
  BY DEF TypeInv, FrameInv, Stages, AtEnd
<1>3. ValueInv'
  <2>1. /\ i \in Nat /\ i' = i + 1 /\ active' = 2 /\ ~resuming'
        /\ current_value'[1] = i /\ frame'[1] = "suspended"
    BY DEF TypeInv, FrameInv, Stages
  <2>2. i <= args.limit /\ TotalOf(i)
    BY DEF ValueInv
  <2>3. i' > 0 /\ i' - 1 = i /\ i' - 1 <= args.limit
    BY <2>1, <2>2, ArgumentTypes
  <2>4. TotalOf(i - 1)'
    <3>1. 2 * total = args.factor * (i * (i - 1)) + 2 * (i * args.addend)
      BY <2>2 DEF TotalOf
    <3>2. total' = total /\ args' = args /\ i' = i + 1
      OBVIOUS
    <3>3. i' - 1 = i
      BY <2>3
    <3>4. 2 * total' = args'.factor * ((i' - 1) * (i' - 1 - 1)) + 2 * ((i' - 1) * args'.addend)
      BY ONLY <3>1, <3>2, <3>3
    <3> QED
      BY <3>4 DEF TotalOf
  <2>5. ~AtEnd(1)' /\ current_value'[1] = OnItsWay(1)'
    BY <2>1, <2>3 DEF AtEnd, OnItsWay
  <2> QED
    BY <2>1, <2>3, <2>4, <2>5 DEF ValueInv
<1> QED
  BY <1>1, <1>2, <1>3

(* take_until lets a number pass only below the limit, and each stage makes *)
(* of it what the numbers on their way are.                                 *)
LEMMA TransformedIsOnItsWay ==
  ASSUME TypeInv, NEW k \in 2..4
  PROVE  /\ Transformed(k, OnItsWay(k - 1)) = OnItsWay(k)
         /\ OnItsWay(k) \in Int
<1> USE ArgumentTypes DEF Transformed, OnItsWay
<1>1. i \in Nat
  BY DEF TypeInv
<1>2. (i - 1) * args.factor \in Int
  BY <1>1
<1>3. CASE k = 2
  BY <1>1, <1>3
<1>4. CASE k = 3
  BY <1>1, <1>2, <1>4
<1>5. CASE k = 4
  BY <1>1, <1>2, <1>5
<1> QED
  BY <1>3, <1>4, <1>5

LEMMA AdaptsIInv ==
  ASSUME IInv, NEW k \in 2..4, Adapts(k)
  PROVE  IInv'
<1> USE DEF Adapts, IInv
<1>1. k \in Stages /\ k - 1 \in Stages /\ k + 1 \in 3..5
  BY DEF Stages
<1>2. CASE ~AtEnd(k - 1) /\ Accepted(k, current_value[k - 1])
  <2> DEFINE v == current_value[k - 1]
  <2>1. /\ v = OnItsWay(k - 1)
        /\ i \in Nat /\ i > 0 /\ TotalOf(i - 1)
        /\ i - 1 < args.limit
    BY <1>2, ArgumentTypes DEF ValueInv, Accepted, TypeInv, OnItsWay
  <2>2. Transformed(k, v) = OnItsWay(k) /\ OnItsWay(k) \in Int
    BY <2>1, TransformedIsOnItsWay
  <2>3. /\ current_value' = [current_value EXCEPT ![k] = OnItsWay(k)]
        /\ frame' = [frame EXCEPT ![k] = "suspended"]
    BY <1>2, <2>2 DEF Yields
  <2> HIDE DEF v
  <2>4. TypeInv'
    BY <1>1, <2>2, <2>3 DEF TypeInv, Stages
  <2>5. FrameInv'
    BY <1>1, <1>2, <2>3 DEF TypeInv, FrameInv, Stages, AtEnd
  <2>6. current_value'[k] = OnItsWay(k) /\ frame'[k] = "suspended"
    BY <1>1, <2>3 DEF TypeInv
  <2>7. OnItsWay(k)' = OnItsWay(k)
    BY DEF OnItsWay
  <2>8. ValueInv'
    BY <1>1, <2>1, <2>6, <2>7, ArgumentTypes DEF ValueInv, AtEnd, TotalOf
  <2> QED
    BY <2>4, <2>5, <2>8
<1>3. CASE ~(~AtEnd(k - 1) /\ Accepted(k, current_value[k - 1]))
  <2>1. frame' = [frame EXCEPT ![k] = "done"] /\ current_value' = current_value
    BY <1>3 DEF Ends
  <2>2. TypeInv'
    BY <1>1, <2>1 DEF TypeInv, Stages
  <2>3. FrameInv'
    BY <1>1, <2>1 DEF TypeInv, FrameInv, Stages, AtEnd
  <2>4. i = args.limit + 1 /\ TotalOf(args.limit)
    <3>1. CASE AtEnd(k - 1)
      BY <3>1 DEF ValueInv
    <3>2. CASE ~AtEnd(k - 1)
      <4>1. k = 2 /\ ~(i - 1 < args.limit) /\ i - 1 <= args.limit /\ TotalOf(i - 1)
        BY <1>3, <3>2 DEF ValueInv, Accepted, OnItsWay
      <4>2. i - 1 = args.limit /\ i = args.limit + 1
        BY <4>1, ArgumentTypes DEF TypeInv
      <4> QED
        BY <4>1, <4>2
    <3> QED
      BY <3>1, <3>2
  <2>5. frame'[k] = "done"
    BY <1>1, <2>1 DEF TypeInv
  <2>6. ValueInv'
    BY <1>1, <2>4, <2>5 DEF ValueInv, AtEnd, TotalOf
  <2> QED
    BY <2>2, <2>3, <2>6
<1> QED
  BY <1>2, <1>3

(* The sum of one more number. *)
LEMMA OneMore ==
  ASSUME NEW n \in Int, NEW f \in Int, NEW a \in Int, NEW t \in Int,
         2 * t = f * (n * (n - 1)) + 2 * (n * a)
  PROVE  2 * (t + (n * f + a)) = f * ((n + 1) * n) + 2 * ((n + 1) * a)
<1>1. 2 * (t + (n * f + a)) = f * (n * (n - 1)) + 2 * (n * a) + 2 * (n * f) + 2 * a
  BY SMT
<1>2. f * ((n + 1) * n) = f * (n * (n - 1)) + 2 * (n * f)
  BY SMT
<1>3. 2 * ((n + 1) * a) = 2 * (n * a) + 2 * a
  BY SMT
<1> QED
  BY <1>1, <1>2, <1>3

LEMMA AccumulatesIInv == IInv /\ Accumulates => IInv'
<1> SUFFICES ASSUME IInv, Accumulates PROVE IInv'
  OBVIOUS
<1> USE DEF Accumulates, IInv
<1>1. TypeInv'
  BY DEF TypeInv, Stages
<1>2. FrameInv'
  BY DEF TypeInv, FrameInv, Stages, AtEnd
<1>3. ValueInv'
  <2>1. /\ i \in Nat /\ i > 0 /\ TotalOf(i - 1) /\ i - 1 < args.limit
        /\ current_value[4] = (i - 1) * args.factor + args.addend
    BY DEF TypeInv, ValueInv, OnItsWay
  <2>2. TotalOf(i)'
    <3>1. 2 * total = args.factor * ((i - 1) * (i - 1 - 1)) + 2 * ((i - 1) * args.addend)
      BY <2>1 DEF TotalOf
    <3>2. total' = total + ((i - 1) * args.factor + args.addend)
      BY <2>1
    <3>3. i - 1 \in Int /\ total \in Int
      BY DEF TypeInv
    <3>4. 2 * (total + ((i - 1) * args.factor + args.addend))
            = args.factor * ((i - 1 + 1) * (i - 1)) + 2 * ((i - 1 + 1) * args.addend)
      BY <3>1, <3>3, OneMore, ArgumentTypes
    <3>5. i - 1 + 1 = i
      BY <2>1
    <3> QED
      BY <3>2, <3>4, <3>5 DEF TotalOf
  <2>3. i <= args.limit
    BY <2>1, ArgumentTypes
  <2> QED
    BY <2>2, <2>3 DEF ValueInv, TotalOf
<1> QED
  BY <1>1, <1>2, <1>3

LEMMA PrintsIInv == IInv /\ Prints => IInv'
<1> SUFFICES ASSUME IInv, Prints PROVE IInv'
  OBVIOUS
<1> USE DEF Prints, IInv
<1>1. TypeInv'
  BY DEF TypeInv, Stages
<1>2. FrameInv'
  BY DEF TypeInv, FrameInv, Stages, AtEnd
<1>3. ValueInv'
  BY DEF ValueInv, TotalOf
<1> QED
  BY <1>1, <1>2, <1>3

(* What is destroyed next is the last of the frames that are left. *)
LEMMA NextDestroyedIsLast ==
  ASSUME Living # {}
  PROVE  /\ NextDestroyed \in Living
         /\ \A j \in Living : j <= NextDestroyed
<1>1. Living \subseteq 1..4
  BY DEF Living, Stages
<1>2. \E k \in Living : \A j \in Living : j <= k
  <2>1. CASE 4 \in Living
    BY <1>1, <2>1
  <2>2. CASE 4 \notin Living /\ 3 \in Living
    BY <1>1, <2>2
  <2>3. CASE 4 \notin Living /\ 3 \notin Living /\ 2 \in Living
    BY <1>1, <2>3
  <2>4. CASE 4 \notin Living /\ 3 \notin Living /\ 2 \notin Living
    <3>1. PICK k \in Living : TRUE
      OBVIOUS
    <3>2. \A j \in Living : j = 1
      BY <1>1, <2>4
    <3> QED
      BY <3>1, <3>2
  <2> QED
    BY <2>1, <2>2, <2>3, <2>4
<1> QED
  BY <1>2 DEF NextDestroyed

LEMMA DestroysIInv == IInv /\ Destroys => IInv'
<1> SUFFICES ASSUME IInv, Destroys PROVE IInv'
  OBVIOUS
<1> USE DEF Destroys, IInv
<1>1. PICK k \in Stages :
        /\ \A j \in Stages : frame[j] # "destroyed" => j <= k
        /\ frame' = [frame EXCEPT ![k] = "destroyed"]
  BY NextDestroyedIsLast DEF Living
<1>2. TypeInv'
  BY <1>1 DEF TypeInv
<1>3. FrameInv'
  BY <1>1 DEF TypeInv, FrameInv, Stages
<1>4. ValueInv'
  BY DEF ValueInv, TotalOf
<1> QED
  BY <1>2, <1>3, <1>4

LEMMA NextIInv == IInv /\ [Next]_vars => IInv'
<1> SUFFICES ASSUME IInv, [Next]_vars PROVE IInv'
  OBVIOUS
<1>1. CASE UNCHANGED vars
  BY <1>1 DEF vars, IInv, TypeInv, FrameInv, ValueInv, AtEnd, TotalOf, OnItsWay
<1>2. CASE Exited
  BY <1>1, <1>2 DEF Exited
<1> QED
  BY <1>1, <1>2, ResumeIInv, SeqIInv, AdaptsIInv, AccumulatesIInv, PrintsIInv, DestroysIInv
     DEF Next

-------------------------------------------------------------------------------
(* The invariant of the pipeline: which frames are on the stack, suspended, *)
(* done or destroyed, and which numbers main has accumulated.               *)
THEOREM PipelineInvariant == Spec => []IInv
<1>1. Init => IInv
  BY InitIInv
<1>2. IInv /\ [Next]_vars => IInv'
  BY NextIInv
<1> QED
  BY <1>1, <1>2, PTL DEF Spec

(* Whichever stage ends first, begin() and ++ only resume a coroutine that  *)
(* is suspended and not at its end, and main destroys no frame before those *)
(* of the stages that range over it.                                        *)
THEOREM FramesAreUsable == Spec => []FramesUsable
<1>1. IInv => FramesUsable
  <2> SUFFICES ASSUME IInv PROVE FramesUsable
    OBVIOUS
  <2>1. resuming => frame[active - 1] = "suspended"
    BY DEF IInv, FrameInv, Stages
  <2>2. ASSUME NEW k \in 2..4, frame[k - 1] = "destroyed"
        PROVE  frame[k] = "destroyed"
    BY <2>2 DEF IInv, TypeInv, FrameInv, Stages
  <2> QED
    BY <2>1, <2>2 DEF FramesUsable
<1> QED
  BY <1>1, PipelineInvariant, PTL

(* What main prints is the sum over 0..(limit - 1) of v * factor + addend,  *)
(* in closed form, and seq was asked for exactly one number more than the   *)
(* limit: no stage drops, repeats or reorders a number, however the         *)
(* pipeline stops.  (That it does stop is PipelineComputesSum.)             *)
THEOREM PrintedSumIsExact ==
  Spec => [](active = 6 =>
               /\ 2 * total = args.factor * (args.limit * (args.limit - 1))
                                + 2 * (args.limit * args.addend)
               /\ i = args.limit + 1)
<1>1. IInv => (active = 6 =>
                 /\ 2 * total = args.factor * (args.limit * (args.limit - 1))
                                  + 2 * (args.limit * args.addend)
                 /\ i = args.limit + 1)
  BY DEF IInv, ValueInv, TotalOf
<1> QED
  BY <1>1, PipelineInvariant, PTL

-------------------------------------------------------------------------------
(* The steps that are left.  Each number takes ten of them, from main's     *)
(* resume down to seq and up to main again; the numbers left are those up   *)
(* to and with the limit, and what follows them is main's destructors.      *)
Number == IF resuming \/ active = 1 THEN i ELSE i - 1

Turn == IF active = 1 THEN 5
        ELSE IF resuming THEN active + 4 ELSE 6 - active

Frames == (IF frame[1] = "destroyed" THEN 0 ELSE 1) +
          (IF frame[2] = "destroyed" THEN 0 ELSE 1) +
          (IF frame[3] = "destroyed" THEN 0 ELSE 1) +
          (IF frame[4] = "destroyed" THEN 0 ELSE 1)

Left == IF active = 6 THEN Frames
                      ELSE 10 * (args.limit - Number) + Turn + 4

(* Whatever a stage does brings the end nearer: no stage asks seq, which    *)
(* never ends, for a number too many, or resumes one that has no more.      *)
RunsDown == Left \in Nat /\ Left' \in Nat /\ Left' < Left

LeftInRange ==
  /\ Number \in Int /\ Turn \in 1..9 /\ Number <= args.limit /\ args.limit \in Nat
  /\ Left = 10 * (args.limit - Number) + Turn + 4
  /\ Left \in Nat /\ Left > 4

LEMMA LeftWhileRunning == IInv /\ active # 6 => LeftInRange
<1> SUFFICES ASSUME IInv, active # 6 PROVE LeftInRange
  OBVIOUS
<1>1. args.limit \in Nat /\ i \in Nat /\ active \in 1..5
  BY ArgumentTypes DEF IInv, TypeInv
<1>2. resuming => active \in 2..5
  BY DEF IInv, FrameInv
<1>3. Number \in Int /\ Turn \in 1..9
  BY <1>1, <1>2 DEF Number, Turn
<1>4. Number <= args.limit
  <2>1. CASE resuming \/ active = 1
    BY <1>1, <2>1 DEF IInv, ValueInv, Number
  <2>2. CASE ~(resuming \/ active = 1)
    <3>1. active \in 2..5 /\ ~resuming
      BY <1>1, <2>2
    <3>2. i = args.limit + 1 \/ i - 1 <= args.limit
      BY <3>1 DEF IInv, ValueInv
    <3> QED
      BY <1>1, <2>2, <3>2 DEF Number
  <2> QED
    BY <2>1, <2>2
<1>5. Left = 10 * (args.limit - Number) + Turn + 4
  BY DEF Left
<1>6. Left \in Nat /\ Left > 4
  <2>1. PICK n \in Int, u \in 1..9, m \in Nat : n = Number /\ u = Turn /\ m = args.limit
    BY <1>1, <1>3
  <2>2. n <= m /\ Left = 10 * (m - n) + u + 4
    BY <1>4, <1>5, <2>1
  <2> QED
    BY <2>1, <2>2
<1> QED
  BY <1>1, <1>3, <1>4, <1>5, <1>6 DEF LeftInRange

(* A step of a stage is a turn further on, or begins the next number. *)
LEMMA LaterTurn ==
  ASSUME IInv, IInv', active # 6, active' # 6, args' = args,
         \/ Number' = Number /\ Turn' = Turn - 1
         \/ Number' = Number + 1 /\ Turn = 1 /\ Turn' = 9
  PROVE  RunsDown
<1>1. /\ Number \in Int /\ Turn \in 1..9 /\ args.limit \in Nat
      /\ Left = 10 * (args.limit - Number) + Turn + 4 /\ Left \in Nat
  BY LeftWhileRunning DEF LeftInRange
<1>2. /\ Number' \in Int /\ Turn' \in 1..9
      /\ Left' = 10 * (args.limit - Number') + Turn' + 4 /\ Left' \in Nat
  <2>1. (IInv /\ active # 6 => LeftInRange)'
    BY LeftWhileRunning, PTL
  <2> QED
    BY <2>1 DEF LeftInRange
<1>3. PICK n \in Int, nn \in Int, u \in 1..9, uu \in 1..9, m \in Nat :
        /\ n = Number /\ nn = Number' /\ u = Turn /\ uu = Turn' /\ m = args.limit
  BY <1>1, <1>2
<1>4. PICK a \in Nat, b \in Nat : a = Left /\ b = Left'
  BY <1>1, <1>2
<1>5. /\ a = 10 * (m - n) + u + 4 /\ b = 10 * (m - nn) + uu + 4
      /\ (nn = n /\ uu = u - 1) \/ (nn = n + 1 /\ u = 1 /\ uu = 9)
  BY <1>1, <1>2, <1>3, <1>4
<1>6. b < a
  BY <1>5
<1> QED
  BY <1>4, <1>6 DEF RunsDown

LEMMA StageStepLeft ==
  ASSUME IInv, IInv', Resume \/ seq \/ Accumulates \/ \E k \in 2..4 : Adapts(k)
  PROVE  RunsDown
<1>1. i \in Nat /\ active \in 1..6 /\ (resuming => active \in 2..5)
  BY DEF IInv, TypeInv, FrameInv
<1>2. CASE Resume
  <2>1. /\ active \in 2..5 /\ resuming /\ active' = active - 1 /\ i' = i /\ args' = args
        /\ resuming' <=> active - 1 > 1
    BY <1>1, <1>2, Zenon DEF Resume
  <2>2. Turn = active + 4
    BY <2>1 DEF Turn
  <2>3. Turn' = Turn - 1
    <3>1. CASE active = 2
      BY <2>1, <2>2, <3>1 DEF Turn
    <3>2. CASE active # 2
      BY <2>1, <2>2, <3>2 DEF Turn
    <3> QED
      BY <3>1, <3>2
  <2>4. Number' = Number
    BY <2>1 DEF Number
  <2> QED
    BY <2>1, <2>3, <2>4, LaterTurn
<1>3. CASE seq
  <2>1. /\ active = 1 /\ active' = 2 /\ ~resuming /\ ~resuming' /\ i' = i + 1
        /\ args' = args
    BY <1>1, <1>3 DEF seq
  <2>2. Turn' = Turn - 1 /\ Number' = Number
    BY <1>1, <2>1 DEF Turn, Number
  <2> QED
    BY <2>1, <2>2, LaterTurn
<1>4. CASE Accumulates
  <2>1. /\ active = 5 /\ active' = 5 /\ ~resuming /\ resuming' /\ i' = i
        /\ args' = args
    BY <1>4 DEF Accumulates
  <2>2. Turn = 1 /\ Turn' = 9 /\ Number' = Number + 1
    BY <1>1, <2>1 DEF Turn, Number
  <2> QED
    BY <2>1, <2>2, LaterTurn
<1>5. ASSUME NEW k \in 2..4, Adapts(k) PROVE RunsDown
  <2>1. /\ active = k /\ active' = k + 1 /\ ~resuming /\ ~resuming' /\ i' = i
        /\ args' = args
    BY <1>5 DEF Adapts
  <2>2. Turn' = Turn - 1 /\ Number' = Number
    BY <1>1, <2>1 DEF Turn, Number
  <2> QED
    BY <2>1, <2>2, LaterTurn
<1> QED
  BY <1>2, <1>3, <1>4, <1>5

LEMMA EndStepLeft ==
  ASSUME IInv, IInv', Prints \/ Destroys PROVE RunsDown
<1>1. active' = 6
  BY DEF Prints, Destroys
<1>2. Left' = Frames' /\ Left' \in 0..4
  BY <1>1 DEF Left, Frames
<1>3. CASE Prints
  <2>1. Left \in Nat /\ Left > 4
    BY <1>3, LeftWhileRunning DEF Prints, LeftInRange
  <2>2. PICK a \in Nat, b \in 0..4 : a = Left /\ b = Left'
    BY <1>2, <2>1
  <2>3. b < a
    BY <2>1, <2>2
  <2> QED
    BY <2>2, <2>3 DEF RunsDown
<1>4. CASE Destroys
  <2>1. NextDestroyed \in Living /\ Living \subseteq Stages
    BY <1>4, NextDestroyedIsLast DEF Destroys, Living
  <2>2. PICK d \in 1..4 : d = NextDestroyed /\ frame[d] # "destroyed"
    BY <2>1 DEF Living, Stages
  <2>3. /\ frame' = [frame EXCEPT ![d] = "destroyed"] /\ DOMAIN frame = 1..4
        /\ active = 6
    BY <1>4, <2>2 DEF Destroys, IInv, TypeInv, Stages
  <2>4. Left = Frames
    BY <2>3 DEF Left
  <2>5. Frames = Frames' + 1
    BY <2>2, <2>3 DEF Frames
  <2>6. Left \in 0..4
    BY <2>4 DEF Frames
  <2>7. PICK a \in 0..4, b \in 0..4 : a = Left /\ b = Left'
    BY <1>2, <2>6
  <2>8. a = b + 1
    BY <1>2, <2>4, <2>5, <2>7
  <2>9. b < a /\ a \in Nat /\ b \in Nat
    BY <2>8
  <2> QED
    BY <2>7, <2>9 DEF RunsDown
<1> QED
  BY <1>3, <1>4

(* The safety half of PipelineComputesSum: for every limit, each step takes *)
(* the pipeline nearer to its end, though seq has none.  With               *)
(* PrintedSumIsExact, only that the thread goes on is left to fairness.     *)
THEOREM PipelineRunsDown == Spec => [][RunsDown]_vars
<1>1. IInv /\ IInv' /\ [Next]_vars => [RunsDown]_vars
  BY StageStepLeft, EndStepLeft DEF Next, Exited
<1> QED
  BY <1>1, PipelineInvariant, PTL DEF Spec
===============================================================================
