------------------------ MODULE DecisionEngineProofs ------------------------
(***************************************************************************)
(* Type correctness of the decision engine, that every schedule its loop   *)
(* makes can be drawn from, that its counter keeps up with the minutes and *)
(* that the gauges end up on a schedule that was stored, for every bound   *)
(* on the counter and any number of overrides.                             *)
(***************************************************************************)
EXTENDS DecisionEngine, TLAPS

-----------------------------------------------------------------------------
(* The weights of one step.  fix_sum_to_100 takes what exceeds 100 from    *)
(* the greatest weight alone, so the point is that the greatest weight can *)
(* always pay: the three sines add up to 0 and one of them is at least     *)
(* half the amplitude, so the other two weights stay below 100.            *)

\* The residues of the steps that give the three flavours' phases.
LEMMA Residues ==
  ASSUME NEW k \in Nat
  PROVE  /\ k % 12 \in 0..11
         /\ (k + 4) % 12 = (IF k % 12 < 8 THEN (k % 12) + 4 ELSE (k % 12) - 8)
         /\ (k + 8) % 12 = (IF k % 12 < 4 THEN (k % 12) + 8 ELSE (k % 12) - 4)
<1>1. k % 12 \in 0..11
  OBVIOUS
<1>2. (k + 4) % 12 = (IF k % 12 < 8 THEN (k % 12) + 4 ELSE (k % 12) - 8)
  OBVIOUS
<1>3. (k + 8) % 12 = (IF k % 12 < 4 THEN (k % 12) + 8 ELSE (k % 12) - 4)
  OBVIOUS
<1> QED
  BY <1>1, <1>2, <1>3

\* The sine at each residue.
LEMMA SineAtResidue ==
  ASSUME NEW k \in Nat
  PROVE  /\ k % 12 \in {0, 6} => Sine30(k) = 0
         /\ k % 12 \in {1, 5} => Sine30(k) = 15
         /\ k % 12 \in {2, 4} => Sine30(k) = 26
         /\ k % 12 = 3 => Sine30(k) = 30
         /\ k % 12 \in {7, 11} => Sine30(k) = -15
         /\ k % 12 \in {8, 10} => Sine30(k) = -26
         /\ k % 12 = 9 => Sine30(k) = -30
<1>1. k % 12 \in {0, 6} => Sine30(k) = 0
  BY DEF Sine30
<1>2. k % 12 \in {1, 5} => Sine30(k) = 15
  BY DEF Sine30
<1>3. k % 12 \in {2, 4} => Sine30(k) = 26
  BY DEF Sine30
<1>4. k % 12 = 3 => Sine30(k) = 30
  BY DEF Sine30
<1>5. k % 12 \in {7, 11} => Sine30(k) = -15
  BY DEF Sine30
<1>6. k % 12 \in {8, 10} => Sine30(k) = -26
  BY DEF Sine30
<1>7. k % 12 = 9 => Sine30(k) = -30
  BY DEF Sine30
<1> QED
  BY <1>1, <1>2, <1>3, <1>4, <1>5, <1>6, <1>7

\* The values of the sine.
SineValues == {0, 15, 26, 30, -15, -26, -30}

\* The phases of the three flavours: their sines cancel out, and one of them is
\* at least 15.
LEMMA SineTriple ==
  ASSUME NEW k \in Nat
  PROVE  /\ Sine30(k) \in SineValues
         /\ Sine30(k + 4) \in SineValues
         /\ Sine30(k + 8) \in SineValues
         /\ Sine30(k) + Sine30(k + 4) + Sine30(k + 8) = 0
         /\ Sine30(k) >= 15 \/ Sine30(k + 4) >= 15 \/ Sine30(k + 8) >= 15
<1> DEFINE i == k % 12
           Ok(a, b, c) == /\ a \in SineValues /\ b \in SineValues /\ c \in SineValues
                          /\ a + b + c = 0
                          /\ a >= 15 \/ b >= 15 \/ c >= 15
<1>1. i \in 0..11
  BY Residues
<1>2. k + 4 \in Nat /\ k + 8 \in Nat
  OBVIOUS
<1>3. CASE i \in 0..3
  <2>1. (k + 4) % 12 = i + 4 /\ (k + 8) % 12 = i + 8
    BY <1>3, Residues
  <2> HIDE DEF i
  <2>2. (k + 4) % 12 = i + 4 /\ (k + 8) % 12 = i + 8 /\ k % 12 = i
    BY <2>1 DEF i
  <2>3. Ok(Sine30(k), Sine30(k + 4), Sine30(k + 8))
    <3>0. CASE i = 0 BY <3>0, <2>2, <1>2, SineAtResidue, SMT DEF SineValues
    <3>1. CASE i = 1 BY <3>1, <2>2, <1>2, SineAtResidue, SMT DEF SineValues
    <3>2. CASE i = 2 BY <3>2, <2>2, <1>2, SineAtResidue, SMT DEF SineValues
    <3>3. CASE i = 3 BY <3>3, <2>2, <1>2, SineAtResidue, SMT DEF SineValues
    <3> QED BY <1>3, <3>0, <3>1, <3>2, <3>3
  <2> QED BY <2>3
<1>4. CASE i \in 4..7
  <2>1. (k + 4) % 12 = i + 4 /\ (k + 8) % 12 = i - 4
    BY <1>4, Residues
  <2> HIDE DEF i
  <2>2. (k + 4) % 12 = i + 4 /\ (k + 8) % 12 = i - 4 /\ k % 12 = i
    BY <2>1 DEF i
  <2>3. Ok(Sine30(k), Sine30(k + 4), Sine30(k + 8))
    <3>0. CASE i = 4 BY <3>0, <2>2, <1>2, SineAtResidue, SMT DEF SineValues
    <3>1. CASE i = 5 BY <3>1, <2>2, <1>2, SineAtResidue, SMT DEF SineValues
    <3>2. CASE i = 6 BY <3>2, <2>2, <1>2, SineAtResidue, SMT DEF SineValues
    <3>3. CASE i = 7 BY <3>3, <2>2, <1>2, SineAtResidue, SMT DEF SineValues
    <3> QED BY <1>4, <3>0, <3>1, <3>2, <3>3
  <2> QED BY <2>3
<1>5. CASE i \in 8..11
  <2>1. (k + 4) % 12 = i - 8 /\ (k + 8) % 12 = i - 4
    BY <1>5, Residues
  <2> HIDE DEF i
  <2>2. (k + 4) % 12 = i - 8 /\ (k + 8) % 12 = i - 4 /\ k % 12 = i
    BY <2>1 DEF i
  <2>3. Ok(Sine30(k), Sine30(k + 4), Sine30(k + 8))
    <3>0. CASE i = 8 BY <3>0, <2>2, <1>2, SineAtResidue, SMT DEF SineValues
    <3>1. CASE i = 9 BY <3>1, <2>2, <1>2, SineAtResidue, SMT DEF SineValues
    <3>2. CASE i = 10 BY <3>2, <2>2, <1>2, SineAtResidue, SMT DEF SineValues
    <3>3. CASE i = 11 BY <3>3, <2>2, <1>2, SineAtResidue, SMT DEF SineValues
    <3> QED BY <1>5, <3>0, <3>1, <3>2, <3>3
  <2> QED BY <2>3
<1> QED
  BY <1>1, <1>3, <1>4, <1>5

\* round10 moves a weight by no more than 5.
LEMMA Rounding ==
  ASSUME NEW x \in Int, NEW r \in Round10(x)
  PROVE  r \in Int /\ x - 5 <= r /\ r <= x + 5
  BY DEF Round10

\* vals.index(max(vals)) is the position of a greatest weight.
LEMMA MaxIsThere ==
  ASSUME NEW a \in Int, NEW b \in Int, NEW c \in Int
  PROVE  LET v == <<a, b, c>> IN
         /\ IndexOfMax(v) \in Positions
         /\ \A j \in Positions : v[j] <= v[IndexOfMax(v)]
<1> DEFINE v == <<a, b, c>>
<1> DEFINE P(i) == /\ \A j \in Positions : v[j] <= v[i]
                   /\ \A j \in Positions : j < i => v[j] < v[i]
<1>1. CASE b <= a /\ c <= a
  <2>1. P(1) BY <1>1 DEF Positions
  <2> QED BY <2>1 DEF Positions, IndexOfMax
<1>2. CASE a < b /\ c <= b
  <2>1. P(2) BY <1>2 DEF Positions
  <2> QED BY <2>1 DEF Positions, IndexOfMax
<1>3. CASE a < c /\ b < c
  <2>1. P(3) BY <1>3 DEF Positions
  <2> QED BY <2>1 DEF Positions, IndexOfMax
<1> QED
  BY <1>1, <1>2, <1>3

\* fix_sum_to_100 adds what is missing to 100 to a greatest weight.
LEMMA FixedSum ==
  ASSUME NEW a \in Int, NEW b \in Int, NEW c \in Int
  PROVE  LET v == <<a, b, c>>
             w == FixSumTo100(v)
             gap == 100 - (a + b + c)
         IN  \/ w = <<a + gap, b, c>> /\ b <= a /\ c <= a
             \/ w = <<a, b + gap, c>> /\ a <= b /\ c <= b
             \/ w = <<a, b, c + gap>> /\ a <= c /\ b <= c
<1> DEFINE v == <<a, b, c>>
           m == IndexOfMax(v)
           gap == 100 - (a + b + c)
<1>1. m \in Positions /\ \A j \in Positions : v[j] <= v[m]
  BY MaxIsThere
<1>2. FixSumTo100(v) = [v EXCEPT ![m] = @ + gap]
  BY DEF FixSumTo100, Sum3
<1> HIDE DEF m
<1>3. CASE m = 1
  BY <1>1, <1>2, <1>3 DEF Positions
<1>4. CASE m = 2
  BY <1>1, <1>2, <1>4 DEF Positions
<1>5. CASE m = 3
  BY <1>1, <1>2, <1>5 DEF Positions
<1> QED
  BY <1>1, <1>3, <1>4, <1>5 DEF Positions

\* Whatever the step and whichever way the halves are rounded, every weight that
\* generate_weights returns is in 0..100 and each distribution adds up to 100.
THEOREM WeightsAreDrawable ==
  ASSUME NEW k \in Nat, NEW w \in GenerateWeights(k)
  PROVE  Drawable(w)
<1> DEFINE s1 == Sine30(k)
           s2 == Sine30(k + 4)
           s3 == Sine30(k + 8)
<1>1. PICK r \in [direct : Round10(60 + s1), low : Round10(50 + s1),
                  mid : Round10(50 + s2), high : Round10(50 + s3)] :
        w = [directWeight |-> r.direct, queueWeight |-> 100 - r.direct,
             flavourWeights |-> FixSumTo100(<<r.low, r.mid, r.high>>)]
  BY DEF GenerateWeights
<1> DEFINE d == r.direct
           low == r.low
           mid == r.mid
           high == r.high
<1>2. /\ s1 \in SineValues /\ s2 \in SineValues /\ s3 \in SineValues
      /\ s1 + s2 + s3 = 0
      /\ s1 >= 15 \/ s2 >= 15 \/ s3 >= 15
  BY SineTriple
<1> HIDE DEF s1, s2, s3
<1>3. s1 \in Int /\ s2 \in Int /\ s3 \in Int
  BY <1>2 DEF SineValues
<1>4. /\ d \in Int /\ 55 + s1 <= d /\ d <= 65 + s1
      /\ low \in Int /\ 45 + s1 <= low /\ low <= 55 + s1
      /\ mid \in Int /\ 45 + s2 <= mid /\ mid <= 55 + s2
      /\ high \in Int /\ 45 + s3 <= high /\ high <= 55 + s3
  <2>1. 60 + s1 \in Int /\ 50 + s1 \in Int /\ 50 + s2 \in Int /\ 50 + s3 \in Int
    BY <1>3
  <2> QED
    BY <1>3, <2>1, Rounding
<1> HIDE DEF d, low, mid, high
<1>5. d \in 0..100 /\ 100 - d \in 0..100 /\ d + (100 - d) = 100
  BY <1>2, <1>3, <1>4 DEF SineValues
<1> DEFINE f == FixSumTo100(<<low, mid, high>>)
           gap == 100 - (low + mid + high)
<1>6. \/ f = <<low + gap, mid, high>> /\ mid <= low /\ high <= low
      \/ f = <<low, mid + gap, high>> /\ low <= mid /\ high <= mid
      \/ f = <<low, mid, high + gap>> /\ low <= high /\ mid <= high
  BY <1>4, FixedSum
<1> HIDE DEF f
<1>7. (\A i \in Positions : f[i] \in 0..100) /\ Sum3(f) = 100
  <2>1. CASE f = <<low + gap, mid, high>> /\ mid <= low /\ high <= low
    <3>1. s1 >= 15
      BY <2>1, <1>2, <1>3, <1>4 DEF SineValues
    <3>2. low + gap \in 0..100 /\ mid \in 0..100 /\ high \in 0..100
      BY <3>1, <1>2, <1>3, <1>4 DEF SineValues
    <3> QED BY <2>1, <3>2, <1>4 DEF Positions, Sum3
  <2>2. CASE f = <<low, mid + gap, high>> /\ low <= mid /\ high <= mid
    <3>1. s2 >= 15
      BY <2>2, <1>2, <1>3, <1>4 DEF SineValues
    <3>2. low \in 0..100 /\ mid + gap \in 0..100 /\ high \in 0..100
      BY <3>1, <1>2, <1>3, <1>4 DEF SineValues
    <3> QED BY <2>2, <3>2, <1>4 DEF Positions, Sum3
  <2>3. CASE f = <<low, mid, high + gap>> /\ low <= high /\ mid <= high
    <3>1. s3 >= 15
      BY <2>3, <1>2, <1>3, <1>4 DEF SineValues
    <3>2. low \in 0..100 /\ mid \in 0..100 /\ high + gap \in 0..100
      BY <3>1, <1>2, <1>3, <1>4 DEF SineValues
    <3> QED BY <2>3, <3>2, <1>4 DEF Positions, Sum3
  <2> QED BY <1>6, <2>1, <2>2, <2>3
<1> QED
  BY <1>1, <1>5, <1>7 DEF Drawable, f, d, low, mid, high

-----------------------------------------------------------------------------
(* The two threads.                                                        *)

IInv == TypeOK /\ MadeIsDrawable

LEMMA InitInv == Init => IInv
  BY EngineAssumption DEF Init, IInv, TypeOK, MadeIsDrawable, Gauges, Threads, Generated

\* The counter stays within its bound.
LEMMA CounterBounded ==
  ASSUME NEW n \in 0..MaxStep
  PROVE  Plus1(n) \in 0..MaxStep
BY EngineAssumption DEF Plus1

\* Every step keeps the invariant; only LoopMakes makes a schedule.
LEMMA StepInv == IInv /\ [Next]_vars => IInv'
<1> SUFFICES ASSUME IInv, [Next]_vars
             PROVE  IInv'
  OBVIOUS
<1> USE DEF IInv, Goto, Threads
<1>1. CASE LoopLoads
  BY <1>1 DEF LoopLoads, TypeOK, MadeIsDrawable
<1>2. CASE LoopAdds
  BY <1>2, CounterBounded DEF LoopAdds, TypeOK, MadeIsDrawable
<1>3. CASE LoopMakes
  <2>1. PICK w \in GenerateWeights(step) : made' = [step |-> step, weights |-> w]
    BY <1>3 DEF LoopMakes
  <2>2. step \in 0..MaxStep /\ step \in Nat
    BY EngineAssumption DEF TypeOK
  <2>3. made' \in Generated
    BY <2>1, <2>2 DEF Generated
  <2>4. TypeOK'
    BY <1>3, <2>3 DEF LoopMakes, TypeOK
  <2>5. Drawable(w)
    BY <2>2, WeightsAreDrawable
  <2> QED
    BY <2>1, <2>4, <2>5 DEF MadeIsDrawable
<1>4. CASE LoopStores
  BY <1>4 DEF LoopStores, Store, TypeOK, MadeIsDrawable
<1>5. ASSUME NEW g \in Gauges, LoopGauge(g)
      PROVE  IInv'
  BY <1>5 DEF LoopGauge, TypeOK, MadeIsDrawable, Gauges
<1>6. ASSUME NEW o \in Overrides, OverrideStores(o)
      PROVE  IInv'
  BY <1>6 DEF OverrideStores, Store, TypeOK, MadeIsDrawable
<1>7. ASSUME NEW o \in Overrides, OverrideAdds(o)
      PROVE  IInv'
  BY <1>7, CounterBounded DEF OverrideAdds, TypeOK, MadeIsDrawable
<1>8. ASSUME NEW o \in Overrides, NEW g \in Gauges, OverrideGauge(o, g)
      PROVE  IInv'
  BY <1>8 DEF OverrideGauge, TypeOK, MadeIsDrawable, Gauges
<1>9. CASE UNCHANGED vars
  BY <1>9 DEF vars, TypeOK, MadeIsDrawable
<1> QED
  BY <1>1, <1>2, <1>3, <1>4, <1>5, <1>6, <1>7, <1>8, <1>9
     DEF Next, LoopRuns, OverrideRuns

\* Type correctness.
THEOREM TypeCorrect == Spec => []TypeOK
<1>1. IInv => TypeOK
  BY DEF IInv
<1> QED
  BY InitInv, StepInv, <1>1, PTL DEF Spec

\* Whatever overrides and the loop do to the shared counter, the weights that
\* generate_weights and fix_sum_to_100 make of it are percentages that add up
\* to 100, which is what the routers' weighted choice and the operator rely on.
THEOREM SchedulesAreDrawable == Spec => []MadeIsDrawable
<1>1. IInv => MadeIsDrawable
  BY DEF IInv
<1> QED
  BY InitInv, StepInv, <1>1, PTL DEF Spec

-----------------------------------------------------------------------------
(* The counter.                                                            *)

\* The lock is held exactly between an override's load and its store.
LockInv ==
  /\ lock \in Overrides \cup {Free}
  /\ \A o \in Overrides : pc[o] = "add" <=> lock = o

\* What an increment is about to store is no less than the minutes after it:
\* while an override holds the lock the loop increments once at most, because
\* it then waits for the lock.
CounterInv ==
  /\ minutes <= step
  /\ pc[Loop] = "add" => minutes <= seen[Loop]
  /\ \A o \in Overrides : pc[o] = "add" =>
       minutes <= IF pc[Loop] \in {"make", "store"} THEN seen[o] + 1 ELSE seen[o]

\* An increment of a counter that is not behind does not put it behind.
LEMMA IncrementKeepsUp ==
  ASSUME NEW m \in 0..MaxStep, NEW n \in 0..MaxStep
  PROVE  /\ m <= n => Plus1(m) <= Plus1(n)
         /\ m <= n + 1 => m <= Plus1(n)
         /\ Plus1(m) <= m + 1
BY EngineAssumption DEF Plus1

LEMMA CounterInit == Init => LockInv /\ CounterInv
  BY EngineAssumption DEF Init, LockInv, CounterInv, Threads, Loop, Free

\* Every step keeps the lock's and the counter's invariant.
LEMMA CounterStep == TypeOK /\ LockInv /\ CounterInv /\ [Next]_vars => (LockInv /\ CounterInv)'
<1> SUFFICES ASSUME TypeOK, LockInv, CounterInv, [Next]_vars
             PROVE  (LockInv /\ CounterInv)'
  OBVIOUS
<1> USE EngineAssumption DEF Goto, Threads, Loop, Free
<1>a. /\ pc \in [Threads -> {"start", "add", "make", "store", "direct", "flavour", "end"}]
      /\ seen \in [Threads -> 0..MaxStep]
      /\ step \in 0..MaxStep /\ minutes \in 0..MaxStep /\ MaxStep \in Nat
  BY DEF TypeOK
<1>1. CASE LoopLoads
  BY <1>1, <1>a DEF LoopLoads, LockInv, CounterInv
<1>2. CASE LoopAdds
  <2>1. LockInv'
    BY <1>2, <1>a DEF LoopAdds, LockInv
  <2>2. minutes' <= step'
    BY <1>2, <1>a, IncrementKeepsUp DEF LoopAdds, CounterInv
  <2>3. minutes' <= minutes + 1
    BY <1>2, <1>a, IncrementKeepsUp DEF LoopAdds
  <2>4. minutes' \in Int
    BY <1>2, <1>a DEF LoopAdds, Plus1
  <2>5. ASSUME NEW o \in Overrides, pc'[o] = "add"
        PROVE  minutes' <= seen'[o] + 1
    <3>1. pc[o] = "add" /\ seen'[o] = seen[o] /\ seen[o] \in 0..MaxStep
      BY <1>2, <2>5, <1>a DEF LoopAdds
    <3>2. minutes <= seen[o]
      BY <1>2, <3>1 DEF LoopAdds, CounterInv
    <3> QED
      BY <2>3, <2>4, <3>1, <3>2, <1>a
  <2>6. pc'[Loop] = "make"
    BY <1>2, <1>a DEF LoopAdds
  <2> QED
    BY <2>1, <2>2, <2>5, <2>6 DEF CounterInv
<1>3. CASE LoopMakes
  BY <1>3, <1>a DEF LoopMakes, LockInv, CounterInv
<1>4. CASE LoopStores
  BY <1>4, <1>a DEF LoopStores, LockInv, CounterInv
<1>5. ASSUME NEW g \in Gauges, LoopGauge(g)
      PROVE  (LockInv /\ CounterInv)'
  BY <1>5, <1>a DEF LoopGauge, LockInv, CounterInv, Gauges
<1>6. ASSUME NEW o \in Overrides, OverrideStores(o)
      PROVE  (LockInv /\ CounterInv)'
  <2>1. LockInv'
    BY <1>6, <1>a DEF OverrideStores, LockInv
  <2>2. /\ minutes' <= step'
        /\ pc'[Loop] = "add" => minutes' <= seen'[Loop]
    BY <1>6, <1>a DEF OverrideStores, CounterInv
  <2>3. ASSUME NEW p \in Overrides, pc'[p] = "add"
        PROVE  minutes' <= seen'[p] /\ seen'[p] \in Int
    BY <1>6, <1>a, <2>1, <2>3 DEF OverrideStores, CounterInv, LockInv
  <2> QED
    BY <2>1, <2>2, <2>3, <1>6, <1>a DEF OverrideStores, CounterInv
<1>7. ASSUME NEW o \in Overrides, OverrideAdds(o)
      PROVE  (LockInv /\ CounterInv)'
  <2>1. LockInv'
    BY <1>7, <1>a DEF OverrideAdds, LockInv
  <2>2. minutes <= seen[o] + 1 /\ seen[o] \in 0..MaxStep
    BY <1>7, <1>a DEF OverrideAdds, CounterInv
  <2>3. minutes' <= step'
    BY <1>7, <1>a, <2>2, IncrementKeepsUp DEF OverrideAdds
  <2> QED
    BY <1>7, <1>a, <2>1, <2>3 DEF OverrideAdds, CounterInv, LockInv
<1>8. ASSUME NEW o \in Overrides, NEW g \in Gauges, OverrideGauge(o, g)
      PROVE  (LockInv /\ CounterInv)'
  BY <1>8, <1>a DEF OverrideGauge, LockInv, CounterInv, Gauges
<1>9. CASE UNCHANGED vars
  BY <1>9 DEF vars, LockInv, CounterInv
<1> QED
  BY <1>1, <1>2, <1>3, <1>4, <1>5, <1>6, <1>7, <1>8, <1>9
     DEF Next, LoopRuns, OverrideRuns

\* Increments of the loop and of overrides overwrite each other, yet the counter
\* is never behind the minutes: it may lose an override's increment against the
\* loop's or the reverse, never both.
THEOREM CounterNeverBehind == Spec => []CounterKeepsUp
<1>1. LockInv /\ CounterInv => CounterKeepsUp
  BY DEF CounterInv, CounterKeepsUp
<1>2. IInv => TypeOK
  BY DEF IInv
<1> QED
  BY InitInv, StepInv, CounterInit, CounterStep, <1>1, <1>2, PTL DEF Spec

-----------------------------------------------------------------------------
(* The gauges.                                                             *)

\* The schedule a thread updates the gauges from.
Own(t) == IF t = Loop THEN made ELSE t

\* What has been stored since the last time no update was in progress: the
\* schedule in use, those still to be put in the gauges, and those that are there.
GaugeInv ==
  /\ pc[Loop] # "end"
  /\ schedule \in stored
  /\ \A t \in Updating : Own(t) \in stored
  /\ gauge["direct"] \notin stored => \E t \in Updating : pc[t] # "flavour"
  /\ ~(stored \subseteq Malformed) /\ gauge["flavour"] \notin stored =>
       \E t \in Updating : t \notin Malformed

LEMMA GaugeInit == Init => GaugeInv
<1> SUFFICES ASSUME Init PROVE GaugeInv
  OBVIOUS
<1>1. Updating = {}
  BY EngineAssumption DEF Init, Updating, Threads, Loop, Free
<1> QED
  BY <1>1 DEF Init, GaugeInv, Gauges, Threads, Loop

\* Who is updating after a step that moves one thread.
LEMMA UpdatingIs ==
  ASSUME TypeOK, LockInv
  PROVE  \A t \in Threads :
           t \in Updating <=> pc[t] \in {"direct", "flavour"} \/ (t # Loop /\ pc[t] = "add")
BY EngineAssumption DEF Updating, Threads, Loop, Free, LockInv

\* A step that stores s keeps the invariant when its thread is updating after it.
LEMMA StoreKeeps ==
  ASSUME TypeOK, LockInv, LockInv', TypeOK', GaugeInv,
         NEW t \in Threads, Store(Own(t)'), Own(t)' = Own(t), t \notin Updating,
         pc'[t] = IF t = Loop THEN "direct" ELSE "add",
         \A u \in Threads \ {t} : pc'[u] = pc[u] /\ Own(u)' = Own(u),
         UNCHANGED gauge, pc'[Loop] # "end"
  PROVE  GaugeInv'
<1>1. \A u \in Threads : u \in Updating' <=> u = t \/ u \in Updating
  <2>1. \A u \in Threads :
          u \in Updating' <=> pc'[u] \in {"direct", "flavour"} \/ (u # Loop /\ pc'[u] = "add")
    BY EngineAssumption DEF Updating, Threads, Loop, Free, LockInv
  <2> QED
    BY <2>1, UpdatingIs
<1>2. Updating \subseteq Threads /\ Updating' \subseteq Threads
  BY DEF Updating
<1>3. Own(t) \in stored' /\ schedule' \in stored'
  BY DEF Store
<1>4. t \in Updating' /\ pc'[t] # "flavour"
  BY <1>1
<1>5. Loop \notin Malformed
  BY EngineAssumption DEF Loop
<1>6. CASE Updating = {}
  <2>1. stored' = {Own(t)} /\ Updating' = {t}
    BY <1>1, <1>2, <1>6 DEF Store
  <2>2. t \notin Malformed \/ stored' \subseteq Malformed
    BY <2>1, <1>5 DEF Own
  <2> QED
    BY <1>3, <1>4, <2>1, <2>2 DEF GaugeInv
<1>7. CASE Updating # {}
  <2>1. stored' = stored \cup {Own(t)} /\ Updating' = Updating \cup {t}
    BY <1>1, <1>2, <1>7 DEF Store
  <2>2. \A u \in Updating' : Own(u)' \in stored'
    BY <1>2, <2>1 DEF GaugeInv
  <2>3. ~(stored' \subseteq Malformed) => t \notin Malformed \/ ~(stored \subseteq Malformed)
    BY <2>1, <1>5 DEF Own
  <2> QED
    BY <1>3, <1>4, <2>1, <2>2, <2>3 DEF GaugeInv
<1> QED
  BY <1>6, <1>7

\* A step that neither stores nor sets a gauge, and leaves every update in
\* progress in progress.
LEMMA QuietKeeps ==
  ASSUME GaugeInv, UNCHANGED <<schedule, stored, gauge>>, Updating' = Updating,
         \A t \in Updating : Own(t)' = Own(t) /\ (pc'[t] = "flavour" => pc[t] = "flavour"),
         pc'[Loop] # "end"
  PROVE  GaugeInv'
BY DEF GaugeInv

\* A thread puts its own schedule into gauge g, and goes on or ends.
LEMMA GaugeKeeps ==
  ASSUME TypeOK, GaugeInv, UNCHANGED <<schedule, stored, made, lock>>, LockInv,
         NEW t \in Threads, NEW g \in Gauges, pc[t] = g,
         gauge' = [gauge EXCEPT ![g] = Own(t)],
         pc'[t] = "flavour" \/ (g = "direct" /\ t \in Malformed) \/ g = "flavour",
         \A u \in Threads \ {t} : pc'[u] = pc[u],
         pc'[t] \notin {"direct", "add"}, pc'[Loop] # "end"
  PROVE  GaugeInv'
<1>1. /\ gauge \in [Gauges -> Generated \cup Overrides \cup {NoSchedule}]
      /\ g \in {"direct", "flavour"}
  BY DEF TypeOK, Gauges
<1>2. t \in Updating
  BY <1>1 DEF Updating
<1>3. Own(t) \in stored /\ \A u \in Updating : Own(u)' \in stored
  BY <1>2 DEF GaugeInv, Own
<1>4. Updating' \subseteq Updating /\ \A u \in Updating : u # t => u \in Updating'
  BY <1>2 DEF Updating
<1>5. CASE g = "direct"
  <2>1. gauge'["direct"] \in stored /\ gauge'["flavour"] = gauge["flavour"]
    BY <1>1, <1>3, <1>5 DEF Gauges
  <2>2. t \notin Malformed => t \in Updating'
    BY <1>5 DEF Updating
  <2> QED
    BY <1>3, <1>4, <2>1, <2>2 DEF GaugeInv
<1>6. CASE g = "flavour"
  <2>1. gauge'["flavour"] \in stored /\ gauge'["direct"] = gauge["direct"]
    BY <1>1, <1>3, <1>6 DEF Gauges
  <2>2. \A u \in Updating : pc[u] # "flavour" => u \in Updating' /\ pc'[u] # "flavour"
    BY <1>4, <1>6 DEF Updating
  <2> QED
    BY <1>3, <1>4, <2>1, <2>2 DEF GaugeInv
<1> QED
  BY <1>1, <1>5, <1>6

\* Every step of the loop and of the overrides keeps it.
LEMMA GaugeStep == TypeOK /\ LockInv /\ TypeOK' /\ LockInv' /\ GaugeInv /\ [Next]_vars => GaugeInv'
<1> SUFFICES ASSUME TypeOK, LockInv, TypeOK', LockInv', GaugeInv, [Next]_vars
             PROVE  GaugeInv'
  OBVIOUS
<1>a. /\ pc \in [Threads -> {"start", "add", "make", "store", "direct", "flavour", "end"}]
      /\ Loop \in Threads /\ Overrides \subseteq Threads /\ Loop \notin Overrides
      /\ Loop \notin Malformed /\ Free \notin Threads /\ lock # Loop
  BY EngineAssumption DEF TypeOK, Threads, LockInv, Loop, Free
<1>b. pc[Loop] # "end"
  BY DEF GaugeInv
<1> HIDE DEF Loop, Free
<1>1. CASE LoopLoads \/ LoopAdds \/ LoopMakes
  <2>1. /\ pc[Loop] \in {"start", "add", "make"} /\ pc'[Loop] \in {"add", "make", "store"}
        /\ \A t \in Threads \ {Loop} : pc'[t] = pc[t]
        /\ UNCHANGED <<schedule, stored, gauge, lock>>
    BY <1>1, <1>a DEF LoopLoads, LoopAdds, LoopMakes, Goto
  <2>2. Updating' = Updating /\ Loop \notin Updating
    BY <1>a, <2>1 DEF Updating
  <2>3. \A t \in Updating : t \in Threads \ {Loop}
    BY <2>2 DEF Updating
  <2>4. \A t \in Updating : Own(t)' = Own(t) /\ pc'[t] = pc[t]
    BY <2>1, <2>3 DEF Own
  <2> QED
    BY <2>1, <2>2, <2>4, QuietKeeps
<1>2. CASE LoopStores
  <2>1. /\ pc[Loop] = "store" /\ pc'[Loop] = "direct"
        /\ \A t \in Threads \ {Loop} : pc'[t] = pc[t]
        /\ Store(made) /\ made' = made /\ UNCHANGED gauge
    BY <1>2, <1>a DEF LoopStores, Goto
  <2>2. Loop \notin Updating
    BY <1>a, <2>1 DEF Updating
  <2>3. Own(Loop) = made /\ \A u \in Threads : Own(u)' = Own(u)
    BY <2>1 DEF Own
  <2> QED
    BY <1>a, <2>1, <2>2, <2>3, StoreKeeps
<1>3. ASSUME NEW g \in Gauges, LoopGauge(g)
      PROVE  GaugeInv'
  <2>1. /\ pc[Loop] = g /\ pc'[Loop] = IF g = "direct" THEN "flavour" ELSE "start"
        /\ \A t \in Threads \ {Loop} : pc'[t] = pc[t]
        /\ gauge' = [gauge EXCEPT ![g] = made]
        /\ UNCHANGED <<schedule, stored, made, lock>>
    BY <1>3, <1>a DEF LoopGauge, Goto
  <2>2. Own(Loop) = made
    BY DEF Own
  <2> QED
    BY <1>a, <2>1, <2>2, GaugeKeeps DEF Gauges
<1>4. ASSUME NEW o \in Overrides, OverrideStores(o)
      PROVE  GaugeInv'
  <2>1. /\ pc[o] = "start" /\ pc'[o] = "add" /\ lock = Free
        /\ \A t \in Threads \ {o} : pc'[t] = pc[t]
        /\ Store(o) /\ made' = made /\ UNCHANGED gauge
    BY <1>4, <1>a DEF OverrideStores, Goto
  <2>2. o \notin Updating
    BY <1>a, <2>1 DEF Updating
  <2>3. Own(o) = o /\ \A u \in Threads : Own(u)' = Own(u)
    BY <1>a, <2>1 DEF Own
  <2> QED
    BY <1>a, <1>b, <2>1, <2>2, <2>3, StoreKeeps
<1>5. ASSUME NEW o \in Overrides, OverrideAdds(o)
      PROVE  GaugeInv'
  <2>1. /\ pc[o] = "add" /\ pc'[o] = "direct" /\ made' = made
        /\ \A t \in Threads \ {o} : pc'[t] = pc[t]
        /\ UNCHANGED <<schedule, stored, gauge>>
    BY <1>5, <1>a DEF OverrideAdds, Goto
  <2>2. lock = o /\ lock' = Free
    BY <1>5 DEF OverrideAdds, LockInv
  <2>3. Updating' = Updating
    BY <1>a, <2>1, <2>2 DEF Updating
  <2>4. \A t \in Updating : Own(t)' = Own(t) /\ (pc'[t] = "flavour" => pc[t] = "flavour")
    BY <2>1 DEF Own, Updating
  <2> QED
    BY <1>a, <1>b, <2>1, <2>3, <2>4, QuietKeeps
<1>6. ASSUME NEW o \in Overrides, NEW g \in Gauges, OverrideGauge(o, g)
      PROVE  GaugeInv'
  <2>1. /\ pc[o] = g
        /\ pc'[o] = IF g = "direct" /\ o \notin Malformed THEN "flavour" ELSE "end"
        /\ \A t \in Threads \ {o} : pc'[t] = pc[t]
        /\ gauge' = [gauge EXCEPT ![g] = o]
        /\ UNCHANGED <<schedule, stored, made, lock>>
    BY <1>6, <1>a DEF OverrideGauge, Goto
  <2>2. Own(o) = o
    BY <1>a DEF Own
  <2> QED
    BY <1>a, <1>b, <2>1, <2>2, GaugeKeeps DEF Gauges
<1>7. CASE UNCHANGED vars
  BY <1>7 DEF vars, GaugeInv, Updating, Own
<1> QED
  BY <1>1, <1>2, <1>3, <1>4, <1>5, <1>6, <1>7 DEF Next, LoopRuns, OverrideRuns

\* However the loop and any number of overrides interleave, outside the updates
\* the gauges are on a schedule of the last updates that overlapped (update_metrics
\* after the lock is released), or, when none did, on the one in use.
THEOREM GaugesEndOnAStored == Spec => []GaugesBehindOnlyByRace
<1>1. GaugeInv => GaugesBehindOnlyByRace
  BY DEF GaugeInv, GaugesBehindOnlyByRace
<1>2. IInv => TypeOK
  BY DEF IInv
<1> QED
  BY InitInv, StepInv, CounterInit, CounterStep, GaugeInit, GaugeStep, <1>1, <1>2, PTL DEF Spec
=============================================================================
