-------------------------- MODULE ScheduleWeights ---------------------------
(***************************************************************************)
(* decision-engine/decision-engine.py, round10, fix_sum_to_100 and         *)
(* generate_weights: the weights of the schedule of a step, twelve steps a *)
(* turn of the sinusoid.                                                   *)
(***************************************************************************)
EXTENDS Integers

\* 30 * sin(k * 30 degrees), to the integer: 25.98 counts as 26, which rounds
\* to the same multiple of ten with every offset used below.
Sine30(k) ==
  LET quarter == <<0, 15, 26, 30, 26, 15>>
      i == k % 12
  IN  IF i < 6 THEN quarter[i + 1] ELSE -quarter[i - 5]

\* round10: the nearest multiple of ten.  Half way between two of them the
\* floating-point error of the sine decides, so both may come out.
Round10(x) ==
  LET down == (x \div 10) * 10
  IN  {r \in {down, down + 10} : x - 5 <= r /\ r <= x + 5}

\* The positions of low-power, mid-power and high-power.
Positions == 1..3

Sum3(v) == v[1] + v[2] + v[3]

\* vals.index(max(vals))
IndexOfMax(v) ==
  CHOOSE i \in Positions :
    /\ \A j \in Positions : v[j] <= v[i]
    /\ \A j \in Positions : j < i => v[j] < v[i]

\* Mutant of FixSumTo100: the difference is taken the wrong way round.
FixSumBackwards(v) == [v EXCEPT ![IndexOfMax(v)] = @ - (100 - Sum3(v))]

FixSumTo100(v) == [v EXCEPT ![IndexOfMax(v)] = @ + (100 - Sum3(v))]

\* generate_weights: what may come out for a step.
GenerateWeights(step) ==
  {[directWeight |-> r.direct, queueWeight |-> 100 - r.direct,
    flavourWeights |-> FixSumTo100(<<r.low, r.mid, r.high>>)] :
      r \in [direct : Round10(60 + Sine30(step)),
             low    : Round10(50 + Sine30(step)),
             mid    : Round10(50 + Sine30(step + 4)),
             high   : Round10(50 + Sine30(step + 8))]}

\* The weights of a schedule the routers can draw from: no weight is negative,
\* each distribution adds up to 100.
Drawable(w) ==
  /\ w.directWeight \in 0..100 /\ w.queueWeight \in 0..100
  /\ w.directWeight + w.queueWeight = 100
  /\ \A i \in Positions : w.flavourWeights[i] \in 0..100
  /\ Sum3(w.flavourWeights) = 100
=============================================================================
