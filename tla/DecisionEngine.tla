--------------------------- MODULE DecisionEngine ---------------------------
(***************************************************************************)
(* decision-engine/decision-engine.py: a thread that makes a new schedule  *)
(* every minute and the HTTP threads that override it.  They share the     *)
(* schedule, the step counter and the gauges; the lock covers the schedule *)
(* and the override's increment of the counter, neither the loop's         *)
(* increment nor the gauges.  Reading the schedule (GET /schedule) changes *)
(* nothing and is left out.                                                *)
(***************************************************************************)
EXTENDS ScheduleWeights

CONSTANTS
  Overrides,     \* POSTs of /setschedule
  Malformed,     \* those whose body update_metrics cannot digest
  NoSchedule,
  MaxStep        \* bound: the step counter stops there

ASSUME EngineAssumption ==
  /\ Malformed \subseteq Overrides
  /\ {"loop", "free"} \cap Overrides = {}
  /\ MaxStep \in Nat

VARIABLES
  schedule,   \* current_schedule
  step,       \* step_counter
  lock,       \* who holds schedule_lock
  gauge,      \* the schedule each group of gauges was last set from
  pc,         \* where each thread is
  seen,       \* the counter as a thread loaded it to increment it
  made,       \* the loop's new_sched
  minutes,    \* how often the loop has incremented the counter (history)
  stored      \* schedules stored since last no update was in progress (history)

vars == <<schedule, step, lock, gauge, pc, seen, made, minutes, stored>>

Loop    == "loop"
Free    == "free"
Threads == Overrides \cup {Loop}

\* The gauges that are set first, and those that are set after a point where a
\* malformed schedule raises.
Gauges == {"direct", "flavour"}

\* A schedule is a manual one, named by its POST, or that of a step.
Generated == {[step |-> n, weights |-> w] :
                n \in 0..MaxStep, w \in UNION {GenerateWeights(k) : k \in 0..MaxStep}}
Made(s) == s # NoSchedule /\ s \notin Overrides

TypeOK ==
  /\ schedule \in Generated \cup Overrides \cup {NoSchedule}
  /\ step \in 0..MaxStep
  /\ lock \in Threads \cup {Free}
  /\ gauge \in [Gauges -> Generated \cup Overrides \cup {NoSchedule}]
  /\ pc \in [Threads -> {"start", "add", "make", "store", "direct", "flavour", "end"}]
  /\ seen \in [Threads -> 0..MaxStep]
  /\ made \in Generated \cup {NoSchedule}
  /\ minutes \in 0..MaxStep
  /\ stored \subseteq Generated \cup Overrides \cup {NoSchedule}

Init ==
  /\ schedule = NoSchedule
  /\ step = 0
  /\ lock = Free
  /\ gauge = [g \in Gauges |-> NoSchedule]
  /\ pc = [t \in Threads |-> "start"]
  /\ seen = [t \in Threads |-> 0]
  /\ made = NoSchedule
  /\ minutes = 0
  /\ stored = {NoSchedule}

Goto(t, where) == pc' = [pc EXCEPT ![t] = where]
Plus1(n) == IF n < MaxStep THEN n + 1 ELSE n

\* Threads between the store of a schedule and the end of update_metrics.
Updating == {t \in Threads : pc[t] \in {"direct", "flavour"} \/ lock = t}

Store(s) ==
  /\ schedule' = s
  /\ stored' = (IF Updating = {} THEN {} ELSE stored) \cup {s}

-----------------------------------------------------------------------------
\* step_counter += 1 loads the counter ...
LoopLoads ==
  /\ pc[Loop] = "start"
  /\ Goto(Loop, "add")
  /\ seen' = [seen EXCEPT ![Loop] = step]
  /\ UNCHANGED <<schedule, step, lock, gauge, made, minutes, stored>>

\* ... and stores it, without the lock.
LoopAdds ==
  /\ pc[Loop] = "add"
  /\ Goto(Loop, "make")
  /\ step' = Plus1(seen[Loop])
  /\ minutes' = Plus1(minutes)
  /\ UNCHANGED <<schedule, lock, gauge, seen, made, stored>>

\* make_schedule(step_counter), with the counter as it is by now.
LoopMakes ==
  /\ pc[Loop] = "make"
  /\ Goto(Loop, "store")
  /\ \E w \in GenerateWeights(step) : made' = [step |-> step, weights |-> w]
  /\ UNCHANGED <<schedule, step, lock, gauge, seen, minutes, stored>>

\* Mutant of LoopStores: the loop does not wait for the lock.
LoopStoresUnlocked ==
  /\ pc[Loop] = "store"
  /\ Goto(Loop, "direct")
  /\ Store(made)
  /\ UNCHANGED <<step, lock, gauge, seen, made, minutes>>

LoopStores ==
  /\ pc[Loop] = "store"
  /\ lock = Free
  /\ Goto(Loop, "direct")
  /\ Store(made)
  /\ UNCHANGED <<step, lock, gauge, seen, made, minutes>>

\* Mutants of LoopGauge: the gauges are set from the schedule in use, and the
\* thread dies on a malformed one; the second group of gauges is forgotten.
LoopGaugeShared(g) ==
  /\ pc[Loop] = g
  /\ Goto(Loop, IF g = "direct" /\ schedule \in Malformed THEN "end"
                ELSE IF g = "direct" THEN "flavour" ELSE "start")
  /\ gauge' = [gauge EXCEPT ![g] = schedule]
  /\ UNCHANGED <<schedule, step, lock, seen, made, minutes, stored>>

LoopGaugeDirect(g) ==
  /\ pc[Loop] = g
  /\ Goto(Loop, "start")
  /\ gauge' = [gauge EXCEPT !["direct"] = made]
  /\ UNCHANGED <<schedule, step, lock, seen, made, minutes, stored>>

\* update_metrics(new_sched), one group of gauges after the other; then the
\* loop sleeps until the next minute.
LoopGauge(g) ==
  /\ pc[Loop] = g
  /\ Goto(Loop, IF g = "direct" THEN "flavour" ELSE "start")
  /\ gauge' = [gauge EXCEPT ![g] = made]
  /\ UNCHANGED <<schedule, step, lock, seen, made, minutes, stored>>

\* set_schedule, under the lock: store the body and load the counter ...
OverrideStores(o) ==
  /\ pc[o] = "start"
  /\ lock = Free
  /\ Goto(o, "add")
  /\ lock' = o
  /\ Store(o)
  /\ seen' = [seen EXCEPT ![o] = step]
  /\ UNCHANGED <<step, gauge, made, minutes>>

\* Mutant of OverrideAdds: the body is taken for a made schedule.
OverrideMakes(o) ==
  /\ pc[o] = "add"
  /\ Goto(o, "direct")
  /\ step' = Plus1(seen[o])
  /\ lock' = Free
  /\ made' = o
  /\ UNCHANGED <<schedule, gauge, seen, minutes, stored>>

\* ... store it, and release the lock.
OverrideAdds(o) ==
  /\ pc[o] = "add"
  /\ Goto(o, "direct")
  /\ step' = Plus1(seen[o])
  /\ lock' = Free
  /\ UNCHANGED <<schedule, gauge, seen, made, minutes, stored>>

\* update_metrics(data); a malformed body raises between the two groups, after
\* it has become the schedule.
OverrideGauge(o, g) ==
  /\ pc[o] = g
  /\ Goto(o, IF g = "direct" /\ o \notin Malformed THEN "flavour" ELSE "end")
  /\ gauge' = [gauge EXCEPT ![g] = o]
  /\ UNCHANGED <<schedule, step, lock, seen, made, minutes, stored>>

LoopRuns ==
  LoopLoads \/ LoopAdds \/ LoopMakes \/ LoopStores \/ \E g \in Gauges : LoopGauge(g)

OverrideRuns(o) == OverrideAdds(o) \/ \E g \in Gauges : OverrideGauge(o, g)

Next ==
  \/ LoopRuns
  \/ \E o \in Overrides : OverrideStores(o) \/ OverrideRuns(o)

Spec == Init /\ [][Next]_vars

\* Threads run on; the lock is free again and again because its holders do not
\* block.
FairSpec ==
  /\ Spec
  /\ SF_vars(LoopRuns)
  /\ \A o \in Overrides : WF_vars(OverrideRuns(o))

-----------------------------------------------------------------------------
\* Every schedule the loop makes can be drawn from, whatever the rounding.
MadeIsDrawable == made # NoSchedule => Drawable(made.weights)

\* Gauges are set after the lock is released, each thread from its own schedule.
\* They still end up on a schedule that was stored while updates overlapped, and
\* so on the very one in use when none did; the second group keeps an older one
\* only if every schedule stored since made update_metrics raise.
GaugesBehindOnlyByRace ==
  Updating = {} =>
    /\ {schedule, gauge["direct"]} \subseteq stored
    /\ ~(stored \subseteq Malformed) => gauge["flavour"] \in stored

\* The counter never falls behind the minutes the loop has counted ("increments
\* by 1 each minute"), although the loop increments it without the lock and so
\* loses increments: an override has the lock from its load to its store, and
\* between two increments of its own the loop needs the lock, so that at most
\* the one the override makes up for is overwritten.
CounterKeepsUp == minutes <= step

\* An override, malformed or not, that is in use gives way to a made schedule:
\* a body that makes update_metrics raise ends its own request, not the loop.
OverrideIsTransient == schedule \in Overrides ~> Made(schedule)
=============================================================================
