------------------ MODULE TrafficScheduleControllerProofs -------------------
(***************************************************************************)
(* Polling never stops, for every number of schedules, disturbances and    *)
(* failures.  PollingGoesOn is not inductive: a specification edited twice *)
(* before the watch delivers needs no event, and the key must be awake all *)
(* the same.  What a step keeps is KeyAlive, the key of every object the   *)
(* informer has is awake, and OldTells: the API server has the copy a      *)
(* reconciliation works on unless old is set.                              *)
(***************************************************************************)
EXTENDS TrafficScheduleController, TLAPS

KeyAlive == cache # Absent => Awake(queue)

OldTells == run # Idle /\ ~run.old => world = run.existing

IndInv == TypeOK /\ KeyAlive /\ OldTells

\* The operations of the work queue keep its type.
LEMMA QueueTypes ==
  ASSUME NEW q \in WorkQueueType, NEW again \in BOOLEAN
  PROVE  /\ Empty \in WorkQueueType
         /\ AddedIf(q, again) \in WorkQueueType
         /\ Got(q) \in WorkQueueType
         /\ Done(q, again) \in WorkQueueType
         /\ Fired(q) \in WorkQueueType
  BY DEF WorkQueueType, Empty, AddedIf, Got, Done, Fired

\* Every requeue delay is positive and at most the poll interval, whatever the
\* validUntil: the result of Reconcile always requeues (a RequeueAfter of zero
\* would not), and does so within a minute.
THEOREM PollDelayBounds ==
  ASSUME NEW until \in Int
  PROVE  PollDelay(until) \in 1..pollInterval
  BY DEF PollDelay, pollInterval

\* Init establishes the invariant.
LEMMA InitInv == Init => IndInv
<1> SUFFICES ASSUME Init PROVE IndInv
  OBVIOUS
<1> USE ScheduleAssumption
<1>1. queue \in WorkQueueType /\ queue.busy = FALSE
      /\ (world # Absent => queue.dirty)
  BY DEF Init, AddedIf, Empty, WorkQueueType
<1>2. TypeOK
  <2>1. world \in TrafficSchedules \cup {Absent}
    BY DEF Init, TrafficSchedules, Statuses
  <2>2. run \in Runs \cup {Idle} /\ (queue.busy <=> run # Idle)
    BY <1>1 DEF Init
  <2>3. disturbed \in 0..MaxDisturbances /\ failed \in 0..MaxFailures
    BY DEF Init
  <2> QED
    BY <1>1, <2>1, <2>2, <2>3 DEF Init, TypeOK
<1>3. KeyAlive
  BY <1>1 DEF Init, KeyAlive, Awake
<1> QED
  BY <1>2, <1>3 DEF IndInv, OldTells, Init

\* A reconciliation in progress is not Idle.
LEMMA RunIsNotIdle == \A r \in Runs : r # Idle
  BY DEF Runs, Idle

\* Every step keeps the invariant.
LEMMA StepInv == IndInv /\ [Next]_vars => IndInv'
<1> SUFFICES ASSUME IndInv, [Next]_vars PROVE IndInv'
  OBVIOUS
<1> USE ScheduleAssumption, RunIsNotIdle DEF IndInv
<1>1. CASE Watch
  <2>1. queue' \in WorkQueueType /\ queue'.busy = queue.busy
        /\ (Awake(queue) => Awake(queue')) /\ (Notices => Awake(queue'))
    BY <1>1 DEF Watch, TypeOK, WorkQueueType, AddedIf, Awake
  <2> QED
    BY <1>1, <2>1 DEF Watch, TypeOK, KeyAlive, OldTells, Notices
<1>2. CASE Fire
  BY <1>2 DEF Fire, TypeOK, KeyAlive, OldTells, WorkQueueType, Fired, Awake
<1>3. CASE BeginGone
  BY <1>3 DEF BeginGone, TypeOK, KeyAlive, OldTells, WorkQueueType, CanGet, Got, Done
<1>4. CASE BeginAsk
  <2>1. queue' \in WorkQueueType /\ queue'.busy /\ run' \in Runs
    BY <1>4 DEF BeginAsk, TypeOK, WorkQueueType, Got, Runs, Statuses
  <2>2. TypeOK'
    BY <1>4, <2>1 DEF BeginAsk, TypeOK
  <2>3. OldTells'
    BY <1>4, <2>1 DEF BeginAsk, TypeOK, OldTells
  <2>4. KeyAlive'
    BY <2>1 DEF KeyAlive, Awake
  <2> QED
    BY <2>2, <2>3, <2>4
<1>5. ASSUME Fail PROVE /\ run' = Idle /\ queue' \in WorkQueueType
                        /\ ~queue'.busy /\ Awake(queue')
  BY <1>5 DEF Fail, TypeOK, WorkQueueType, Done, Awake
<1>6. CASE EngineFails
  BY <1>6, <1>5 DEF EngineFails, TypeOK, KeyAlive, OldTells
<1>7. CASE EngineHangs
  <2>1. run \in Runs
    BY <1>7 DEF EngineHangs, TypeOK, Idle
  <2>2. run' \in Runs /\ run'.old = run.old /\ run'.existing = run.existing
    BY <1>7, <2>1 DEF EngineHangs, Runs
  <2> QED
    BY <1>7, <2>1, <2>2 DEF EngineHangs, TypeOK, KeyAlive, OldTells
<1>8. CASE EngineAnswers
  <2>1. run \in Runs
    BY <1>8 DEF EngineAnswers, TypeOK, Idle
  <2>2. run' \in Runs /\ run'.old = run.old /\ run'.existing = run.existing
    BY <1>8, <2>1 DEF EngineAnswers, TypeOK, Runs
  <2> QED
    BY <1>8, <2>1, <2>2 DEF EngineAnswers, TypeOK, KeyAlive, OldTells
<1>9. CASE Store
  <2>1. PICK until \in Untils : queue' = Done(queue, PollDelay(until) > 0)
    BY <1>9 DEF Store
  <2>2. PollDelay(until) > 0
    <3>1. until \in Int
      BY <2>1
    <3> QED
      BY <3>1 DEF PollDelay, pollInterval
  <2>3. queue' \in WorkQueueType /\ ~queue'.busy /\ Awake(queue')
    BY <2>1, <2>2 DEF TypeOK, WorkQueueType, Done, Awake
  <2>4. world' \in TrafficSchedules
    <3>1. run \in Runs /\ ~run.old
      BY <1>9 DEF Store, TypeOK, Idle
    <3>2. world \in TrafficSchedules
      BY <3>1 DEF OldTells, Runs
    <3> QED
      BY <1>9, <3>1, <3>2 DEF Store, TrafficSchedules, Runs
  <2> QED
    BY <1>9, <2>3, <2>4 DEF Store, TypeOK, KeyAlive, OldTells
<1>10. CASE StoreRefused
  BY <1>10, <1>5 DEF StoreRefused, TypeOK, KeyAlive, OldTells
<1>11. CASE Keep
  <2>1. pollInterval > 0
    BY DEF pollInterval
  <2>2. queue' = Done(queue, TRUE)
    BY <1>11, <2>1 DEF Keep
  <2>3. queue' \in WorkQueueType /\ ~queue'.busy /\ Awake(queue')
    BY <2>2 DEF TypeOK, WorkQueueType, Done, Awake
  <2> QED
    BY <1>11, <2>3 DEF Keep, TypeOK, KeyAlive, OldTells
<1>12. CASE UserWrites
  <2>1. run' \in Runs \cup {Idle} /\ (run' = Idle <=> run = Idle)
        /\ (run' # Idle => run'.old)
    <3>1. CASE run = Idle
      BY <1>12, <3>1 DEF UserWrites
    <3>2. CASE run # Idle
      <4>1. run' \in Runs /\ run'.old
        BY <1>12, <3>2 DEF UserWrites, TypeOK, Runs
      <4> QED
        BY <3>2, <4>1
    <3> QED
      BY <3>1, <3>2
  <2>2. world' \in TrafficSchedules \cup {Absent}
    BY <1>12 DEF UserWrites, TypeOK, TrafficSchedules, Statuses
  <2> QED
    BY <1>12, <2>1, <2>2 DEF UserWrites, Disturbs, TypeOK, KeyAlive, OldTells
<1>13. CASE EngineChanges
  BY <1>13 DEF EngineChanges, Disturbs, TypeOK, KeyAlive, OldTells
<1>14. CASE Restart
  <2>1. queue' \in WorkQueueType /\ queue'.busy = FALSE
        /\ (world # Absent => queue'.dirty)
    BY <1>14 DEF Restart, AddedIf, Empty, WorkQueueType
  <2> QED
    <3>1. KeyAlive'
      BY <1>14, <2>1 DEF Restart, KeyAlive, Awake
    <3>2. OldTells'
      BY <1>14 DEF Restart, OldTells
    <3>3. disturbed' \in 0..MaxDisturbances /\ failed' \in 0..MaxFailures
      BY <1>14 DEF Restart, Disturbs, TypeOK
    <3>4. TypeOK'
      BY <1>14, <2>1, <3>3 DEF Restart, TypeOK
    <3> QED
      BY <3>1, <3>2, <3>4
<1>15. CASE UNCHANGED vars
  BY <1>15 DEF vars, TypeOK, KeyAlive, OldTells
<1> QED
  BY <1>1, <1>2, <1>3, <1>4, <1>6, <1>7, <1>8, <1>9, <1>10, <1>11, <1>12, <1>13,
     <1>14, <1>15 DEF Next, Reconcile

\* The types of the controller's state.
THEOREM TypeCorrect == Spec => []TypeOK
<1>1. IndInv => TypeOK
  BY DEF IndInv
<1> QED
  BY InitInv, StepInv, <1>1, PTL DEF Spec

\* As long as there is a TrafficSchedule the operator goes on polling the
\* decision engine for it.
THEOREM PollingForever == Spec => []PollingGoesOn
<1>1. IndInv => PollingGoesOn
  BY DEF IndInv, TypeOK, KeyAlive, PollingGoesOn, Notices
<1> QED
  BY InitInv, StepInv, <1>1, PTL DEF Spec

-----------------------------------------------------------------------------
\* What is on its way when a reconciliation is answered, and when it is not.
LEMMA SentIs ==
  /\ run.pc = "answered" => sent = [c \in {"poll"} |-> <<run.status>>]
  /\ run.pc # "answered" => sent = [c \in {"poll"} |-> <<>>]
  /\ run'.pc = "answered" => sent' = [c \in {"poll"} |-> <<run'.status>>]
  /\ run'.pc # "answered" => sent' = [c \in {"poll"} |-> <<>>]
  BY DEF sent

\* A step that ends a reconciliation without a write loses what it was told.
LEMMA EndLoses ==
  ASSUME run' = Idle, UNCHANGED <<engine, status>>
  PROVE  Copy!Next
<1>1. sent' = [c \in {"poll"} |-> <<>>]
  BY SentIs DEF Idle
<1>2. sent' = [sent EXCEPT !["poll"] = <<>>]
  BY <1>1 DEF sent
<1>3. Copy!Lose("poll")
  BY <1>2 DEF Copy!Lose
<1> QED
  BY <1>3 DEF Copy!Next

\* Every step of the controller is a step of LaggingCopy, or stutters.
LEMMA StepCopies == IndInv /\ IndInv' /\ [Next]_vars => [Copy!Next]_(Copy!vars)
<1> SUFFICES ASSUME IndInv, IndInv', [Next]_vars
             PROVE  Copy!Next \/ UNCHANGED Copy!vars
  OBVIOUS
<1> USE ScheduleAssumption DEF IndInv
<1>1. ASSUME run' = run, UNCHANGED <<engine, status>> PROVE UNCHANGED Copy!vars
  BY <1>1 DEF Copy!vars, sent
<1>2. CASE Watch \/ Fire \/ BeginGone
  BY <1>1, <1>2 DEF Watch, Fire, BeginGone, status
<1>3. CASE BeginAsk \/ EngineHangs
  <2>1. run.pc # "answered" /\ run'.pc # "answered"
    <3>1. CASE BeginAsk
      <4>1. run = Idle
        BY <3>1 DEF BeginAsk, CanGet, TypeOK
      <4> QED
        BY <3>1, <4>1 DEF BeginAsk, Idle
    <3>2. CASE EngineHangs
      <4>1. run \in Runs
        BY <3>2 DEF EngineHangs, TypeOK, Idle
      <4> QED
        BY <3>2, <4>1 DEF EngineHangs, Runs
    <3> QED
      BY <1>3, <3>1, <3>2
  <2>2. UNCHANGED <<sent, engine, status>>
    BY <1>3, <2>1, SentIs DEF BeginAsk, EngineHangs, status
  <2> QED
    BY <2>2 DEF Copy!vars
<1>4. CASE EngineFails \/ StoreRefused \/ Keep
  BY <1>4, EndLoses DEF EngineFails, StoreRefused, Keep, Fail, status
<1>5. CASE EngineAnswers
  <2>1. run \in Runs
    BY <1>5 DEF EngineAnswers, TypeOK, Idle
  <2>2. run'.pc = "answered" /\ run'.status = engine /\ run.pc = "asking"
    BY <1>5, <2>1 DEF EngineAnswers, Runs
  <2>3. sent' = [c \in {"poll"} |-> <<engine>>] /\ sent = [c \in {"poll"} |-> <<>>]
    BY <2>2, SentIs
  <2>4. Append(sent["poll"], engine) = <<engine>>
    BY <2>3
  <2>5. sent' = [sent EXCEPT !["poll"] = Append(sent["poll"], engine)]
    BY <2>3, <2>4
  <2>6. UNCHANGED <<engine, status>> /\ engine \in Statuses
    BY <1>5 DEF EngineAnswers, status, TypeOK
  <2> QED
    BY <2>5, <2>6 DEF Copy!Next, Copy!Change
<1>6. CASE Store
  <2>1. world \in TrafficSchedules /\ run'.pc # "answered" /\ UNCHANGED engine
    BY <1>6 DEF Store, OldTells, TypeOK, Runs, Idle
  <2>2. world' \in TrafficSchedules /\ world'.status = run.status
    BY <1>6, <2>1 DEF Store, TrafficSchedules, TypeOK, Runs, Idle
  <2>3. status' = run.status
    BY <2>2 DEF status, TrafficSchedules, Statuses
  <2>4. sent["poll"] = <<run.status>> /\ sent' = [c \in {"poll"} |-> <<>>]
    BY <1>6, <2>1, SentIs DEF Store
  <2>5. sent["poll"] # <<>> /\ Head(sent["poll"]) = run.status /\ Tail(sent["poll"]) = <<>>
    BY <2>4
  <2>6. sent' = [sent EXCEPT !["poll"] = Tail(sent["poll"])]
    BY <2>4, <2>5 DEF sent
  <2> QED
    BY <2>1, <2>3, <2>5, <2>6 DEF Copy!Next, Copy!Arrive
<1>7. CASE UserWrites
  <2>1. UNCHANGED <<engine, sent>>
    <3>1. CASE run = Idle
      BY <1>7, <3>1, SentIs DEF UserWrites, Idle
    <3>2. CASE run # Idle
      <4>1. run'.pc = run.pc /\ run'.status = run.status
        BY <1>7, <3>2 DEF UserWrites, TypeOK, Runs
      <4> QED
        BY <1>7, <4>1, SentIs DEF UserWrites
    <3> QED
      BY <3>1, <3>2
  <2>2. CASE world' = Absent
    BY <2>1, <2>2 DEF status, Copy!Next, Copy!Reset
  <2>3. CASE world' # Absent
    <3>1. status' = status
      BY <1>7, <2>3 DEF UserWrites, status, TypeOK, TrafficSchedules
    <3> QED
      BY <2>1, <3>1 DEF Copy!vars
  <2> QED
    BY <2>2, <2>3
<1>8. CASE EngineChanges
  <2>1. run' = run /\ UNCHANGED status /\ engine' \in Statuses
    BY <1>8 DEF EngineChanges, status, TypeOK
  <2> QED
    BY <2>1, SentIs DEF Copy!Next, Copy!Change, sent
<1>9. CASE Restart
  BY <1>9, EndLoses DEF Restart, status
<1>10. CASE UNCHANGED vars
  BY <1>1, <1>10 DEF vars, status
<1> QED
  BY <1>2, <1>3, <1>4, <1>5, <1>6, <1>7, <1>8, <1>9, <1>10 DEF Next, Reconcile

\* The status is a LaggingCopy of the engine's schedule, through conflicts, lost
\* polls, edits, deletions and restarts.
THEOREM StatusCopies == Spec => ImplementsLaggingCopy
<1>1. Init => Copy!Init
  BY DEF Init, Copy!Init, sent, status, Idle, Statuses
<1> QED
  BY InitInv, StepInv, StepCopies, <1>1, PTL DEF Spec, ImplementsLaggingCopy, Copy!Spec
=============================================================================
