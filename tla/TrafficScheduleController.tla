--------------------- MODULE TrafficScheduleController ----------------------
(***************************************************************************)
(* operator/internal/controller/trafficschedule_controller.go: for one     *)
(* TrafficSchedule, the operator asks the decision engine for its schedule *)
(* once a minute and writes it to the object's status.  The object is read *)
(* from the informer's cache; the API server refuses a status made from an *)
(* old copy, or one its CRD does not allow.                                *)
(***************************************************************************)
EXTENDS Integers, Sequences, WorkQueue

CONSTANTS
  Schedules,       \* schedules the decision engine may have
  Unstorable,      \* those whose status the CRD refuses: a required field is null
  ZeroStatus,      \* no schedule: the engine's null, an object's first status
  Absent,          \* no TrafficSchedule
  Specs,           \* specifications of a TrafficSchedule
  Untils,          \* milliseconds left until a validUntil, when they are computed
  MaxDisturbances, \* bound: what users and the engine do, and restarts
  MaxFailures      \* bound: requests to the engine that fail

ASSUME ScheduleAssumption ==
  /\ Unstorable \subseteq Schedules
  /\ ZeroStatus \notin Schedules
  /\ Absent \notin [spec : Specs, status : Schedules \cup {ZeroStatus}]
  /\ Untils \subseteq Int
  /\ MaxDisturbances \in Nat /\ MaxFailures \in Nat

VARIABLES
  world,      \* the TrafficSchedule, at the API server
  cache,      \* the TrafficSchedule, as the informer has it
  stale,      \* are there events the informer has not received?
  queue,      \* the work queue, for the TrafficSchedule's key
  run,        \* the reconciliation in progress
  engine,     \* the schedule the decision engine has
  disturbed,  \* what others did so far
  failed      \* how many requests failed so far

vars == <<world, cache, stale, queue, run, engine, disturbed, failed>>

Statuses == Schedules \cup {ZeroStatus}
TrafficSchedules == [spec : Specs, status : Statuses]

\* existing and status, the local variables of Reconcile; old tells whether
\* existing's resourceVersion is no longer the object's.
Runs ==
  [pc : {"asking", "hung", "answered"}, existing : TrafficSchedules,
   old : BOOLEAN, status : Statuses]

Idle == [pc |-> "idle"]

TypeOK ==
  /\ world \in TrafficSchedules \cup {Absent}
  /\ cache \in TrafficSchedules \cup {Absent}
  /\ stale \in BOOLEAN
  /\ ~stale => cache = world
  /\ queue \in WorkQueueType
  /\ run \in Runs \cup {Idle}
  /\ queue.busy <=> run # Idle
  /\ engine \in Statuses
  /\ disturbed \in 0..MaxDisturbances
  /\ failed \in 0..MaxFailures

Init ==
  /\ world \in [spec : Specs, status : {ZeroStatus}] \cup {Absent}
  /\ cache = world
  /\ stale = FALSE
  /\ queue = AddedIf(Empty, world # Absent)
  /\ run = Idle
  /\ engine \in Statuses
  /\ disturbed = 0
  /\ failed = 0

pollInterval == 60000

\* Mutant: a validUntil that has passed asks for no delay.
PollDelayUnclamped(until) ==
  IF until < pollInterval THEN (IF until <= 0 THEN 0 ELSE until) ELSE pollInterval

\* The requeue delay for a status with a validUntil: until then, a second if it
\* has passed, and no more than the poll interval.
PollDelay(until) ==
  LET left == IF until <= 0 THEN 1000 ELSE until
  IN  IF left < pollInterval THEN left ELSE pollInterval

-----------------------------------------------------------------------------
(* The watch: the creation, the deletion and a new specification enqueue.  *)

Notices == cache = Absent \/ world = Absent \/ cache.spec # world.spec

Watch ==
  /\ stale
  /\ stale' = FALSE
  /\ cache' = world
  /\ queue' = AddedIf(queue, Notices)
  /\ UNCHANGED <<world, run, engine, disturbed, failed>>

Fire ==
  /\ queue.later
  /\ queue' = Fired(queue)
  /\ UNCHANGED <<world, cache, stale, run, engine, disturbed, failed>>

-----------------------------------------------------------------------------
(* Reconcile.                                                              *)

BeginGone ==
  /\ CanGet(queue)
  /\ cache = Absent
  /\ queue' = Done(Got(queue), FALSE)
  /\ UNCHANGED <<world, cache, stale, run, engine, disturbed, failed>>

\* Mutant of BeginAsk: the key is not marked, so another worker could get it.
BeginAskUnmarked ==
  /\ CanGet(queue)
  /\ cache # Absent
  /\ queue' = [queue EXCEPT !.dirty = FALSE]
  /\ run' = [pc |-> "asking", existing |-> cache, old |-> stale, status |-> ZeroStatus]
  /\ UNCHANGED <<world, cache, stale, engine, disturbed, failed>>

BeginAsk ==
  /\ CanGet(queue)
  /\ cache # Absent
  /\ queue' = Got(queue)
  /\ run' = [pc |-> "asking", existing |-> cache, old |-> stale, status |-> ZeroStatus]
  /\ UNCHANGED <<world, cache, stale, engine, disturbed, failed>>

Fail ==
  /\ run' = Idle
  /\ queue' = Done(queue, TRUE)

\* The request fails or what it returns is no JSON of the right types.
EngineFails ==
  /\ run.pc = "asking"
  /\ failed < MaxFailures
  /\ failed' = failed + 1
  /\ Fail
  /\ UNCHANGED <<world, cache, stale, engine, disturbed>>

\* http.Get has no timeout.
EngineHangs ==
  /\ run.pc = "asking"
  /\ run' = [run EXCEPT !.pc = "hung"]
  /\ UNCHANGED <<world, cache, stale, queue, engine, disturbed, failed>>

\* Mutant of EngineAnswers: when the engine has none, a schedule of its own.
EngineAnswersAnyway ==
  /\ run.pc = "asking"
  /\ run' = [run EXCEPT !.pc = "answered",
                        !.status = IF engine = ZeroStatus
                                   THEN CHOOSE s \in Schedules \ Unstorable : TRUE
                                   ELSE engine]
  /\ UNCHANGED <<world, cache, stale, queue, engine, disturbed, failed>>

EngineAnswers ==
  /\ run.pc = "asking"
  /\ run' = [run EXCEPT !.pc = "answered", !.status = engine]
  /\ UNCHANGED <<world, cache, stale, queue, engine, disturbed, failed>>

\* A decoded validUntil is never DeepEqual to a parsed one, whose time zone is
\* another pointer, so only the zero status can count as unchanged.
StatusChanged == run.status # ZeroStatus \/ run.existing.status # ZeroStatus

Storable == run.status \in Schedules \ Unstorable

\* Mutant of Store: the status that is written is the one that was read.
StoreForgets ==
  /\ run.pc = "answered"
  /\ StatusChanged /\ Storable /\ ~run.old
  /\ world' = [world EXCEPT !.status = run.existing.status]
  /\ stale' = (stale \/ world' # world)
  /\ \E until \in Untils :
       queue' = Done(queue, PollDelay(until) > 0)
  /\ run' = Idle
  /\ UNCHANGED <<cache, engine, disturbed, failed>>

\* The status is written (writing what is there already makes no event), and
\* the key comes back after PollDelay.
Store ==
  /\ run.pc = "answered"
  /\ StatusChanged /\ Storable /\ ~run.old
  /\ world' = [world EXCEPT !.status = run.status]
  /\ stale' = (stale \/ world' # world)
  /\ \E until \in Untils :
       queue' = Done(queue, PollDelay(until) > 0)
  /\ run' = Idle
  /\ UNCHANGED <<cache, engine, disturbed, failed>>

\* The API server refuses the status.
StoreRefused ==
  /\ run.pc = "answered"
  /\ StatusChanged /\ (run.old \/ ~Storable)
  /\ Fail
  /\ UNCHANGED <<world, cache, stale, engine, disturbed, failed>>

\* Nothing to write, and no validUntil: poll again after the interval.
Keep ==
  /\ run.pc = "answered"
  /\ ~StatusChanged
  /\ run' = Idle
  /\ queue' = Done(queue, pollInterval > 0)
  /\ UNCHANGED <<world, cache, stale, engine, disturbed, failed>>

Reconcile ==
  \/ BeginGone \/ BeginAsk \/ EngineFails \/ EngineHangs \/ EngineAnswers
  \/ Store \/ StoreRefused \/ Keep

-----------------------------------------------------------------------------
(* Everybody else.                                                         *)

Disturbs ==
  /\ disturbed < MaxDisturbances
  /\ disturbed' = disturbed + 1
  /\ UNCHANGED failed

\* A user creates, edits or deletes the TrafficSchedule.
UserWrites ==
  /\ Disturbs
  /\ world' \in IF world = Absent
                THEN [spec : Specs, status : {ZeroStatus}]
                ELSE {[world EXCEPT !.spec = s] : s \in Specs} \cup {Absent}
  /\ world' # world
  /\ stale' = TRUE
  /\ run' = IF run = Idle THEN Idle ELSE [run EXCEPT !.old = TRUE]
  /\ UNCHANGED <<cache, queue, engine>>

EngineChanges ==
  /\ Disturbs
  /\ engine' \in Statuses \ {engine}
  /\ UNCHANGED <<world, cache, stale, queue, run>>

\* The operator restarts, which also ends a request that hangs.
Restart ==
  /\ Disturbs
  /\ cache' = world
  /\ stale' = FALSE
  /\ queue' = AddedIf(Empty, world # Absent)
  /\ run' = Idle
  /\ UNCHANGED <<world, engine>>

Next == Watch \/ Fire \/ Reconcile \/ UserWrites \/ EngineChanges \/ Restart

Spec == Init /\ [][Next]_vars

\* The watch delivers, timers fire, the worker goes on and the engine answers
\* a request that does not hang.
FairSpec == Spec /\ WF_vars(Watch) /\ WF_vars(Fire) /\ WF_vars(Reconcile)

-----------------------------------------------------------------------------
(* Properties.                                                             *)

\* Polling never stops: as long as there is a TrafficSchedule its key is being
\* reconciled, is queued or comes back, or the event that enqueues it is on
\* its way; whatever failed, was refused, expired or was restarted before.
PollingGoesOn == world # Absent /\ ~(stale /\ Notices) => Awake(queue)

\* When the engine keeps a schedule that can be stored, the object stays and no
\* request hangs for ever, the status becomes that schedule and stays it:
\* conflicts, failures and schedules that were refused delay it only.
StatusFollowsEngine ==
  \A s \in Schedules \ Unstorable :
    <>[](world # Absent /\ engine = s /\ run.pc # "hung")
      => <>[](world # Absent => world.status = s)

\* The status as a copy of the engine's schedule, to which the polls bring it.
status == IF world = Absent THEN ZeroStatus ELSE world.status

sent == [c \in {"poll"} |-> IF run.pc = "answered" THEN <<run.status>> ELSE <<>>]

Copy == INSTANCE LaggingCopy
          WITH Values <- Statuses, Channels <- {"poll"}, Nothing <- ZeroStatus,
               source <- engine, sent <- sent, copy <- status

\* The status implements a LaggingCopy with one channel: through conflicts, lost
\* polls, deletions and restarts it is nothing but what the engine had when it
\* was asked, and it never goes back to an older schedule.
ImplementsLaggingCopy == Copy!Spec
=============================================================================
