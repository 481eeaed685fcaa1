----------------------- MODULE SchedulePipelineProofs -----------------------
(***************************************************************************)
(* The composition keeps what its parts were checked and proved for: the   *)
(* operator is all the environment a schedule manager assumes.             *)
(***************************************************************************)
EXTENDS SchedulePipeline, TrafficScheduleControllerProofs

\* The schedule manager with its theorems.
Managers ==
  INSTANCE ScheduleManagerProofs
    WITH Statuses <- Schedules \ Unstorable, Naive <- {}, NoStatus <- ZeroStatus,
         object <- object, cache <- copy

\* The assumptions of ScheduleManager hold of the operator's constants.
LEMMA ManagersAssume == PipelineConstants => Managers!ManagerAssumption
  BY ScheduleAssumption DEF PipelineConstants, Managers!ManagerAssumption, Statuses

\* Both instances name the same steps and the same first states.
LEMMA SameTasks == Manager!Tasks \/ Manager!Restart => Managers!Tasks \/ Managers!Restart
  BY DEF Manager!Tasks, Manager!Restart, Managers!Tasks, Managers!Restart,
         Manager!WatchOpen, Managers!WatchOpen, Manager!WatchEvent, Managers!WatchEvent,
         Manager!WatchEnds, Managers!WatchEnds, Manager!LoadRead, Managers!LoadRead,
         Manager!LoadApply, Managers!LoadApply, Manager!LoadFails, Managers!LoadFails,
         Manager!GuardSleeps, Managers!GuardSleeps, Manager!GuardWakes, Managers!GuardWakes,
         Manager!NoTime, Managers!NoTime, Manager!Behind, Managers!Behind,
         Manager!SleepSeconds, Managers!SleepSeconds, Manager!Comparable, Managers!Comparable,
         Manager!Loads, Managers!Loads, Manager!Starting, Managers!Starting,
         Manager!Unread, Managers!Unread

LEMMA SameInit == Manager!Init => Managers!Init
  BY DEF Manager!Init, Managers!Init, Manager!Starting, Managers!Starting,
         Manager!Unread, Managers!Unread, Manager!Loads, Managers!Loads

LEMMA SameAnnounced ==
  ASSUME NEW o
  PROVE  Manager!Announced(o) => Managers!Announced(o)
  BY DEF Manager!Announced, Managers!Announced, Manager!Says, Managers!Says,
         Manager!NoTime, Managers!NoTime, Manager!Behind, Managers!Behind

-----------------------------------------------------------------------------
\* Whatever the operator and the users do to the TrafficSchedule is a change the
\* schedule manager expects of its object.
LEMMA OperatorIsExpected ==
  ASSUME PipelineConstants, IndInv, Managers!TypeOK, Next, world' # world
  PROVE  Managers!Possible(object') /\ object' \in Managers!Contents \cup {Absent}
<1> USE ScheduleAssumption DEF PipelineConstants, IndInv, Managers!Possible, Managers!Contents
<1>1. object \in (Schedules \ Unstorable) \cup {ZeroStatus} \cup {Absent}
  BY DEF Managers!TypeOK
<1>2. CASE Store
  <2>1. world \in TrafficSchedules /\ run.status \in Schedules \ Unstorable
    BY <1>2 DEF Store, Storable, OldTells, TypeOK, Runs, Idle
  <2>2. world' \in TrafficSchedules /\ world'.status = run.status
    BY <1>2, <2>1 DEF Store, TrafficSchedules, Statuses
  <2>3. object # Absent /\ object' = run.status
    BY <2>1, <2>2 DEF object, TrafficSchedules, Statuses
  <2> QED
    BY <2>1, <2>3
<1>3. CASE UserWrites
  <2>1. CASE world = Absent
    <3>1. object = Absent /\ object' = ZeroStatus
      BY <1>3, <2>1 DEF UserWrites, object, Statuses
    <3> QED
      BY <3>1
  <2>2. CASE world # Absent
    <3>1. world \in TrafficSchedules
      BY <2>2 DEF TypeOK
    <3>2. object # Absent
      BY <2>2, <3>1 DEF object, TrafficSchedules
    <3>3. CASE world' = Absent
      BY <3>2, <3>3 DEF object
    <3>4. CASE world' # Absent
      <4>1. PICK s \in Specs : world' = [world EXCEPT !.spec = s]
        BY <1>3, <2>2, <3>4 DEF UserWrites
      <4>2. object' = object
        BY <2>2, <3>1, <3>4, <4>1 DEF object, TrafficSchedules
      <4> QED
        BY <1>1, <3>2, <4>2
    <3> QED
      BY <3>3, <3>4
  <2> QED
    BY <2>1, <2>2
<1> QED
  BY <1>2, <1>3 DEF Next, Reconcile, Watch, Fire, BeginGone, BeginAsk, EngineFails,
     EngineHangs, EngineAnswers, StoreRefused, Keep, EngineChanges, Restart

\* Every step of the composition is one of the operator's world, or stutters.
LEMMA StepOperator == [PipelineNext]_pipelineVars => [Next]_vars
  BY DEF PipelineNext, OperatorStep, ManagerStep, pipelineVars

\* Every step of the composition is one the schedule manager takes or sees, or
\* stutters.
LEMMA StepManager ==
  PipelineConstants /\ IndInv /\ Managers!TypeOK /\ [PipelineNext]_pipelineVars
    => [Managers!Next]_(Managers!vars)
<1> SUFFICES ASSUME PipelineConstants, IndInv, Managers!TypeOK, [PipelineNext]_pipelineVars
             PROVE  Managers!Next \/ UNCHANGED Managers!vars
  OBVIOUS
<1>1. CASE ManagerStep
  BY <1>1, SameTasks DEF ManagerStep, Managers!Next
<1>2. ASSUME world' = world, UNCHANGED managerVars PROVE UNCHANGED Managers!vars
  BY <1>2 DEF managerVars, Managers!vars, object
<1>3. CASE OperatorStep /\ world' # world
  <2>1. Manager!Announced(object') /\ Next
    BY <1>3 DEF OperatorStep
  <2>2. Managers!ObjectBecomes(object') /\ object' \in Managers!Contents \cup {Absent}
    BY <1>3, <2>1, OperatorIsExpected, SameAnnounced DEF Managers!ObjectBecomes
  <2> QED
    BY <2>2 DEF Managers!Next
<1>4. CASE OperatorStep /\ world' = world
  BY <1>2, <1>4 DEF OperatorStep
<1>5. CASE UNCHANGED pipelineVars
  BY <1>2, <1>5 DEF pipelineVars, vars
<1> QED
  BY <1>1, <1>3, <1>4, <1>5 DEF PipelineNext

\* In the composition the operator does what TrafficScheduleController says ...
THEOREM OperatorRuns == PipelineSpec => Spec
  BY StepOperator, PTL DEF PipelineSpec, PipelineInit, Spec

\* ... and every schedule manager what ScheduleManager says: nothing the operator
\* or a user does to the object is outside of what its model expects.
THEOREM ManagerRuns ==
  ASSUME PipelineConstants
  PROVE  PipelineSpec => Managers!Spec
<1>1. PipelineInit => IndInv /\ Managers!Init /\ Managers!TypeOK
  BY InitInv, SameInit, Managers!InitType, ManagersAssume DEF PipelineInit
<1>2. IndInv /\ Managers!TypeOK /\ [PipelineNext]_pipelineVars
        => IndInv' /\ Managers!TypeOK' /\ [Managers!Next]_(Managers!vars)
  BY StepInv, StepOperator, StepManager, Managers!StepType, ManagersAssume
<1> QED
  BY <1>1, <1>2, PTL DEF PipelineSpec, Managers!Spec

\* So the parts keep together what they keep alone: polling goes on, and a router
\* whose guard lives is never behind a resting TrafficSchedule for more than a
\* minute, and only by a race.
THEOREM PipelineSafety ==
  ASSUME PipelineConstants
  PROVE  PipelineSpec => []( /\ PollingGoesOn
                             /\ Managers!BehindAMinuteAtMost
                             /\ Managers!BehindOnlyByRace )
<1>1. Managers!Spec => []Managers!BehindAMinuteAtMost
  BY Managers!AMinuteAtMost, ManagersAssume
<1>2. Managers!Spec => []Managers!BehindOnlyByRace
  BY Managers!OnlyRaces, ManagersAssume
<1> QED
  BY OperatorRuns, ManagerRuns, PollingForever, <1>1, <1>2, PTL

-----------------------------------------------------------------------------
\* The two hops as LaggingCopies, with their theorem.
StatusHop ==
  INSTANCE LaggingCopyProofs
    WITH Values <- Statuses, Channels <- {"poll"}, Nothing <- ZeroStatus,
         source <- engine, sent <- sent, copy <- status

RouterHop ==
  INSTANCE LaggingCopyProofs
    WITH Values <- Managers!Contents, Channels <- Managers!Loads \cup {"watch"},
         Nothing <- Default, source <- Managers!source, sent <- Managers!sent,
         copy <- copy

LEMMA SameStatusHop == ImplementsLaggingCopy => StatusHop!Spec
<1>1. Copy!Init => StatusHop!Init
  BY DEF Copy!Init, StatusHop!Init
<1>2. [Copy!Next]_(Copy!vars) => [StatusHop!Next]_(StatusHop!vars)
  BY DEF Copy!Next, StatusHop!Next, Copy!vars, StatusHop!vars,
         Copy!Change, StatusHop!Change, Copy!Arrive, StatusHop!Arrive,
         Copy!Lose, StatusHop!Lose, Copy!Reset, StatusHop!Reset
<1> QED
  BY <1>1, <1>2, PTL DEF ImplementsLaggingCopy, Copy!Spec, StatusHop!Spec

LEMMA SameRouterHop == Managers!ImplementsLaggingCopy => RouterHop!Spec
<1>1. Managers!Copy!Init => RouterHop!Init
  BY DEF Managers!Copy!Init, RouterHop!Init
<1>2. [Managers!Copy!Next]_(Managers!Copy!vars) => [RouterHop!Next]_(RouterHop!vars)
  BY DEF Managers!Copy!Next, RouterHop!Next, Managers!Copy!vars, RouterHop!vars,
         Managers!Copy!Change, RouterHop!Change, Managers!Copy!Arrive, RouterHop!Arrive,
         Managers!Copy!Lose, RouterHop!Lose, Managers!Copy!Reset, RouterHop!Reset
<1> QED
  BY <1>1, <1>2, PTL
     DEF Managers!ImplementsLaggingCopy, Managers!Copy!Spec, RouterHop!Spec

\* Every step of the composition is one of both hops, and what the first delivers
\* is what the second carries on.
LEMMA BothHops ==
  ASSUME PipelineConstants
  PROVE  PipelineSpec => StatusHop!Spec /\ RouterHop!Spec
<1>1. PipelineSpec => StatusHop!Spec
  BY OperatorRuns, StatusCopies, SameStatusHop, PTL
<1>2. PipelineSpec => RouterHop!Spec
  BY ManagerRuns, Managers!ManagerCopies, ManagersAssume, SameRouterHop, PTL
<1> QED
  BY <1>1, <1>2

LEMMA HopsMeet ==
  ASSUME NEW H, ZeroStatus \in H, status \in H \cup {ZeroStatus}
  PROVE  Managers!source \in H
  BY DEF status, Managers!source, object

\* Hops compose: when the engine never leaves a set H of schedules, which has
\* the empty one, neither does what a router sees, but for the fallback.
THEOREM NoScheduleInvented ==
  ASSUME PipelineConstants, NEW CONSTANT H, ZeroStatus \in H
  PROVE  PipelineSpec /\ [](engine \in H) => [](copy \in H \cup {Default})
<1>1. StatusHop!Spec /\ [](engine \in H) => [](status \in H \cup {ZeroStatus})
  BY StatusHop!NothingInvented
<1>2. status \in H \cup {ZeroStatus} => Managers!source \in H
  BY HopsMeet
<1>3. RouterHop!Spec /\ [](Managers!source \in H) => [](copy \in H \cup {Default})
  BY RouterHop!NothingInvented
<1> QED
  BY BothHops, <1>1, <1>2, <1>3, PTL

\* A schedule the engine has dropped, once it is out of the operator's poll, the
\* status, the watch and the loads, is not seen by the router again, however polls,
\* watch events, loads, errors and restarts interleave from then on.
THEOREM NoScheduleComesBack ==
  ASSUME PipelineConstants, NEW CONSTANT H, ZeroStatus \in H
  PROVE  PipelineSpec =>
           []( StatusHop!Within(H) /\ RouterHop!Within(H) /\ [](engine \in H)
                 => [](copy \in H \cup {Default}) )
<1>1. StatusHop!Spec =>
        [](StatusHop!Within(H) /\ [](engine \in H) => [](status \in H \cup {ZeroStatus}))
  BY StatusHop!DroppedStaysDropped
<1>2. status \in H \cup {ZeroStatus} => Managers!source \in H
  BY HopsMeet
<1>3. RouterHop!Spec =>
        [](RouterHop!Within(H) /\ [](Managers!source \in H) => [](copy \in H \cup {Default}))
  BY RouterHop!DroppedStaysDropped
<1> QED
  BY BothHops, <1>1, <1>2, <1>3, PTL
=============================================================================
