-------------------------- MODULE SchedulePipeline --------------------------
(***************************************************************************)
(* The way of a schedule from the decision engine to the routers and       *)
(* consumers: the operator polls the engine and writes the status of the   *)
(* TrafficSchedule (TrafficScheduleController); a router's or consumer's   *)
(* schedule manager reads that object (ScheduleManager).  They meet in the *)
(* object at the API server, the world of the one and the object of the    *)
(* other: each of its changes makes an event for both watches.             *)
(***************************************************************************)
EXTENDS TrafficScheduleController

CONSTANTS
  Default,       \* DEFAULT_SCHEDULE
  SecondsLeft,   \* seconds until a validUntil
  MaxBacklog,    \* bound: events a watch has still to hand out
  MaxFaults      \* bound: failing GETs and restarts of a schedule manager

\* What the theorems assume of them.
PipelineConstants ==
  /\ Absent \notin Statuses
  /\ SecondsLeft \subseteq Nat
  /\ MaxBacklog \in Nat \ {0} /\ MaxFaults \in Nat

VARIABLES
  copy,      \* the schedule manager's _current
  watch, pending, loader, value, sleepFor, behind, faults

managerVars == <<copy, watch, pending, loader, value, sleepFor, behind, faults>>

pipelineVars == <<vars, managerVars>>

\* What a schedule manager sees of the TrafficSchedule.
object == IF world = Absent THEN Absent ELSE world.status

Manager ==
  INSTANCE ScheduleManager
    WITH Statuses <- Schedules \ Unstorable, Naive <- {}, NoStatus <- ZeroStatus,
         object <- object, cache <- copy

PipelineInit ==
  Init /\ Manager!Init

\* A step of the operator, of users or of the engine; a change of the object is
\* announced to the schedule manager.
OperatorStep ==
  /\ Next
  /\ IF world' = world THEN UNCHANGED managerVars ELSE Manager!Announced(object')

\* A step of the router's or consumer's process.
ManagerStep ==
  /\ UNCHANGED vars
  /\ Manager!Tasks \/ Manager!Restart

PipelineNext == OperatorStep \/ ManagerStep

PipelineSpec == PipelineInit /\ [][PipelineNext]_pipelineVars
=============================================================================
