-------------------- MODULE MCTrafficScheduleController ---------------------
(* The values TLC takes for the constants of TrafficScheduleController.    *)
EXTENDS TrafficScheduleController

\* A validUntil that passed, one that is near and one beyond the poll interval.
MCUntils == {-5000, 0, 20000, 90000}
=============================================================================
