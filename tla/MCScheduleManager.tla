-------------------------- MODULE MCScheduleManager --------------------------
\* A small instance of ScheduleManager for TLC.
EXTENDS ScheduleManager
=============================================================================
