CONSTANTS
  Statuses = {on, off}
  Naive = {}
  NoStatus = NoStatus
  Absent = Absent
  Default = Default
  SecondsLeft = {0, 30, 90}
  MaxBacklog = 3
  MaxFaults = 2
SPECIFICATION FairSpec
INVARIANTS TypeOK BehindAMinuteAtMost BehindOnlyByRace
PROPERTIES CatchesUp ImplementsLaggingCopy
