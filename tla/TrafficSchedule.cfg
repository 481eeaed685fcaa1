CONSTANTS
  Schedules = {a, b, bad}
  Unstorable = {bad}
  ZeroStatus = ZeroStatus
  Absent = Absent
  Specs = {s1, s2}
  Untils <- MCUntils
  MaxDisturbances = 4
  MaxFailures = 1
SPECIFICATION FairSpec
INVARIANTS TypeOK PollingGoesOn
PROPERTIES StatusFollowsEngine ImplementsLaggingCopy
CHECK_DEADLOCK FALSE
