CONSTANTS
  Services = {w1}
  NameOf <- MCNameOf
  TSNames = {t1, t2}
  Children = {"router", "routerSO"}
  Specs = {s1, s2}
  NoCpu = {s2}
  Absent = Absent
  MaxReplicas = 1
  MaxDisturbances = 2
  MaxFailures = 1
SPECIFICATION FairSpec
INVARIANT ForgetsNothing
PROPERTIES ScalingKept Converges
CHECK_DEADLOCK FALSE
