CONSTANTS
  Services = {w1}
  NameOf <- MCNameOf
  TSNames = {t1}
  Children = {"router", "routerSO"}
  Specs = {s1, s2}
  NoCpu = {}
  Absent = Absent
  MaxReplicas = 1
  MaxDisturbances = 1
  MaxFailures = 0
SPECIFICATION FairSpec
PROPERTY LabelGoneObjectsGone
CHECK_DEADLOCK FALSE
