CONSTANTS
  Services = {w1, w2}
  NameOf <- MCNameOf
  TSNames = {t1}
  Children = {"crb", "routerSO"}
  Specs = {s1, s2}
  NoCpu = {}
  Absent = Absent
  MaxReplicas = 1
  MaxDisturbances = 2
  MaxFailures = 1
SYMMETRY Symmetry
SPECIFICATION Spec
INVARIANTS TypeOK ForgetsNothing CleanWhenQuiet BindingIsThere IndInv
 
CHECK_DEADLOCK FALSE
