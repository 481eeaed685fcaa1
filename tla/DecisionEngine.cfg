CONSTANTS
  Overrides = {o1, o2}
  Malformed = {o2}
  NoSchedule = NoSchedule
  MaxStep = 4
SPECIFICATION FairSpec
INVARIANTS TypeOK  MadeIsDrawable CounterKeepsUp
PROPERTY OverrideIsTransient
