CONSTANTS
  Handlers = {h1, h2, h3}
  Unset = Unset
  MaxFailures = 1
SPECIFICATION Spec
INVARIANTS TypeOK SpoiltOnlyByCrossing
PROPERTIES KeyErrorHasCause NoLateConnection
CHECK_DEADLOCK FALSE
