CONSTANTS
  Handlers = {h1, h2, h3}
  Unset = Unset
  MaxFailures = 1
SPECIFICATION Spec
INVARIANT OneConnection
CHECK_DEADLOCK FALSE
