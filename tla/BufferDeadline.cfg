CONSTANTS
  f1 = f1
  Req = {r1}
  Flavours = {f1}
  UnknownFlavour = UnknownFlavour
  NoFlavour = NoFlavour
  Pods = {p1}
  NoPod = NoPod
  MaxDeliveries = 2
  MaxTtlMs = 100000000
  Schedules <- BufferOnly
  Concurrency = 1
  MaxRetries = 2
  Flags <- NoFlags
  MaxDrops = 0
SPECIFICATION Spec
PROPERTY DeliveredWithinDeadline
