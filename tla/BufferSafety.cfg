CONSTANTS
  f1 = f1
  Req = {r1}
  Flavours = {f1}
  UnknownFlavour = UnknownFlavour
  NoFlavour = NoFlavour
  Pods = {p1, p2}
  NoPod = NoPod
  MaxDeliveries = 2
  MaxTtlMs = 100000000
  Schedules <- Mixed
  Concurrency = 1
  MaxRetries = 2
  Flags <- PausedOnly
  MaxDrops = 1
SPECIFICATION Spec
INVARIANTS TypeOK AckOnlyAfterReply NoLostWakeup LeaksOnlyOnError UnackedHasOwner ExclusiveHandling IndInv
PROPERTIES FutureSettledOnce ImplementsRpcService
SYMMETRY Symmetric
