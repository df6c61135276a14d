SPECIFICATION DeliverySpec
CONSTANTS
  Callers = {c1, c2}
  MaxCalls = 4
  MaxDisturbances = 1
  Publishers = {p1, p2}
  Events = {1, 2}
  MaxFaults = 1
  Writers = {w1, w2, w3}
  Workspaces = {a, b}
  Watched = a
  Limit = 2
  MaxEvents = 4
  MaxDrops = 1
  None = None
CHECK_DEADLOCK FALSE
INVARIANTS DeliveryInv EvidenceComplete ChainUnbroken PreflightEvidence
PROPERTIES CallsEnd SettledIsFinal EventuallyReceived
