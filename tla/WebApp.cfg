SPECIFICATION WebSpec
CONSTANTS
  CloudIds = 2
  CloudFaults = 1
  Packs = {"a", "b"}
  Rules = 2
  Parameters = {"k", "l"}
  PolicyEdits = 2
  Lines = {"x", "y"}
  MaxLines = 3
  MaxPayloads = 2
  SlugMax = 4
  SetupEdits = 3
  SetupFails = 1
  Sources = {s1, s2, s3, s4}
  Timers = {t1, t2, t3}
  Frames = 3
  Known = {1, 3}
  MaxConnects = 2
  MaxFails = 2
  None = None
CHECK_DEADLOCK FALSE
INVARIANTS CloudPageInv PolicyPageInv ResourcesPageInv ClarifyPageInv CardsInv SetupInv SseClientInv
PROPERTIES WebProgress
