SPECIFICATION Spec
CONSTANTS
  Workers = {w1, w2}
  Clients = {c1}
  Drafts = {d1, d2}
  Keys = {k1}
  Answers = {a1}
  PolicyModes = {"enabled"}
  None = None
  MaxAsks = 0
  MaxSays = 0
  MaxRevisions = 0
  MaxFaults = 2
SYMMETRY Symmetry
INVARIANTS TypeOK FreshSnapshots ShownIsStored OneManifestPerTurn PlanHasConsent ThirdStrikeFails
PROPERTIES TerminalIsFinal ImplementsContract
CHECK_DEADLOCK FALSE
