SPECIFICATION Spec
CONSTANTS
  Workers = {w1}
  Clients = {c1, c2}
  Drafts = {d1}
  Keys = {k1, k2}
  Answers = {a1, a2}
  PolicyModes = {"disabled"}
  None = None
  MaxAsks = 2
  MaxSays = 1
  MaxRevisions = 1
  MaxFaults = 0
SYMMETRY Symmetry
INVARIANTS AnswersKept ThirdStrikeFails
PROPERTY ImplementsContract
CHECK_DEADLOCK FALSE
