SPECIFICATION FairSpec
CONSTANTS
  Workers = {w1,w2}
  Clients = {c1}
  Drafts = {d1}
  Keys = {k1}
  Answers = {a1}
  PolicyModes = {"enabled"}
  None = None
  MaxAsks = 1
  MaxSays = 0
  MaxRevisions = 0
  MaxFaults = 1
PROPERTIES PendingServed QuestionsResolved
CHECK_DEADLOCK FALSE
