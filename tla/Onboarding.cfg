SPECIFICATION Spec
CONSTANTS
  Tab = {t1, t2}
  Name = {acme}
  None = None
  Org = Org
  Out = Out
  Refused = Refused
  MaxKeys = 2
  MaxReqs = 2
  MaxFaults = 1
  MaxMoves = 3
CHECK_DEADLOCK FALSE
INVARIANTS OnboardingInv TornSubmitRecoverable
PROPERTIES OnboardingProgress
