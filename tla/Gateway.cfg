SPECIFICATION Spec
CONSTANTS
  Request = {r1, r2}
  Exercised = {"invitation_accept", "cloud_verify", "capabilities", "health"}
  Assigned = {"none", "engineer"}
  Email = {e1, e2}
  Invited = e1
  DevEmail = DevEmail
  None = None
  TokenTtl = 2
  EmailTtl = 2
  Latency = 1
  MaxTime = 3
  MaxChanges = 1
  MaxFaults = 1
SYMMETRY Requests
CHECK_DEADLOCK FALSE
INVARIANTS GatewayInv EffectsPermitted AnswersTrue
