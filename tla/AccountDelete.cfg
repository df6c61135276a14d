SPECIFICATION ProvisioningSpec
CONSTANTS
  u1 = u1
  u2 = u2
  s1 = s1
  s2 = s2
  Sessions = {s1, s2}
  Users = {u1, u2}
  Owner <- MCOwner
  Keys = {k1}
  Messages = {m1, m2}
  Requests = {r1, r2}
  MaxRuns = 2
  None = None
  Calls = {r1, r2}
  CallKeys = {h1, h2, h3}
  Submissions = {m1, m2}
  MaxAccounts = 2
  Nothing = Nothing
SYMMETRY Symmetry
INVARIANT RunKeepsAccount
