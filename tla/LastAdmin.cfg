SPECIFICATION Spec
CONSTANTS
  Users = {u1, u2}
  Founder = u1
  Requests = {r1, r2}
  Keys = {k1, k2, k3, k4, k5}
  Invites = {}
  Roles = {"admin"}
  Runners = {}
  None = None
SYMMETRY Symmetry
CHECK_DEADLOCK FALSE
INVARIANT AdminRemains
