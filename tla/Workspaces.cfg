SPECIFICATION Spec
CONSTANTS
  Users = {u1, u2}
  Founder = u1
  Requests = {r1, r2}
  Keys = {k1, k2, k3}
  Invites = {i1}
  Roles = {"admin", "engineer"}
  Runners = {u2}
  None = None
SYMMETRY Symmetry
INVARIANT WorkspacesInv
PROPERTY LastAdminGuarded
