SPECIFICATION Spec
CONSTANTS
  Sid = {s1, s2}
  Requests = {r1, r2}
  Kinds = {"login", "impersonate", "stop"}
  Clients = {"browser"}
  None = None
  MaxToken = 3
SYMMETRY Symmetry
INVARIANTS
  StopReachesRoute
