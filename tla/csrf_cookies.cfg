SPECIFICATION Spec
CONSTANTS
  Sid = {s1, s2, s3}
  Requests = {r1, r2}
  Kinds = {"login", "logout", "logout_all", "password", "email", "impersonate", "stop"}
  Clients = {"browser"}
  None = None
  MaxToken = 3
SYMMETRY Symmetry
INVARIANTS
  TypeOK
  TokenOfItsSession
  Serial
