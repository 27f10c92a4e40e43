SPECIFICATION Spec
CONSTANTS
  Users = {ann}
  Registered = {ann}
  Emails = {a, b, c}
  Tok = {t1, t2, t3}
  Requests = {r1, r2}
  Kinds = {"forgot", "change", "confirm", "revert"}
  None = None
  Hold = 1
  TokenLife = 1
  ResetLife = 1
  MaxTime = 1
  MaxChange = 2
SYMMETRY Symmetry
INVARIANTS
  ResetLinkHeld
  HoldConsistent
  ResetTokensInvalidated
  LinksRotated
PROPERTY
  Lifecycle
