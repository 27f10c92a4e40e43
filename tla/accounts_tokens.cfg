SPECIFICATION Spec
CONSTANTS
  Users = {ann, bob}
  Registered = {}
  Emails = {a}
  Tok = {t1, t2, t3}
  Requests = {r1, r2}
  Kinds = {"signup", "verify", "activate", "resend", "password", "forgot", "reset", "administer"}
  None = None
  Hold = 2
  TokenLife = 1
  ResetLife = 1
  MaxTime = 2
  MaxChange = 2
SYMMETRY Symmetry
INVARIANTS
  TypeOK
  ResetTokensInvalidated
  RedemptionsBounded
  PendingVerifiable
  AddressesDistinct
PROPERTY
  Lifecycle
