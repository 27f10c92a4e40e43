SPECIFICATION Spec
CONSTANTS
  Users = {ann}
  Registered = {}
  Emails = {a}
  Tok = {t1}
  Requests = {r1}
  Kinds = {"signup", "verify", "administer"}
  None = None
  Hold = 1
  TokenLife = 1
  ResetLife = 1
  MaxTime = 0
  MaxChange = 1
PROPERTY
  NoReinstatement
