SPECIFICATION Spec
CONSTANTS
  Users = {ann}
  Registered = {ann}
  Emails = {a, b}
  Tok = {t1, t2}
  Requests = {r1}
  Kinds = {"change", "confirm", "forgot"}
  None = None
  Hold = 1
  TokenLife = 1
  ResetLife = 1
  MaxTime = 1
  MaxChange = 1
PROPERTY
  LinkRoutedByHold
