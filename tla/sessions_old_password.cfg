SPECIFICATION Spec
CONSTANTS
  Sid = {s1, s2, s3}
  Users = {admin, bob}
  Superusers = {admin}
  Requests = {r1, r2}
  Kinds = {"login", "reset"}
  None = None
  MAX_CONCURRENT_SESSIONS = 2
  Idle = 1
  Lifetimes = {2}
  TimeBox = 2
  MaxTime = 0
  MaxPassword = 2
SYMMETRY Symmetry
INVARIANT NoSessionOnOldPassword
