SPECIFICATION FairSpec
CONSTANTS
  Sid = {s1, s2}
  Users = {admin}
  Superusers = {admin}
  Requests = {r1, r2}
  Kinds = {"login", "logout_all", "password"}
  None = None
  MAX_CONCURRENT_SESSIONS = 2
  Idle = 1
  Lifetimes = {2}
  TimeBox = 2
  MaxTime = 1
  MaxPassword = 1
PROPERTIES
  RequestsEnd
  WorkShrinks
