SPECIFICATION Spec
CONSTANTS
  Sid = {s1, s2, s3}
  Users = {admin, bob}
  Superusers = {admin}
  Requests = {r1, r2}
  Kinds = {"login", "impersonate", "stop", "logout"}
  None = None
  MAX_CONCURRENT_SESSIONS = 1
  Idle = 1
  Lifetimes = {2}
  TimeBox = 2
  MaxTime = 2
  MaxPassword = 0
SYMMETRY Symmetry
INVARIANTS
  TypeOK
  AuditMatchesSessions
  ImpersonationLinked
  CapOvershootBounded
PROPERTIES
  DeadStaysDead
  Lifecycle
