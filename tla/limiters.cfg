SPECIFICATION Spec
CONSTANTS
  Accounts = {a1}
  Ips = {i1}
  Requests = {r1, r2}
  Mixes <- MCMixes
  PerAccountMax = 2
  AccountWindow = 1
  Lockout = 2
  PerIpMax = 3
  IpWindow = 1
  SendMax = 2
  SendWindow = 1
  ResendMax = 1
  ResendWindow = 2
  MaxTime = 2
  MaxArrivals = 5
  MaxLost = 1
CHECK_DEADLOCK FALSE
SYMMETRY Symmetry
INVARIANTS
  TypeOK
  LockedWhenFull
  AttemptsBounded
  SendsBounded
  ResendsBounded
PROPERTIES
  LockoutHolds
