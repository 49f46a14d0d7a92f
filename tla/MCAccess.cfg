\* Two callers of one principal, two logins; two exchanges over three keys; two messages; two
\* requests of every kind; every service with one setting off; all migrations.
CONSTANTS
  Subject = {p1}
  Login = {l1, l2}
  SessionId = {s1, s2}
  Caller = {c1, c2}
  Claims <- ProviderAnswers
  Grants <- RoleGrants
  Idle = 2
  Absolute = 3
  Recent = 1
  LoginTtl = 1
  MaxTime = 2
  MaxChanges = 2
  Exchange = {x1, x2}
  Key = {k1, k2, k3}
  Nobody = Nobody
  MaxRotations = 3
  MaxFailures = 1
  Message = {m1, m2}
  Lifetime = 3
  Skew = 2
  Drift = 1
  MaxClock = 8
  MaxLosses = 3
  Request = {r1, r2}
  Routes <- DomainRoutes
  Visitors <- People
  Arriving <- PlainOrNot
  Limit = 1
  Window = 2
  RecentAge = 2
  OboLifetime = 1
  ClockSkew = 1
  MaxMoment = 3
  MaxOutages = 1
  SettingsTried <- OneOff
SPECIFICATION AccessSpec
INVARIANTS
  PublishedKeyIsAccepted
  RunsOnceWhileValid
  ServedIsAuthorized
  
  StartedIsEquipped
  
PROPERTIES
  AdmittedSinceChange
CHECK_DEADLOCK FALSE
