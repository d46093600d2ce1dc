CONSTANTS
  Tool = {delete}
  RequiresApproval = {delete}
  Run = {c1, c2}
  QueryLimit = 1
  MaxIterations = 1
  CallCap = 1
  TurnsKept = 2
  MaxTurns = 3
  Reviewer = {v1, v2}
  Asked = {a1, a2}
  Event = {e1, e2}
  Handled = {e1}
  CortexWorker = {w1, w2}
  EventAttempts = 2
  EventStalls = 1
  Hook = {h1, h2}
  Deliverer = {d1, d2}
  HookAttempts = 2
  HookRetries = 1
  BreakerThreshold = 3
  Caller = {q1, q2}
  Endpoint = {"strict", "hourly"}
  EndpointLimit <- MCEndpointLimit
  EndpointWindow <- MCEndpointWindow
  FailsClosed = {"strict"}
  Minute = 2
  Delay = 1
  OpenCeiling = 2
  MaxUncounted = 1
  Day = {day1}
  ActiveUser = {u1, u2}
  Reader = {b1, b2}
  Report = {p1, p2}
  Requester = {k1, k2}
  Poller = {z1}
  MaxReportDepth = 0
  ReportAttempts = 2
  Email = {m1, m2}
  Inviter = {i1, i2}
  Accepter = {x1}
  SeatLimit = 1
  MaxInvites = 2
  MaxExcused = 1
  Remover = {f1, f2}
  SignIn = {s1, s2}
  MaxSessions = 2
  MaxSignIns = 4
  Enroller = {n1, n2, n3}
  MaxSecrets = 3
  SsoState = {t1, t2}
  Callback = {g1, g2}
  SsoEmail = {j1, j2}
  Signup = {o1, o2}
  MaxAccounts = 2
  ProvisionAttempts = 2
  ProvisionStalls = 1
  ErpReader = {l1}
  Writer = {y1}
  DocTtl = 1
  ListTtl = 1
  Flight = 1
  MaxAttempts = 2
  MaxVersions = 2
  Logger = {lg1, lg2}
  HeadTtl = 1
  Retention = 1
  LogDelay = 0
  MaxOutages = 1
  MaxEntries = 4
  LastClock = 3
  Actor = {ta1, ta2}
  Tenant = {te1, te2}
  Connection = {cn1, cn2}
  NoTenant = NoTenant
  LeadRequest = {le1, le2}
  LeadLimit = 1
  LeadWindow = 2
  LeadDelay = 1
  MaxFaults = 1
  LastInstant = 4
  Eraser = {ea1}
  Person = {pe1, pe2}
  LogEntry = {en1}
  Grace = 1
SPECIFICATION ComponentsSpec
CHECK_DEADLOCK FALSE
INVARIANT ComponentsTypeOK
 
INVARIANT CeilingHeld
INVARIANT HistoryKept
INVARIANT DecisionStands
INVARIANT ActsBounded
INVARIANT WindowsBounded
 
INVARIANT ReportFound
 
INVARIANT RemovedUserOut
INVARIANT EnabledProven
INVARIANT ProvisionBounded
INVARIANT CachesFresh
INVARIANT AuditLinked
INVARIANT TenantIsolated
 
PROPERTY BreakerEarned
PROPERTY ActiveKept
