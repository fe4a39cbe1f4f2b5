CONSTANTS
  r1 = r1
  r2 = r2
  b1 = b1
  b2 = b2
  Users = {u1}
  Ips = {i1}
  Requests = {r1, r2}
  LockThreshold = 1
  LockTime = 1
  Window = 1
  Suspension = 1
  AbuseThreshold = 2
  None = None
  MaxTime = 2
  MaxStarted = 3
  MaxRestarts = 1
  People = {o1, o2, o3}
  Calls = {r1, r2}
  ConfiguredOwner = o2
  DefaultOwner = o1
  Nobody = Nobody
  Events = {e1, e2}
  WithUser = {e1}
  Engineers = {1, 2}
  Tabs = {r1, r2}
  Notes = {"", "text"}
  Unassigned = 0
  MaxChanges = 2
  Integrations = {b1, b2}
  TelegramBots = {x, y}
  Admins = {r1, r2}
  Nowhere = Nowhere
  MaxRevocations = 1
  MaxOpened = 2
  Documents = {d1, d2}
  Slots = {r1, r2}
  NoDocument = NoDocument
  Deliveries = {r1, r2, r3}
  Limit = 1
  MaxFaults = 2
  ApiCalls = {r1, r2}
  GlobalRequests = 3
  RuleRequests = 2
  WindowSeconds = 2
  MaxInFlight = 1
  LastMoment = 4
SPECIFICATION Spec
SYMMETRY Symmetry
INVARIANTS
  TypeOK
  BarredStaysOut
  OwnerRemains
  TimelineIsTrue
  ActiveIsReached
  RowsAndFilesAgree
  AdmittedWithinLimits
PROPERTIES
  SanctionStands
CHECK_DEADLOCK FALSE
