SPECIFICATION MCSpec
CONSTANTS
    Collections = {c1, c2}
    Scanners = {s1, s2, watcher}
    Watcher = watcher
    Items = {i1, i2, i3}
    MaxLimit = 2
    ProbeKeys = {k1, k2}
    ProbeRequests = {q1, q2}
    Flights = {f1, f2}
    NoFlight = NoFlight
    Failed = Failed
    MaxEntries = 1
    Jobs = {j1}
    Encoders = {e1, e2}
    PlaySessions = {p1}
    Stops = {x1}
    Nothing = Nothing
    MaxCommand = 2
    Sockets = {w1, w2}
    QueueCapacity = 1
    Paths = {a1, a2}
    ImageRequests = {r1, r2}
    PathLocks = {l1, l2, l3}
    NoLock = NoLock
    MaxEncodes = 1
    Codes = {n1, n2}
    Users = {u1, u2}
    Authorizers = {z1, z2}
    NoUser = NoUser
    MaxSecret = 2
    MaxTime = 2
    Lifetime = 1
    Clients = {o1, o2}
    MaxAccount = 2
    MaxPassword = 1
INVARIANTS
    ReservationsExact
    NoLostWakeup
    OneProbePerKey
    EntriesHaveTask
    OutboxKeepsUnsent
    NobodyOpenMisses
    NoSecondEncode
    OneDevicePerRequest
    AdministratorStays
PROPERTIES
    AffectedAreScanned
    CancelledJobsEnd
    OneEncodePerPath
    RequestsAreServed
    AuthorizationIsFinal
CHECK_DEADLOCK FALSE
