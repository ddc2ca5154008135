\* Three that write the history: a run, a request and the scheduler.  Three calls of the
\* lock, and a mutex for every call there can be.
SPECIFICATION MCSpec
CONSTANTS
    Tasks = {t1}
    Runs = {r1}
    Requests = {q1}
    Scheduler = scheduler
    None = None
    Torn = Torn
    Absent = Absent
    MaxHistory = 2
    Contexts = {x1, x2, x3}
    Keys = {k1, k2}
    NoKey = NoKey
    Locks = {l1, l2, l3}
    NoLock = NoLock
    Nobody = Nobody
    MaxDepth = 2
INVARIANTS
    EntriesExact
    NoMutexIsLost
PROPERTIES
    HistoryNeverGoesBack
    IsKeyedMutex
    WaitersServed
CHECK_DEADLOCK FALSE
