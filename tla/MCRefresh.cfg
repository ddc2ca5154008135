SPECIFICATION FairRefreshSpec
CONSTANTS
    Tasks = {t1}
    Runs = {r1, r2}
    Requests = {q1}
    Scheduler = scheduler
    None = None
    Collections = {c1}
    Scanners = {r1, r2}
INVARIANTS
    RegisteredWhileRunning
    NoRunIsLost
PROPERTIES
    EveryCallReturns
    StoppedRunsEnd
    StoppedRefreshFreesLibrary
