SPECIFICATION WatchSpec
CONSTANTS
    Collections = {c1}
    Scanners = {s1, watcher}
    Watcher = watcher
INVARIANT NoScanDuringBackup
CHECK_DEADLOCK FALSE
