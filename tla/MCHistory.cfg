\* One start that gets as far as the file, and a restart, are enough.
SPECIFICATION HistorySpec
CONSTANTS
    Tasks = {t1}
    Runs = {r1}
    Requests = {q1}
    Scheduler = scheduler
    None = None
    Torn = Torn
    Absent = Absent
    MaxHistory = 2
PROPERTY HistorySurvivesRestart
