\* Two groups and three sessions: one switches away from a group that waits for it.
CONSTANTS
    Sessions = {s1, s2, s3}
    GroupIds = {g1, g2}
    NoGroup = NoGroup
    SocketSessions = {}
    MaxConnections = 0
    Items = {i1}
    Nil = Nil
    NoOrder = NoOrder
    MaxBatch = 1
    Modes = {}
SPECIFICATION Spec
PROPERTIES DepartureTellsTheRest
