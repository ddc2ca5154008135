\* One session reconnects before its first connection is gone.
CONSTANTS
    Sessions = {s1, s2}
    GroupIds = {g1}
    NoGroup = NoGroup
    SocketSessions = {s1, s2}
    MaxConnections = 3
    Modes = {}
    Items = {i1}
    Nil = Nil
    NoOrder = NoOrder
    MaxBatch = 1
    Connections = {c1, c2, c3}
SPECIFICATION ServingSpec
PROPERTIES LastDisconnectLeaves
