\* One group, three sessions, one of them with a websocket, one occurrence: what a
\* waiting group waits for.
CONSTANTS
    Sessions = {s1, s2, s3}
    GroupIds = {g1}
    NoGroup = NoGroup
    SocketSessions = {s1}
    MaxConnections = 1
    Items = {i1}
    Nil = Nil
    NoOrder = NoOrder
    MaxBatch = 1
    Modes = {}
SPECIFICATION FairSpec
INVARIANTS WaitIsHeld
PROPERTIES StartsTogether WaitEnds
