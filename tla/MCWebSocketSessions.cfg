\* Two sessions: with every request, two occurrences and one group; and between two
\* groups with three connections.
CONSTANTS
    Sessions = {s1, s2}
    GroupIds = {g1, g2}
    NoGroup = NoGroup
    SocketSessions = {s1, s2}
    MaxConnections = 3
    Modes = {"RepeatNone", "RepeatAll", "RepeatOne", "Sorted", "Shuffle"}
    Items = {i1, i2}
    Nil = Nil
    NoOrder = NoOrder
    MaxBatch = 2
    Connections = {c1, c2, c3}
SPECIFICATION MCSpec
SYMMETRY PlaySymmetry
VIEW WithoutThePast
INVARIANTS TypeOK OpenConnectionsCounted MembershipConsistent
PROPERTIES NewItemIsAwaited CommandsSuitTheGroup StaysWhileOpen LeavingTellsTheRest
