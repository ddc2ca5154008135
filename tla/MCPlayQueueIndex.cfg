\* Three occurrences are enough for a removal to leave the index behind.
CONSTANTS
    Items = {i1, i2, i3}
    Nil = Nil
    NoOrder = NoOrder
    MaxBatch = 3
SPECIFICATION Spec
INVARIANTS PlayingIndexInRange
