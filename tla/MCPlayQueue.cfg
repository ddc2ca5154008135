\* Every queue of up to four occurrences.
CONSTANTS
    Items = {i1, i2, i3, i4}
    Nil = Nil
    NoOrder = NoOrder
    MaxBatch = 2
SPECIFICATION Spec
SYMMETRY ItemSymmetry
INVARIANTS TypeOK QueueConsistent ShuffleIsReversible QueueNextPlaysNext NextAndPreviousInverse
PROPERTIES EditsKeepPlaying
