SPECIFICATION MCSpec
CONSTANTS
    MaxSeq = 3
    Lists = {l1, l2}
    Suballocations = 2
    MaxAllocations = 3
    MaxWrites = 3
    MaxUsed = 2
    MaxReads = 1
    FewWrites = 2
    FewSeq = 2
    MaxPool = 2
    MaxStagingWrites = 3
    MaxCopies = 4
INVARIANTS
    DrawsSeeTheirWrites
    EncoderAgreesWithName
    StagingInOrder
    RenamingInv
PROPERTY
    MapReturns
CHECK_DEADLOCK FALSE
