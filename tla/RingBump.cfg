SPECIFICATION Spec
CONSTANTS
  BlockSize = 2
  kStagingBlockLifetime = 1
  Sizes = {1, 3}
  Alignments = {1, 2}
  AllOnes = 1000
  MaxSeq = 4
  MaxBlocks = 3
INVARIANTS
  IInv
  NoLiveReuse
CHECK_DEADLOCK FALSE
