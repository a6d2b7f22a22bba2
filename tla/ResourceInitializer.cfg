SPECIFICATION Spec
CONSTANTS
  CpuHeapSize = 4
  BlitSize = 1
  ClearSize = 2
  StorageSize = 1
  RetainSlots = 1
  kResourceInitializerChunks = 2
  ZeroSizes = {1, 2}
  DataSizes = {1, 3}
  BlockSize = 2
  kStagingBlockLifetime = 1
  AllOnes = 1000
  MaxBlocks = 4
  MaxInits = 4
  MaxChunks = 2
INVARIANTS ChunkSeesInits ZerosAreZero UploadIntact InitializerInv
PROPERTIES ChunksStart
CHECK_DEADLOCK FALSE
