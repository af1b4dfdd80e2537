SPECIFICATION QSpec
CONSTANTS
  id13 = id13
  idOther = idOther
  Jobs <- MCJobs
  Partition <- MCPartition
  SECTOR_SIZE_IN_BYTES = 2
  BlockSectors = 8
  FileHeader = 3
  ChunkHeader = 1
  MaxPayload = 16
  Limits <- MCLimits
  MaxLogs = 2
  MaxRuns = 2
  ImageSize = 3
  MaxAsk = 2
  KnownIds <- MCKnownIds
  OtherIds <- MCOtherIds
  FileSizes <- MCFileSizes
INVARIANTS SblOverWholeImage  LockStep  CompletedMeansLoaded NeverOutOfStep
PROPERTY CallEnds
CHECK_DEADLOCK FALSE
