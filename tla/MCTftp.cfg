SPECIFICATION FairSpec
CONSTANTS
  TFTP_MAX_RETRY = 3
  BlockSize = 2
  Width = 3
  Capacity = 3
  MaxWritten = 5
INVARIANTS StoredIsPrefix DoneMeansStored GivesUpOnlyInSilence
PROPERTY UploadEnds
CHECK_DEADLOCK FALSE
