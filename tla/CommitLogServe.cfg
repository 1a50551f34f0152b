\* A log in service: appends, batches, rollover, retention, close and reopen.
SPECIFICATION ServeSpec
CONSTANTS
  short = short
  long = long
  Records <- MCRecords
  RawLen <- MCRawLen
  ZipLen <- MCZipLen
  MaxSegmentSize = 4
  BatchSizes = {2}
  Times = {1, 2}
  RetentionSizes = {0, 5}
  Cutoffs = {0, 2}
  MaxOffset = 4
  MaxFaults = 0
INVARIANTS
  AckedReadable
  ReadBatchComplete
  LatestOffsetIsLast
  ReopenSucceeds
PROPERTIES
  ImplementsPartitionLog
