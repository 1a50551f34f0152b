\* A process crash inside an append, then a restart.
SPECIFICATION CrashSpec
CONSTANTS
  short = short
  long = long
  Records <- MCRecords
  RawLen <- MCRawLen
  ZipLen <- MCZipLen
  MaxSegmentSize = 4
  BatchSizes = {2}
  Times = {1}
  RetentionSizes = {0, 5}
  Cutoffs = {0, 2}
  MaxOffset = 3
  MaxFaults = 1
INVARIANT AckedReadable
