\* Everything: service, compaction, compression switches, crashes, failed writes.
SPECIFICATION Spec
CONSTANTS
  short = short
  long = long
  Records <- MCRecords
  RawLen <- MCRawLen
  ZipLen <- MCZipLen
  MaxSegmentSize = 4
  BatchSizes = {2}
  Times = {1}
  RetentionSizes = {0, 5}
  Cutoffs = {0, 2}
  MaxOffset = 4
  MaxFaults = 1
INVARIANTS
  TypeOK
  SegmentsContiguous
  OffsetsUnique
  AckedBelowHead
  HeadIntact
  RestartContinues
  ReadsNeverWrong
