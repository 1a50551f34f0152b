\* Publishing through elections, failed applies, restarts and snapshots.
SPECIFICATION Spec
CONSTANTS
  Nodes = {n1, n2, n3}
  NoNode = NoNode
  NoKey = NoKey
  Keys = {k1}
  NumPartitions = 2
  Explicit = {0}
  ExplicitKeys = {k1}
  KeyPartition <- MCKeyPartition
  BatchSizes = {2}
  Handlers = {h1, h2}
  SnapshotThreshold = 1
  TrailingLogs = 0
  MaxCommands = 2
  MaxElections = 2
  MaxFaults = 1
  MaxSnapshots = 1
  Bytes = {0, 1}
  Limit16 = 3
  Limit32 = 3
  NameMax = 2
  DataMax = 1
  CountMax = 2
INVARIANTS
  TypeOK
  UndisturbedReplicasAgree
  AckedStays
  KeyOrder
  NothingLost
  SingleRoundTrip
  BatchRoundTrip
  DecodeStaysInside
SYMMETRY MCSymmetry
CHECK_DEADLOCK FALSE
