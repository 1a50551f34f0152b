\* The log of a broker that was stopped and started again.
SPECIFICATION Spec
CONSTANTS
  Nodes = {n1, n2, n3}
  NoNode = NoNode
  NoKey = NoKey
  Keys = {k1}
  NumPartitions = 2
  Explicit = {0}
  ExplicitKeys = {k1}
  KeyPartition <- MCKeyPartition
  BatchSizes = {2}
  Handlers = {h1}
  SnapshotThreshold = 2
  TrailingLogs = 2
  MaxCommands = 2
  MaxElections = 2
  MaxFaults = 1
  MaxSnapshots = 3
  Bytes = {0, 1}
  Limit16 = 3
  Limit32 = 3
  NameMax = 2
  DataMax = 1
  CountMax = 2
INVARIANT ReplicasAgree
CHECK_DEADLOCK FALSE
