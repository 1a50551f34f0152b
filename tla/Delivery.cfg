\* A follower and a one-shot client of one group; retention, configuration changes,
\* crashes, lost answers, and the broker's other calls.
SPECIFICATION FairSpec
CONSTANTS
  Followers = {f}
  OneShots = {s}
  NoClient = NoClient
  MaxRecords = 2
  MaxChanges = 1
  MaxOthers = 1
  MaxFaults = 1
INVARIANTS
  TypeOK
  CommittedWasPrinted
  OnceUnlessDisturbed
PROPERTIES
  FirstPrintsInOrder
  Progress
  CompressionSettles
