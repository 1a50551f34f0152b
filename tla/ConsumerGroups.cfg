\* Overlapping commits, failed transactions, the lag sweep, crash and restart.
SPECIFICATION FairSpec
CONSTANTS
  Keys = {g1}
  Handlers = {h1, h2}
  Offsets = {0, 2}
  MaxHead = 2
  MaxCommits = 3
  MaxCrashes = 1
INVARIANTS
  TypeOK
  StandingCommit
PROPERTIES
  LagSettles
