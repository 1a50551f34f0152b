\* Requests, workers and Close of one broker.
SPECIFICATION FairSpec
CONSTANTS
  Topics = {t1}
  GrpcHandlers = {g1}
  HttpHandlers = {h1}
  JoinAttempts = 5
INVARIANTS
  TypeOK
  OneLogInUse
  LogsOutliveTheirUsers
PROPERTIES
  WaitEndsUnlessDeaf
  ClosePastWorkersReturns
CHECK_DEADLOCK FALSE
