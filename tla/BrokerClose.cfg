\* A broker without requests is told to stop.
SPECIFICATION FairSpec
CONSTANTS
  Topics = {t1}
  GrpcHandlers = {}
  HttpHandlers = {}
  JoinAttempts = 5
PROPERTY CloseReturns
CHECK_DEADLOCK FALSE
