\* An application thread and the run loop's thread, two calls of connect, also nested.
CONSTANTS
  Threads = {runner, app}
  Runner = runner
  TestTimes = 10
  MaxSockets = 2
SPECIFICATION FairSpec
INVARIANTS TypeOK ConnectTells
PROPERTIES ConnectReturns StopEndsRun
\* A destroyed client does nothing any more.
CHECK_DEADLOCK FALSE
