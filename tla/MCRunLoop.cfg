\* Callbacks and an application thread call the timers and stop, callbacks connect.
CONSTANTS
  Threads = {runner, app}
  Runner = runner
  Registrars = {runner}
  Secs = {0}
  MilSecs = {}
  ClkTck = 1
  MaxId = 2
  MaxClock = 1
  MaxUnReg = 2
  TestTimes = 1
  MaxSockets = 1
  Dialers = {runner}
  NoThread = NoThread
  Absent = Absent
SPECIFICATION FairSpec
PROPERTIES ImplementsClient DueTimerRuns CallbackCallsReturn StopFreesCallers
\* A destroyed client does nothing any more.
CHECK_DEADLOCK FALSE
