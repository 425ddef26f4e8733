\* Timers are registered by one application thread, unregistered by every thread.
CONSTANTS
  Threads = {runner, app}
  Runner = runner
  Registrars = {app}
  Secs = {0, 1}
  MilSecs = {1500}
  ClkTck = 1
  MaxId = 2
  MaxClock = 2
  MaxUnReg = 2
  NoThread = NoThread
  Absent = Absent
SPECIFICATION Spec
INVARIANTS TypeOK OneHome NoTimerLost
PROPERTIES SynchronousCancel NeverEarly ImplementsService
