\* Timers are registered by the callbacks, unregistered by every thread.
CONSTANTS
  Threads = {runner, app, other}
  Runner = runner
  Registrars = {runner}
  Secs = {0}
  MilSecs = {1500}
  ClkTck = 1
  MaxId = 2
  MaxClock = 2
  MaxUnReg = 2
  NoThread = NoThread
  Absent = Absent
SPECIFICATION Spec
INVARIANTS NoWaitCycle IteratorStaysValid
PROPERTIES NoRunAfterUnRegister ImplementsService
