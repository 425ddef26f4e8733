\* epoll, and a signal may interrupt the wait.
CONSTANTS
  Backends = {"epoll"}
  Fds = {3, 4, 5}
  MaxObjs = 4
  MaxLost = 1
  MaxEvents = 2
  MaxUint = 1000
  Interrupted = {"epoll"}
SPECIFICATION Spec
INVARIANTS QuietOnError
\* A server whose descriptors are all unregistered waits for ever.
CHECK_DEADLOCK FALSE
