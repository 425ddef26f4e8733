\* Both builds; kqueue's wait may be interrupted, and descriptor 0 is given out.
CONSTANTS
  Backends = {"epoll", "kqueue"}
  Fds = {0, 3, 4}
  MaxObjs = 3
  MaxLost = 1
  MaxEvents = 2
  MaxUint = 1000
  Interrupted = {"kqueue"}
SPECIFICATION Spec
INVARIANTS TypeOK DescriptorsOwned RegisteredIsOwner CloseOnce QuietOnError
\* A server whose descriptors are all unregistered waits for ever.
CHECK_DEADLOCK FALSE
