\* The consumer calls size_approx while the producer links a new block.
CONSTANTS
  FirstSize = 2
  EnqOps = {"enqueue", "try_enqueue"}
  DeqOps = {"try_dequeue", "pop", "peek"}
  SizeCallers = {"consumer"}
  MaxBlocks = 2
  MaxItems = 5
  MaxSizes = 1
SPECIFICATION Spec
INVARIANTS NoDataRace
\* All that is left to do may be to look at an empty queue.
CHECK_DEADLOCK FALSE
