\* Blocks of 2 and 4 slots; the consumer does not call size_approx.
CONSTANTS
  FirstSize = 2
  EnqOps = {"enqueue", "try_enqueue"}
  DeqOps = {"try_dequeue", "pop", "peek"}
  SizeCallers = {"producer"}
  MaxBlocks = 2
  MaxItems = 5
  MaxSizes = 1
SPECIFICATION Spec
INVARIANTS NoDataRace AssertsHold
PROPERTIES ImplementsFifo
\* All that is left to do may be to look at an empty queue.
CHECK_DEADLOCK FALSE
