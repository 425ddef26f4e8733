\* Blocks of 2, 4 and 8 slots: the producer fills, reuses and allocates blocks.
CONSTANTS
  MaxSize = 1
  EnqOps = {"enqueue", "try_enqueue"}
  DeqOps = {"try_dequeue", "pop", "peek"}
  SizeCallers = {"producer", "consumer"}
  MaxBlocks = 3
  MaxItems = 7
  MaxSizes = 1
SPECIFICATION Spec
INVARIANTS TypeOK SlotsAreOwned AssertsHold NoLeak
PROPERTIES ImplementsFifo EmptyIsReal FullIsReal SizeIsBetween
\* The queue is not used any more once it is destroyed.
CHECK_DEADLOCK FALSE
