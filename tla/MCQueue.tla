------------------------------ MODULE MCQueue ------------------------------
(* The instances of ReaderWriterQueue that TLC checks.  ceilToPow2 is here *)
(* as the code computes it, and agrees with the definition by its result   *)
(* that the queue is specified and proved with.                            *)
EXTENDS ReaderWriterQueue, Bitwise

Smear(x, shift) == x | shiftR(x, shift)
(* The shifts of the loop, i << 3 for i = 1, 2, 4: sizeof(size_t) is 8.    *)
ceilToPow2(x) == FoldLeft(Smear, x - 1, <<1, 2, 4, 8, 16, 32>>) + 1

ASSUME CeilToPow2Computed == \A x \in 1..30 : ceilToPow2(x) = CeilToPow2(x)
=============================================================================
