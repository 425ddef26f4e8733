-------------------------- MODULE ReaderWriterQueue --------------------------
(***************************************************************************)
(* moodycamel::ReaderWriterQueue (include/qing/util/readerwriterqueue.h),  *)
(* the lock-free queue of one producer and one consumer: a ring of blocks, *)
(* each a circular buffer that wastes one slot.                            *)
(*                                                                         *)
(* One step is one access to a variable that the other thread writes, or   *)
(* one store that the other thread reads; a thread's reads of what only it *)
(* writes are taken together with the next such access.  The stores become *)
(* visible in program order, as the fences of atomicops.h ask.             *)
(***************************************************************************)
EXTENDS Integers, SequencesExt

CONSTANTS
  MaxSize,    \* the constructor's argument
  EnqOps,     \* what the producer calls: enqueue, try_enqueue
  DeqOps,     \* what the consumer calls: try_dequeue, pop, peek
  SizeCallers,  \* which of the two calls size_approx
  MaxBlocks,  \* bound: how many blocks malloc gives
  MaxItems,   \* bound: how many elements are enqueued
  MaxSizes    \* bound: how many times size_approx is called

ASSUME QueueAssumption ==
  /\ MaxSize \in Nat \ {0}
  /\ EnqOps \subseteq {"enqueue", "try_enqueue"}
  /\ DeqOps \subseteq {"try_dequeue", "pop", "peek"}
  /\ SizeCallers \subseteq {"producer", "consumer"}
  /\ MaxBlocks \in Nat \ {0}
  /\ MaxItems \in Nat
  /\ MaxSizes \in Nat

(* Arithmetic: there is a power of two from MaxSize + 1 to its double.     *)
ASSUME PowerAssumption ==
  LET x == MaxSize + 1 IN
  /\ \A k \in 0..x : 2^k \in Nat
  /\ \E k \in 0..x : x <= 2^k /\ 2^k < 2 * x

VARIABLES
  blocks,      \* the blocks, in the order of their allocation
  live,        \* the slots <<block, index>> that hold a constructed element
  frontBlock,
  tailBlock,
  largest,     \* largestBlockSize
  p,           \* the producer: where it is in inner_enqueue, and its locals
  c,           \* the consumer: where it is in try_dequeue, pop or peek
  size,        \* size[t]: thread t's locals in size_approx
  sizes,       \* how many times size_approx was called, for the bound
  sent,        \* how many elements have been enqueued; the n-th one is n
  got,         \* what try_dequeue or peek returned last
  freed        \* the blocks that the destructor has freed

vars == <<blocks, live, frontBlock, tailBlock, largest, p, c, size, sizes, sent, got, freed>>

(* A block: element i of the buffer is data[i + 1].                        *)
Block(n, tail, next, first) ==
  [front |-> 0, tail |-> tail, next |-> next, size |-> n,
   data |-> [i \in 1..n |-> IF i = 1 THEN first ELSE 0]]
AfterUnmasked(b, i) == i + 1
After(b, i) == (i + 1) % blocks[b].size
Used(b) == (blocks[b].tail - blocks[b].front) % blocks[b].size

(* The least power of two that is not below x.                             *)
CeilToPow2(x) == CHOOSE n \in {2^k : k \in 0..x} : x <= n /\ n < 2 * x

(* The first block: a spare slot, to fit maxSize elements in it.           *)
FirstSizeNoSpare == CeilToPow2(MaxSize)
FirstSize == CeilToPow2(MaxSize + 1)

-----------------------------------------------------------------------------
(* The elements between the front and the tail, the oldest one first.      *)

Ring[k \in Nat] == IF k = 0 THEN frontBlock ELSE blocks[Ring[k - 1]].next
TailPos == CHOOSE k \in 0..Len(blocks) : /\ Ring[k] = tailBlock
                                         /\ \A j \in 0..(k - 1) : Ring[j] # tailBlock
Items(b) == [i \in 1..Used(b) |->
              blocks[b].data[((blocks[b].front + i - 1) % blocks[b].size) + 1]]
Contents == FlattenSeq([k \in 1..(TailPos + 1) |-> Items(Ring[k - 1])])
Count == Len(Contents)

-----------------------------------------------------------------------------
(* inner_enqueue, with CanAlloc for enqueue and CannotAlloc for            *)
(* try_enqueue.  p.seen remembers how many elements there were when the    *)
(* producer looked whether its block was full.                             *)

NotIn == [pc |-> "idle", op |-> "none", blk |-> 0, slot |-> 0, seen |-> 0]

LoadTailBlockUnchecked(op) ==
  /\ p.pc = "idle"
  /\ size["producer"].pc = "idle"
  /\ freed = {}
  /\ sent < MaxItems
  /\ p' = [pc |-> "construct", op |-> op, blk |-> tailBlock,
           slot |-> blocks[tailBlock].tail, seen |-> 0]
  /\ UNCHANGED <<blocks, live, frontBlock, tailBlock, largest, c, size, sizes, sent, got, freed>>
LoadTailBlock(op) ==
  /\ p.pc = "idle"
  /\ size["producer"].pc = "idle"
  /\ freed = {}
  /\ sent < MaxItems
  /\ LET b == tailBlock
         room == After(b, blocks[b].tail) # blocks[b].front
     IN p' = [pc |-> IF room THEN "construct" ELSE "check", op |-> op, blk |-> b,
              slot |-> blocks[b].tail, seen |-> Count]
  /\ UNCHANGED <<blocks, live, frontBlock, tailBlock, largest, c, size, sizes, sent, got, freed>>

(* `new (location) T`, which only the store of tail lets the consumer see. *)
Construct ==
  /\ p.pc = "construct"
  /\ blocks' = [blocks EXCEPT ![p.blk].data[p.slot + 1] = sent + 1]
  /\ live' = live \cup {<<p.blk, p.slot>>}
  /\ p' = [p EXCEPT !.pc = "publish"]
  /\ UNCHANGED <<frontBlock, tailBlock, largest, c, size, sizes, sent, got, freed>>

(* The store of tail.  In the tail block it completes the enqueue.         *)
Publish ==
  /\ p.pc = "publish"
  /\ blocks' = [blocks EXCEPT ![p.blk].tail = After(p.blk, p.slot)]
  /\ IF p.blk = tailBlock
     THEN p' = NotIn /\ sent' = sent + 1
     ELSE p' = [p EXCEPT !.pc = "advance"] /\ UNCHANGED sent
  /\ UNCHANGED <<live, frontBlock, tailBlock, largest, c, size, sizes, got, freed>>

(* The tail block was full: is the next block free?                        *)
CheckNextAlways ==
  /\ p.pc = "check"
  /\ p' = [p EXCEPT !.pc = IF blocks[tailBlock].next # tailBlock THEN "reuse" ELSE "alloc"]
  /\ UNCHANGED <<blocks, live, frontBlock, tailBlock, largest, c, size, sizes, sent, got, freed>>
CheckNext ==
  /\ p.pc = "check"
  /\ p' = IF blocks[tailBlock].next # frontBlock THEN [p EXCEPT !.pc = "reuse"]
          ELSE IF p.op = "enqueue" THEN [p EXCEPT !.pc = "alloc"]
          ELSE NotIn
  /\ UNCHANGED <<blocks, live, frontBlock, tailBlock, largest, c, size, sizes, sent, got, freed>>

ReuseNextAdvances ==
  /\ p.pc = "reuse"
  /\ LET b == blocks[tailBlock].next
     IN /\ p' = [p EXCEPT !.pc = "construct", !.blk = b, !.slot = blocks[b].tail]
        /\ tailBlock' = b
  /\ UNCHANGED <<blocks, live, frontBlock, largest, c, size, sizes, sent, got, freed>>
ReuseNext ==
  /\ p.pc = "reuse"
  /\ LET b == blocks[tailBlock].next
     IN p' = [p EXCEPT !.pc = "construct", !.blk = b, !.slot = blocks[b].tail]
  /\ UNCHANGED <<blocks, live, frontBlock, tailBlock, largest, c, size, sizes, sent, got, freed>>

(* make_block gives a block, which is private until it is linked.          *)
Alloc ==
  /\ p.pc = "alloc"
  /\ Len(blocks) < MaxBlocks
  /\ largest' = 2 * largest
  /\ blocks' = Append(blocks, Block(2 * largest, 1, blocks[tailBlock].next, sent + 1))
  /\ live' = live \cup {<<Len(blocks) + 1, 0>>}
  /\ p' = [p EXCEPT !.pc = "link", !.blk = Len(blocks) + 1]
  /\ UNCHANGED <<frontBlock, tailBlock, c, size, sizes, sent, got, freed>>

(* malloc returns nullptr and enqueue false.                               *)
AllocFails ==
  /\ p.pc = "alloc"
  /\ p' = NotIn
  /\ UNCHANGED <<blocks, live, frontBlock, tailBlock, largest, c, size, sizes, sent, got, freed>>

Link ==
  /\ p.pc = "link"
  /\ blocks' = [blocks EXCEPT ![tailBlock].next = p.blk]
  /\ p' = [p EXCEPT !.pc = "advance"]
  /\ UNCHANGED <<live, frontBlock, tailBlock, largest, c, size, sizes, sent, got, freed>>

AdvanceTail ==
  /\ p.pc = "advance"
  /\ tailBlock' = p.blk
  /\ sent' = sent + 1
  /\ p' = NotIn
  /\ UNCHANGED <<blocks, live, frontBlock, largest, c, size, sizes, got, freed>>

-----------------------------------------------------------------------------
(* try_dequeue, pop and peek.                                              *)

Out(pc, op, tail, seen) ==
  [pc |-> pc, op |-> op, tail |-> tail, blk |-> 0, slot |-> 0, val |-> 0, seen |-> seen]
NotOut == Out("idle", "none", 0, 0)

(* tailBlockAtStart.  c.seen remembers how many elements there were then.  *)
RememberTail(op) ==
  /\ c.pc = "idle"
  /\ size["consumer"].pc = "idle"
  /\ freed = {}
  /\ c' = Out("load", op, tailBlock, Count)
  /\ UNCHANGED <<blocks, live, frontBlock, tailBlock, largest, p, size, sizes, sent, got, freed>>

LoadFrontBlock ==
  /\ c.pc = "load"
  /\ LET b == frontBlock
     IN c' = [c EXCEPT !.pc = IF blocks[b].front # blocks[b].tail THEN "take" ELSE "compare",
                       !.blk = b, !.slot = blocks[b].front]
  /\ UNCHANGED <<blocks, live, frontBlock, tailBlock, largest, p, size, sizes, sent, got, freed>>

(* The front block was empty: return false if it was the tail block when   *)
(* the call began.                                                         *)
CompareTailNow ==
  /\ c.pc = "compare"
  /\ c' = IF c.blk # tailBlock THEN [c EXCEPT !.pc = "next"] ELSE NotOut
  /\ UNCHANGED <<blocks, live, frontBlock, tailBlock, largest, p, size, sizes, sent, got, freed>>
CompareTailGiveUp ==
  /\ c.pc = "compare"
  /\ c' = NotOut
  /\ UNCHANGED <<blocks, live, frontBlock, tailBlock, largest, p, size, sizes, sent, got, freed>>
CompareTail ==
  /\ c.pc = "compare"
  /\ c' = IF c.blk # c.tail THEN [c EXCEPT !.pc = "next"] ELSE NotOut
  /\ UNCHANGED <<blocks, live, frontBlock, tailBlock, largest, p, size, sizes, sent, got, freed>>

LoadNext ==
  /\ c.pc = "next"
  /\ LET b == blocks[c.blk].next
     IN c' = [c EXCEPT !.pc = IF c.op = "peek" THEN "take" ELSE "move", !.blk = b,
                       !.slot = blocks[b].front]
  /\ UNCHANGED <<blocks, live, frontBlock, tailBlock, largest, p, size, sizes, sent, got, freed>>

(* The assertion that the next block has an element, then the store of     *)
(* frontBlock.                                                             *)
MoveFront ==
  /\ c.pc = "move"
  /\ frontBlock' = c.blk
  /\ c' = [c EXCEPT !.pc = "take"]
  /\ UNCHANGED <<blocks, live, tailBlock, largest, p, size, sizes, sent, got, freed>>

(* Move the element out and destroy it; peek leaves it where it is.        *)
Take ==
  /\ c.pc = "take"
  /\ LET val == blocks[c.blk].data[c.slot + 1] IN
     IF c.op = "peek"
     THEN /\ got' = val
          /\ c' = NotOut
          /\ UNCHANGED live
     ELSE /\ live' = live \ {<<c.blk, c.slot>>}
          /\ c' = [c EXCEPT !.pc = "release", !.val = val]
          /\ UNCHANGED got
  /\ UNCHANGED <<blocks, frontBlock, tailBlock, largest, p, size, sizes, sent, freed>>

(* The store of front completes the call.                                  *)
Release ==
  /\ c.pc = "release"
  /\ blocks' = [blocks EXCEPT ![c.blk].front = After(c.blk, c.slot)]
  /\ got' = IF c.op = "try_dequeue" THEN c.val ELSE got
  /\ c' = NotOut
  /\ UNCHANGED <<live, frontBlock, tailBlock, largest, p, size, sizes, sent, freed>>

-----------------------------------------------------------------------------
(* size_approx, which either thread may call between its other calls: once *)
(* around the ring, loading the front, the tail and the next of a block.   *)
(* size[t].seen remembers how many elements there were at the call.        *)

NotSizing == [pc |-> "idle", first |-> 0, blk |-> 0, front |-> 0, sum |-> 0, seen |-> 0]

SizeBegin(t) ==
  /\ t \in SizeCallers
  /\ sizes < MaxSizes
  /\ sizes' = sizes + 1
  /\ size[t].pc = "idle"
  /\ freed = {}
  /\ IF t = "producer" THEN p.pc = "idle" ELSE c.pc = "idle"
  /\ size' = [size EXCEPT ![t] = [pc |-> "front", first |-> frontBlock, blk |-> frontBlock,
                                  front |-> 0, sum |-> 0, seen |-> Count]]
  /\ UNCHANGED <<blocks, live, frontBlock, tailBlock, largest, p, c, sent, got, freed>>

SizeFront(t) ==
  /\ size[t].pc = "front"
  /\ size' = [size EXCEPT ![t].pc = "tail", ![t].front = blocks[size[t].blk].front]
  /\ UNCHANGED <<blocks, live, frontBlock, tailBlock, largest, p, c, sizes, sent, got, freed>>

SizeTailUnmasked(t) ==
  /\ size[t].pc = "tail"
  /\ size' = [size EXCEPT ![t].pc = "next",
                          ![t].sum = @ + blocks[size[t].blk].tail - size[t].front]
  /\ UNCHANGED <<blocks, live, frontBlock, tailBlock, largest, p, c, sizes, sent, got, freed>>
SizeTail(t) ==
  /\ size[t].pc = "tail"
  /\ size' = [size EXCEPT ![t].pc = "next",
                          ![t].sum = @ + ((blocks[size[t].blk].tail - size[t].front)
                                            % blocks[size[t].blk].size)]
  /\ UNCHANGED <<blocks, live, frontBlock, tailBlock, largest, p, c, sizes, sent, got, freed>>

(* Back at the first block: return the sum.                                *)
SizeNext(t) ==
  /\ size[t].pc = "next"
  /\ LET b == blocks[size[t].blk].next
     IN size' = [size EXCEPT ![t] = IF b = @.first THEN NotSizing
                                    ELSE [@ EXCEPT !.pc = "front", !.blk = b]]
  /\ UNCHANGED <<blocks, live, frontBlock, tailBlock, largest, p, c, sizes, sent, got, freed>>

(* The destructor, when neither thread uses the queue: from frontBlock     *)
(* until it is back there, destroy what is between the front and the tail  *)
(* of a block and free it.                                                 *)
DestroyTo(last) ==
  /\ p.pc = "idle" /\ c.pc = "idle"
  /\ \A t \in DOMAIN size : size[t].pc = "idle"
  /\ freed = {}
  /\ freed' = {Ring[k] : k \in 0..last}
  /\ live' = live \ UNION {{<<b, (blocks[b].front + i) % blocks[b].size>> : i \in 0..(Used(b) - 1)}
                             : b \in freed'}
  /\ UNCHANGED <<blocks, frontBlock, tailBlock, largest, p, c, size, sizes, sent, got>>

RingLength == CHOOSE k \in 1..Len(blocks) : /\ Ring[k] = frontBlock
                                            /\ \A j \in 1..(k - 1) : Ring[j] # frontBlock
DestroyToTail == DestroyTo(TailPos)
Destroy == DestroyTo(RingLength - 1)

-----------------------------------------------------------------------------
Init ==
  /\ largest = FirstSize
  /\ blocks = <<Block(largest, 0, 1, 0)>>
  /\ live = {}
  /\ frontBlock = 1
  /\ tailBlock = 1
  /\ p = NotIn
  /\ c = NotOut
  /\ size = [t \in {"producer", "consumer"} |-> NotSizing]
  /\ sizes = 0
  /\ sent = 0
  /\ got = 0
  /\ freed = {}

Producer ==
  \/ \E op \in EnqOps : LoadTailBlock(op)
  \/ Construct
  \/ Publish
  \/ CheckNext
  \/ ReuseNext
  \/ Alloc
  \/ AllocFails
  \/ Link
  \/ AdvanceTail

Consumer ==
  \/ \E op \in DeqOps : RememberTail(op)
  \/ LoadFrontBlock
  \/ CompareTail
  \/ LoadNext
  \/ MoveFront
  \/ Take
  \/ Release

Sizing(t) == SizeBegin(t) \/ SizeFront(t) \/ SizeTail(t) \/ SizeNext(t)

Next == Producer \/ Consumer \/ (\E t \in DOMAIN size : Sizing(t)) \/ Destroy

Spec == Init /\ [][Next]_vars

-----------------------------------------------------------------------------
(* Type correctness: indices stay inside their block, and every pointer    *)
(* names a block.                                                          *)
TypeOK ==
  LET B == DOMAIN blocks IN
  /\ Len(blocks) \in 1..MaxBlocks
  /\ \A b \in B : /\ blocks[b].front \in 0..(blocks[b].size - 1)
                  /\ blocks[b].tail \in 0..(blocks[b].size - 1)
                  /\ blocks[b].next \in B
                  /\ b > 1 => blocks[b].size = 2 * blocks[b - 1].size
                  /\ Len(blocks[b].data) = blocks[b].size
  /\ frontBlock \in B /\ tailBlock \in B
  /\ p.blk \in B \cup {0} /\ c.blk \in B \cup {0}
  /\ largest = blocks[Len(blocks)].size

(* The queue is linearizable: in every interleaving the calls take effect  *)
(* one at a time, the elements leave in the order in which they came, each *)
(* one once, and peek shows the one that try_dequeue would return.         *)
Fifo == INSTANCE FifoQueue WITH q <- IF freed = {} THEN Contents ELSE <<>>, gone <- freed # {}
ImplementsFifo == Fifo!Spec

(* The producer constructs an element only where none lives, and the       *)
(* consumer reads and destroys one only where one lives.                   *)
SlotsAreOwned ==
  /\ p.pc = "construct" => <<p.blk, p.slot>> \notin live
  /\ c.pc = "take" => <<c.blk, c.slot>> \in live

(* The asserts: the block that the consumer moves on to has an element,    *)
(* and a block ahead of the producer that is not the front block is empty. *)
AssertsHold ==
  /\ c.pc \in {"move", "take"} => Used(c.blk) > 0
  /\ p.pc = "reuse" => Used(blocks[tailBlock].next) = 0

(* try_dequeue, pop and peek report an empty queue only if it was empty    *)
(* when they were called, however the producer then fills the front block  *)
(* or moves on to another one.                                             *)
EmptyIsReal ==
  [][c.pc = "compare" /\ c'.pc = "idle" => c.seen = 0]_vars

(* The queue holds maxSize elements without further allocations: when      *)
(* try_enqueue fails, there were at least that many when it looked.        *)
FullIsReal ==
  [][p.pc = "check" /\ p'.pc = "idle" => p.seen >= MaxSize]_vars

(* What size_approx returns lies between the number of elements at its     *)
(* call and the number at its return; only an element whose enqueue is     *)
(* about to complete may be counted too.                                   *)
SizeIsBetween ==
  [][\A t \in DOMAIN size :
       size[t].pc # "idle" /\ size'[t].pc = "idle" =>
         LET pending == IF p.pc = "advance" THEN 1 ELSE 0 IN
         IF t = "producer" THEN Count <= size[t].sum /\ size[t].sum <= size[t].seen
         ELSE size[t].seen <= size[t].sum /\ size[t].sum <= Count + pending]_vars

(* The destructor reaches every block and every element left in it.        *)
NoLeak == freed # {} => freed = DOMAIN blocks /\ live = {}
=============================================================================
