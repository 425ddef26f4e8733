----------------------------- MODULE WeakQueue -----------------------------
(***************************************************************************)
(* moodycamel::ReaderWriterQueue on the memory of atomicops.h, with every  *)
(* fence where the code has it.  ReaderWriterQueue interleaves the stores  *)
(* of both threads in one order that both see; here a thread may read old  *)
(* values, and only the fences say how old.                                *)
(*                                                                         *)
(* A step goes up to a store that lets the other thread go on.  Nothing is *)
(* lost by taking the loads before it together: what a thread may read     *)
(* early it may also read late, since old messages stay.                   *)
(***************************************************************************)
EXTENDS WeakMemory, SequencesExt

CONSTANTS
  FirstSize,    \* slots of the block that the constructor makes
  EnqOps,       \* what the producer calls: enqueue, try_enqueue
  DeqOps,       \* what the consumer calls: try_dequeue, pop, peek
  SizeCallers,  \* which of the two calls size_approx
  MaxBlocks,    \* bound: how many blocks malloc gives
  MaxItems,     \* bound: how many elements are enqueued
  MaxSizes      \* bound: how many times size_approx is called

ASSUME WeakQueueAssumption ==
  /\ FirstSize \in {2^k : k \in 1..10}
  /\ EnqOps \subseteq {"enqueue", "try_enqueue"}
  /\ DeqOps \subseteq {"try_dequeue", "pop", "peek"}
  /\ SizeCallers \subseteq {"producer", "consumer"}
  /\ MaxBlocks \in Nat \ {0}
  /\ MaxItems \in Nat
  /\ MaxSizes \in Nat

VARIABLES
  mem,      \* the memory that both threads share
  blocks,   \* how many blocks there are; the producer's largestBlockSize
  p,        \* the block that the producer has written to and not yet advanced to
  c,        \* the slot that the consumer is to take after it moved frontBlock
  walk,     \* walk[t]: where thread t is in size_approx
  sizes,    \* how many times size_approx was called, for the bound
  sent,     \* how many elements have been enqueued; the n-th one is n
  got,      \* what try_dequeue or peek returned last
  races,    \* history: what was accessed in a data race
  broken    \* history: the functions whose assert has failed

vars == <<mem, blocks, p, c, walk, sizes, sent, got, races, broken>>

P == "producer"
C == "consumer"

(* The shared places.  A block's header is what its constructor writes and *)
(* nobody changes: data and size, and the first values of its atomics.     *)
Place(b, field, i) == [blk |-> b, field |-> field, idx |-> i]
FrontBlock == Place(0, "frontBlock", 0)
TailBlock == Place(0, "tailBlock", 0)
FrontOf(b) == Place(b, "front", 0)
TailOf(b) == Place(b, "tail", 0)
NextOf(b) == Place(b, "next", 0)
HeaderOf(b) == Place(b, "header", 0)
Slot(b, i) == Place(b, "data", i)

SizeOf(b) == FirstSize * 2^(b - 1)
After(b, i) == (i + 1) % SizeOf(b)

Locations ==
  {FrontBlock, TailBlock}
    \cup UNION {{FrontOf(b), TailOf(b), NextOf(b), HeaderOf(b)} : b \in 1..MaxBlocks}
    \cup UNION {{Slot(b, i) : i \in 0..(SizeOf(b) - 1)} : b \in 1..MaxBlocks}
Initially(l) ==
  CASE l \in {FrontBlock, TailBlock} -> 1
    [] l.field = "next" -> l.blk
    [] OTHER -> 0

Racing(m, t, places) == races' = races \cup {l \in places : Raced(m, t, l)}

-----------------------------------------------------------------------------
(* inner_enqueue.  Only the producer writes tailBlock, tail and next, so   *)
(* that it reads their latest values.                                      *)

MayEnqueue == p = 0 /\ walk[P].at = 0 /\ sent < MaxItems
Tl == Latest(mem, TailBlock)
TlNext == Latest(mem, NextOf(Tl))
TailIdx(b) == Latest(mem, TailOf(b))

(* front of the tail block, and the fence after it.                        *)
LookFront(i) == Fence(Load(mem, P, FrontOf(Tl), i), P, "acquire")
Room(i) == After(Tl, TailIdx(Tl)) # Val(mem, FrontOf(Tl), i)

(* The fence before the store of tail.                                     *)
ReleaseSlotUnfenced(m) == m
ReleaseSlot(m) == Fence(m, P, "release")

EnqueueHere ==
  /\ MayEnqueue
  /\ \E i \in Readable(mem, P, FrontOf(Tl)) :
       LET slot == Slot(Tl, TailIdx(Tl))
           m == ReleaseSlot(Write(LookFront(i), P, slot, sent + 1))
       IN /\ Room(i)
          /\ mem' = Store(m, P, TailOf(Tl), After(Tl, TailIdx(Tl)))
          /\ Racing(LookFront(i), P, {slot})
  /\ sent' = sent + 1
  /\ UNCHANGED <<blocks, p, c, walk, sizes, got, broken>>

(* The block is full: frontBlock, to know whether the next one is free.    *)
LookFrontBlock(i, j) == Load(LookFront(i), P, FrontBlock, j)
NextIsFree(j) == TlNext # Val(mem, FrontBlock, j)

(* The store of the next block's tail has no fence of its own: the one of  *)
(* AdvanceTail comes after it.                                             *)
EnqueueNext ==
  /\ MayEnqueue
  /\ \E i \in Readable(mem, P, FrontOf(Tl)), j \in 1..Newest(mem, FrontBlock) :
       LET m1 == Fence(LookFrontBlock(i, j), P, "acquire")
           slot == Slot(TlNext, TailIdx(TlNext))
       IN /\ ~Room(i)
          /\ j \in Readable(LookFront(i), P, FrontBlock)
          /\ NextIsFree(j)
          /\ \E k \in Readable(m1, P, FrontOf(TlNext)) :
               LET m2 == Fence(Load(m1, P, FrontOf(TlNext), k), P, "acquire")
               IN /\ mem' = Store(Write(m2, P, slot, sent + 1), P, TailOf(TlNext),
                                  After(TlNext, TailIdx(TlNext)))
                  /\ Racing(m2, P, {slot})
                  /\ broken' = IF Val(mem, FrontOf(TlNext), k) = TailIdx(TlNext)
                               THEN broken ELSE broken \cup {"inner_enqueue"}
  /\ p' = TlNext
  /\ UNCHANGED <<blocks, c, walk, sizes, sent, got>>

(* make_block, and the link from the tail block, which has no fence        *)
(* before it.                                                              *)
Linked(m, b) ==
  LET m1 == Write(Write(m, P, HeaderOf(b), 1), P, Slot(b, 0), sent + 1)
      m2 == Store(Store(m1, P, TailOf(b), 1), P, NextOf(b), TlNext)
  IN Store(m2, P, NextOf(Tl), b)

EnqueueNew ==
  /\ MayEnqueue
  /\ "enqueue" \in EnqOps
  /\ blocks < MaxBlocks
  /\ \E i \in Readable(mem, P, FrontOf(Tl)), j \in 1..Newest(mem, FrontBlock) :
       /\ ~Room(i)
       /\ j \in Readable(LookFront(i), P, FrontBlock)
       /\ ~NextIsFree(j)
       /\ mem' = Linked(LookFrontBlock(i, j), blocks + 1)
  /\ blocks' = blocks + 1
  /\ p' = blocks + 1
  /\ UNCHANGED <<c, walk, sizes, sent, got, races, broken>>

(* try_enqueue may not allocate, or enqueue gets no memory.                *)
EnqueueFails ==
  /\ MayEnqueue
  /\ \E i \in Readable(mem, P, FrontOf(Tl)), j \in 1..Newest(mem, FrontBlock) :
       /\ ~Room(i)
       /\ j \in Readable(LookFront(i), P, FrontBlock)
       /\ ~NextIsFree(j)
       /\ mem' = LookFrontBlock(i, j)
  /\ UNCHANGED <<blocks, p, c, walk, sizes, sent, got, races, broken>>

(* The fence before the store of tailBlock, and that store.                *)
ReleaseBlockUnfenced(m) == m
ReleaseBlock(m) == Fence(m, P, "release")

AdvanceTail ==
  /\ p # 0
  /\ mem' = Store(ReleaseBlock(mem), P, TailBlock, p)
  /\ sent' = sent + 1
  /\ p' = 0
  /\ UNCHANGED <<blocks, c, walk, sizes, got, races, broken>>

-----------------------------------------------------------------------------
(* try_dequeue, pop and peek.  Only the consumer writes frontBlock and     *)
(* front.                                                                  *)

MayDequeue == c.blk = 0 /\ walk[C].at = 0
Fr == Latest(mem, FrontBlock)
FrontIdx(b) == Latest(mem, FrontOf(b))

(* tailBlockAtStart and the fence after it, then tail of the front block   *)
(* and the fence after that.                                               *)
RememberTail(i) == Fence(Load(mem, C, TailBlock, i), C, "acquire")
LookTail(i, j) == Fence(Load(RememberTail(i), C, TailOf(Fr), j), C, "acquire")
HasElement(j) == FrontIdx(Fr) # Val(mem, TailOf(Fr), j)

(* Take the element of a slot: try_dequeue and pop destroy it and release  *)
(* the slot with front, peek leaves it.                                    *)
Took(m, op, b, i) ==
  LET slot == Slot(b, i) IN
  /\ got' = IF op = "pop" THEN got ELSE Read(m, C, slot)
  /\ mem' = IF op = "peek" THEN m
            ELSE Store(Fence(Write(m, C, slot, 0), C, "release"), C, FrontOf(b), After(b, i))

DequeueHere(op) ==
  /\ MayDequeue
  /\ \E i \in Readable(mem, C, TailBlock), j \in 1..Newest(mem, TailOf(Fr)) :
       LET m == LookTail(i, j) IN
       /\ j \in Readable(RememberTail(i), C, TailOf(Fr))
       /\ HasElement(j)
       /\ Took(m, op, Fr, FrontIdx(Fr))
       /\ Racing(m, C, {HeaderOf(Fr), Slot(Fr, FrontIdx(Fr))})
  /\ UNCHANGED <<blocks, p, c, walk, sizes, sent, broken>>

(* The front block is empty, and it was the tail block at the start.       *)
DequeueFails ==
  /\ MayDequeue
  /\ \E i \in Readable(mem, C, TailBlock), j \in 1..Newest(mem, TailOf(Fr)) :
       /\ j \in Readable(RememberTail(i), C, TailOf(Fr))
       /\ ~HasElement(j)
       /\ Val(mem, TailBlock, i) = Fr
       /\ mem' = LookTail(i, j)
  /\ UNCHANGED <<blocks, p, c, walk, sizes, sent, got, races, broken>>

(* The fence before the store of frontBlock.                               *)
ReleaseFrontUnfenced(m) == m
ReleaseFront(m) == Fence(m, C, "release")

(* There is a block ahead.  Nothing is fenced between the load of its      *)
(* address and the loads of its front and tail.                            *)
MoveFront(op, m, n) ==
  IF op = "peek" THEN Took(m, op, n, FrontIdx(n)) /\ UNCHANGED c
  ELSE /\ mem' = Store(ReleaseFront(m), C, FrontBlock, n)
       /\ c' = [op |-> op, blk |-> n, slot |-> FrontIdx(n)]
       /\ UNCHANGED got

(* tail of that block and the fence after it; peek loads it in its assert, *)
(* behind the fence.  peek's caller reads the slot, the others do it in    *)
(* TakeNext; nothing is stored in between, so that an access that is free  *)
(* of races here still is behind the fence.                                *)
DequeueNext(op) ==
  /\ MayDequeue
  /\ \E i \in Readable(mem, C, TailBlock), j \in 1..Newest(mem, TailOf(Fr)),
        k \in 1..Newest(mem, NextOf(Fr)) :
       LET m1 == Load(LookTail(i, j), C, NextOf(Fr), k)
           n == Val(mem, NextOf(Fr), k)
           m2 == IF op = "peek" THEN Fence(m1, C, "acquire") ELSE m1
       IN /\ j \in Readable(RememberTail(i), C, TailOf(Fr))
          /\ ~HasElement(j)
          /\ Val(mem, TailBlock, i) # Fr
          /\ k \in Readable(LookTail(i, j), C, NextOf(Fr))
          /\ \E l \in Readable(m2, C, TailOf(n)) :
               LET m3 == Load(m2, C, TailOf(n), l) IN
               /\ MoveFront(op, IF op = "peek" THEN m3 ELSE Fence(m3, C, "acquire"), n)
               /\ broken' = IF FrontIdx(n) # Val(mem, TailOf(n), l)
                            THEN broken ELSE broken \cup {op}
          /\ Racing(m1, C, {HeaderOf(n)}
                              \cup (IF op = "peek" THEN {Slot(n, FrontIdx(n))} ELSE {}))
  /\ UNCHANGED <<blocks, p, walk, sizes, sent>>

(* After the store of frontBlock there is only a fence of the compiler.    *)
TakeNext ==
  /\ c.blk # 0
  /\ LET m == CompilerFence(mem, C, "release") IN
     /\ Took(m, c.op, c.blk, c.slot)
     /\ Racing(m, C, {Slot(c.blk, c.slot)})
  /\ c' = [c EXCEPT !.blk = 0]
  /\ UNCHANGED <<blocks, p, walk, sizes, sent, broken>>

-----------------------------------------------------------------------------
(* size_approx: around the ring, from one block to the next.               *)
SizeBegin(t) ==
  /\ t \in SizeCallers
  /\ sizes < MaxSizes
  /\ sizes' = sizes + 1
  /\ walk[t].at = 0
  /\ IF t = P THEN p = 0 ELSE c.blk = 0
  /\ \E i \in Readable(mem, t, FrontBlock) :
       /\ mem' = Load(mem, t, FrontBlock, i)
       /\ walk' = [walk EXCEPT ![t] = [first |-> Val(mem, FrontBlock, i),
                                       at |-> Val(mem, FrontBlock, i)]]
  /\ UNCHANGED <<blocks, p, c, sent, got, races, broken>>

SizeBlock(t) ==
  /\ walk[t].at # 0
  /\ LET b == walk[t].at
         m == Fence(mem, t, "acquire")
     IN /\ Racing(m, t, {HeaderOf(b)})
        /\ \E i \in Readable(m, t, FrontOf(b)), j \in Readable(m, t, TailOf(b)),
              k \in Readable(m, t, NextOf(b)) :
             LET n == Val(m, NextOf(b), k) IN
             /\ mem' = Load(Load(Load(m, t, FrontOf(b), i), t, TailOf(b), j), t, NextOf(b), k)
             /\ walk' = [walk EXCEPT ![t].at = IF n = walk[t].first THEN 0 ELSE n]
  /\ UNCHANGED <<blocks, p, c, sizes, sent, got, broken>>

-----------------------------------------------------------------------------
(* The constructor ends with a full fence, so that both threads start from *)
(* what it wrote.                                                          *)
Init ==
  /\ mem = NewMemory([l \in Locations |-> Initially(l)], {P, C})
  /\ blocks = 1
  /\ p = 0
  /\ c = [op |-> "none", blk |-> 0, slot |-> 0]
  /\ walk = [t \in {P, C} |-> [first |-> 0, at |-> 0]]
  /\ sizes = 0
  /\ sent = 0
  /\ got = 0
  /\ races = {}
  /\ broken = {}

Producer == EnqueueHere \/ EnqueueNext \/ EnqueueNew \/ EnqueueFails \/ AdvanceTail
Consumer ==
  \/ \E op \in DeqOps : DequeueHere(op) \/ DequeueNext(op)
  \/ DequeueFails
  \/ TakeNext

Next == Producer \/ Consumer \/ \E t \in {P, C} : SizeBegin(t) \/ SizeBlock(t)

Spec == Init /\ [][Next]_vars

-----------------------------------------------------------------------------
(* No element and no block is accessed by one thread while another         *)
(* thread's write of it may still be on its way: the fences alone order    *)
(* construction, publication, destruction and reuse of every slot.         *)
NoDataRace == races = {}

(* The asserts of inner_enqueue, try_dequeue, pop and peek hold of the     *)
(* values that were loaded, however old the machine lets them be.          *)
AssertsHold == broken = {}

Ring[k \in Nat] == IF k = 0 THEN Fr ELSE Latest(mem, NextOf(Ring[k - 1]))
TailPos == CHOOSE k \in 0..(blocks - 1) : /\ Ring[k] = Tl
                                          /\ \A j \in 0..(k - 1) : Ring[j] # Tl
Items(b) ==
  [i \in 1..((TailIdx(b) - FrontIdx(b)) % SizeOf(b)) |->
     Latest(mem, Slot(b, (FrontIdx(b) + i - 1) % SizeOf(b)))]
Contents == FlattenSeq([k \in 1..(TailPos + 1) |-> Items(Ring[k - 1])])

(* The queue is still one FIFO queue on a weakly ordered machine: elements *)
(* arrive complete, in order and once.  That it reports empty or full may  *)
(* be old news there.                                                      *)
Fifo == INSTANCE FifoQueue WITH q <- Contents, gone <- FALSE
ImplementsFifo == Fifo!Spec
=============================================================================
