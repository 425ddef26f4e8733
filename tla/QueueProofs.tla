---------------------------- MODULE QueueProofs ----------------------------
(***************************************************************************)
(* Proofs about ReaderWriterQueue, for every capacity and any number of    *)
(* blocks and elements: the ring of blocks keeps its order while the       *)
(* producer fills, reuses, allocates and links blocks and the consumer     *)
(* leaves them behind, and the two never meet in a slot.                   *)
(***************************************************************************)
EXTENDS ReaderWriterQueue, SequenceTheorems, WellFoundedInduction, TLAPS

-----------------------------------------------------------------------------
(* The inductive invariant.                                                *)

N == Len(blocks)
BlockRec == [front : Nat, tail : Nat, next : Nat, size : Nat, data : Seq(Nat)]

(* The locals of the two threads.  What seen holds matters to no step; it  *)
(* is typed where it is reasoned about.                                    *)
PType == [pc : {"idle", "check", "reuse", "alloc", "link", "construct", "publish", "advance"},
          op : {"none"} \cup EnqOps, blk : 0..N, slot : Nat, seen : {p.seen}]
CType == [pc : {"idle", "load", "compare", "next", "move", "take", "release"},
          op : {"none"} \cup DeqOps, tail : 0..N, blk : 0..N, slot : Nat,
          val : {c.val}, seen : {c.seen}]

(* TypeOK, with the types of the two threads' locals.                      *)
Shape ==
  /\ N \in 1..MaxBlocks
  /\ blocks \in [1..N -> BlockRec]
  /\ \A b \in 1..N : /\ blocks[b].size >= 2
                     /\ blocks[b].front \in 0..(blocks[b].size - 1)
                     /\ blocks[b].tail \in 0..(blocks[b].size - 1)
                     /\ b > 1 => blocks[b].size = 2 * blocks[b - 1].size
                     /\ Len(blocks[b].data) = blocks[b].size
  /\ largest = blocks[N].size
  /\ frontBlock \in 1..N /\ tailBlock \in 1..N
  /\ sent \in Nat
  /\ p \in PType /\ c \in CType
  /\ freed # {} => p.pc = "idle" /\ c.pc = "idle"

(* The index behind i, without a remainder.                                *)
Succ(b, i) == IF i + 1 = blocks[b].size THEN 0 ELSE i + 1
Empty(b) == blocks[b].front = blocks[b].tail
Room(b) == Succ(b, blocks[b].tail) # blocks[b].front

(* The blocks that are linked: all but one that was just allocated.        *)
Linked == IF p.pc = "link" THEN N - 1 ELSE N

(* pos counts the blocks of the ring from the front block on.              *)
Ordered(pos) ==
  /\ pos \in [1..Linked -> 0..(Linked - 1)]
  /\ frontBlock \in 1..Linked /\ tailBlock \in 1..Linked
  /\ pos[frontBlock] = 0
  /\ \A a, b \in 1..Linked : pos[a] = pos[b] => a = b
  /\ \A k \in 0..(Linked - 1) : \E b \in 1..Linked : pos[b] = k
  /\ \A b \in 1..Linked :
       /\ blocks[b].next \in 1..Linked
       /\ pos[blocks[b].next] = IF pos[b] = Linked - 1 THEN 0 ELSE pos[b] + 1

(* Elements are in the front block and in the blocks up to the tail block; *)
(* a block that the producer is about to advance to has one already.       *)
Filled(pos) ==
  \A b \in 1..Linked :
    /\ 0 < pos[b] /\ pos[b] <= pos[tailBlock] => ~Empty(b)
    /\ pos[b] > pos[tailBlock] => Empty(b) \/ (p.pc = "advance" /\ b = p.blk)

(* The producer works in the tail block or in the one behind it.           *)
ProducerAt(pos) ==
  /\ p.pc \in {"construct", "publish"} =>
       /\ p.blk \in 1..Linked
       /\ p.slot = blocks[p.blk].tail
       /\ Room(p.blk)
       /\ p.blk = tailBlock \/ pos[p.blk] = pos[tailBlock] + 1
  /\ p.pc = "reuse" => pos[tailBlock] < Linked - 1
  /\ p.pc = "advance" =>
       /\ p.blk \in 1..Linked
       /\ pos[p.blk] = pos[tailBlock] + 1
       /\ ~Empty(p.blk)
  /\ p.pc = "link" =>
       /\ p.blk = N
       /\ blocks[N].next = blocks[tailBlock].next
       /\ ~Empty(N)

(* The consumer leaves the front block only when the tail block is ahead   *)
(* of it, so that nothing can be added to it any more.                     *)
ConsumerAt ==
  /\ c.pc \in {"load", "compare"} /\ c.tail # frontBlock => tailBlock # frontBlock
  /\ c.pc \in {"compare", "next"} => c.blk = frontBlock
  /\ c.pc = "compare" /\ c.tail # frontBlock => Empty(frontBlock)
  /\ c.pc \in {"next", "move"} => tailBlock # frontBlock /\ Empty(frontBlock)
  /\ c.pc = "move" => c.blk = blocks[frontBlock].next /\ c.op # "peek"
  /\ c.pc \in {"move", "take", "release"} =>
       c.blk \in 1..N /\ c.slot = blocks[c.blk].front /\ ~Empty(c.blk)
  /\ c.pc = "release" => c.blk = frontBlock
  /\ c.pc = "take" /\ c.op # "peek" => c.blk = frontBlock

(* Index i of block b is between the front and the tail.                   *)
InUse(b, i) ==
  IF blocks[b].front <= blocks[b].tail
  THEN blocks[b].front <= i /\ i < blocks[b].tail
  ELSE blocks[b].front <= i \/ i < blocks[b].tail

(* An element lives where front and tail say, but for the one that the     *)
(* consumer has just destroyed and the one that the producer has just      *)
(* constructed.                                                            *)
LiveInv ==
  freed = {} =>
    /\ \A s \in live : \E b \in 1..N : \E i \in 0..(blocks[b].size - 1) : s = <<b, i>>
    /\ \A b \in 1..N : \A i \in 0..(blocks[b].size - 1) :
         <<b, i>> \in live <=>
           \/ InUse(b, i) /\ ~(c.pc = "release" /\ b = c.blk /\ i = c.slot)
           \/ p.pc = "publish" /\ b = p.blk /\ i = p.slot

RingAt(pos) == Ordered(pos) /\ Filled(pos) /\ ProducerAt(pos)
IInv ==
  /\ Shape
  /\ ConsumerAt
  /\ LiveInv
  /\ \E pos \in [1..Linked -> 0..(Linked - 1)] : RingAt(pos)

-----------------------------------------------------------------------------
(* Remainders.                                                             *)

LEMMA DivMod ==
  ASSUME NEW d \in Nat \ {0}, NEW a \in Int
  PROVE  a \div d \in Int /\ a % d \in 0..(d - 1) /\ a = d * (a \div d) + (a % d)
  OBVIOUS

LEMMA TimesMonotone ==
  ASSUME NEW d \in Nat, NEW a \in Int, NEW b \in Int, a <= b
  PROVE  d * a <= d * b /\ d * a \in Int /\ d * b \in Int
  OBVIOUS

(* There is only one remainder.                                            *)
LEMMA ModUnique ==
  ASSUME NEW d \in Nat \ {0}, NEW q \in Int, NEW r \in 0..(d - 1)
  PROVE  (d * q + r) % d = r
<1> DEFINE a == d * q + r
           x == a \div d
           y == a % d
<1>0. a \in Int /\ d * q \in Int /\ a = d * q + r
  OBVIOUS
<1> HIDE DEF a
<1>1. x \in Int /\ y \in 0..(d - 1) /\ a = d * x + y
  BY <1>0, DivMod
<1> HIDE DEF x, y
<1>2. CASE x >= q + 1
  <2>1. d * (q + 1) <= d * x /\ d * x \in Int /\ d * (q + 1) = d * q + d
    BY <1>1, <1>2, TimesMonotone
  <2> QED
    BY <1>0, <1>1, <2>1
<1>3. CASE q >= x + 1
  <2>1. d * (x + 1) <= d * q /\ d * x \in Int /\ d * (x + 1) = d * x + d
    BY <1>1, <1>3, TimesMonotone
  <2> QED
    BY <1>0, <1>1, <2>1
<1>4. CASE x = q
  <2>1. y = r
    BY <1>0, <1>1, <1>4
  <2> QED
    BY <2>1 DEF y, a
<1> QED
  BY <1>1, <1>2, <1>3, <1>4

(* A number of the first two turns has the remainder one expects, and so   *)
(* has one of the turn before.                                             *)
LEMMA ModTurns ==
  ASSUME NEW d \in Nat \ {0}, NEW r \in 0..(d - 1)
  PROVE  r % d = r /\ (r + d) % d = r /\ (r - d) % d = r
<1>1. (d * 0 + r) % d = r /\ (d * 1 + r) % d = r /\ (d * (-1) + r) % d = r
  BY ModUnique
<1>2. d * 0 + r = r /\ d * 1 + r = r + d /\ d * (-1) + r = r - d
  OBVIOUS
<1> QED
  BY <1>1, <1>2

-----------------------------------------------------------------------------
(* Rings: pos counts the L blocks from f on, nxt is the link.              *)

IsRing(pos, L, f, nxt) ==
  /\ pos \in [1..L -> 0..(L - 1)]
  /\ f \in 1..L
  /\ pos[f] = 0
  /\ \A a, b \in 1..L : pos[a] = pos[b] => a = b
  /\ \A k \in 0..(L - 1) : \E b \in 1..L : pos[b] = k
  /\ \A b \in 1..L : /\ nxt[b] \in 1..L
                      /\ pos[nxt[b]] = IF pos[b] = L - 1 THEN 0 ELSE pos[b] + 1

(* Counting may start at the next block.                                   *)
LEMMA RingRotates ==
  ASSUME NEW L \in Nat, L >= 2, NEW pos, NEW f, NEW nxt, IsRing(pos, L, f, nxt)
  PROVE  \E new \in [1..L -> 0..(L - 1)] :
           /\ \A b \in 1..L : new[b] = IF pos[b] = 0 THEN L - 1 ELSE pos[b] - 1
           /\ IsRing(new, L, nxt[f], nxt)
<1> DEFINE new == [b \in 1..L |-> IF pos[b] = 0 THEN L - 1 ELSE pos[b] - 1]
<1>1. /\ \A b \in 1..L : pos[b] \in 0..(L - 1)
      /\ f \in 1..L /\ pos[f] = 0
  BY DEF IsRing
<1>2. new \in [1..L -> 0..(L - 1)]
  BY <1>1
<1>3. \A b \in 1..L : new[b] = IF pos[b] = 0 THEN L - 1 ELSE pos[b] - 1
  OBVIOUS
<1> HIDE DEF new
<1>4. \A a, b \in 1..L : pos[a] = pos[b] => a = b
  BY DEF IsRing
<1>5. \A k \in 0..(L - 1) : \E b \in 1..L : pos[b] = k
  BY DEF IsRing
<1>6. \A b \in 1..L : /\ nxt[b] \in 1..L
                      /\ pos[nxt[b]] = IF pos[b] = L - 1 THEN 0 ELSE pos[b] + 1
  BY DEF IsRing
<1>7. nxt[f] \in 1..L /\ new[nxt[f]] = 0
  <2>1. nxt[f] \in 1..L /\ pos[nxt[f]] = 1
    BY <1>1, <1>6
  <2> QED
    BY <1>3, <2>1
<1>8. ASSUME NEW a \in 1..L, NEW b \in 1..L, new[a] = new[b] PROVE a = b
  <2>1. pos[a] \in 0..(L - 1) /\ pos[b] \in 0..(L - 1)
    BY <1>1
  <2>2. (IF pos[a] = 0 THEN L - 1 ELSE pos[a] - 1) = (IF pos[b] = 0 THEN L - 1 ELSE pos[b] - 1)
    BY <1>3, <1>8
  <2>3. pos[a] = pos[b]
    BY <2>1, <2>2
  <2> QED
    BY <1>4, <2>3
<1>9. ASSUME NEW k \in 0..(L - 1) PROVE \E b \in 1..L : new[b] = k
  <2>1. CASE k = L - 1
    BY <1>1, <1>3, <2>1
  <2>2. CASE k # L - 1
    <3>1. PICK b \in 1..L : pos[b] = k + 1
      BY <1>5, <2>2
    <3> QED
      BY <1>3, <3>1
  <2> QED
    BY <2>1, <2>2
<1>10. ASSUME NEW b \in 1..L
       PROVE  nxt[b] \in 1..L /\ new[nxt[b]] = IF new[b] = L - 1 THEN 0 ELSE new[b] + 1
  <2>1. /\ nxt[b] \in 1..L /\ pos[b] \in 0..(L - 1)
        /\ pos[nxt[b]] = IF pos[b] = L - 1 THEN 0 ELSE pos[b] + 1
    BY <1>1, <1>6
  <2>2. /\ new[b] = IF pos[b] = 0 THEN L - 1 ELSE pos[b] - 1
        /\ new[nxt[b]] = IF pos[nxt[b]] = 0 THEN L - 1 ELSE pos[nxt[b]] - 1
    BY <1>3, <2>1
  <2> QED
    BY <2>1, <2>2
<1>11. IsRing(new, L, nxt[f], nxt)
  BY <1>2, <1>7, <1>8, <1>9, <1>10 DEF IsRing
<1> QED
  BY <1>2, <1>3, <1>11

(* A further block is linked behind block t.                               *)
Inserts(new_nxt, nxt, L, t) ==
  /\ \A b \in 1..L : b # t => new_nxt[b] = nxt[b]
  /\ new_nxt[t] = L + 1
  /\ new_nxt[L + 1] = nxt[t]

Shifts(new, pos, L, t) ==
  /\ new \in [1..(L + 1) -> 0..L]
  /\ \A b \in 1..L : new[b] = IF pos[b] <= pos[t] THEN pos[b] ELSE pos[b] + 1
  /\ new[L + 1] = pos[t] + 1

LEMMA RingGrows ==
  ASSUME NEW L \in Nat, L >= 1, NEW pos, NEW f, NEW nxt, IsRing(pos, L, f, nxt),
         NEW t \in 1..L, NEW new_nxt, Inserts(new_nxt, nxt, L, t)
  PROVE  \E new : Shifts(new, pos, L, t) /\ IsRing(new, L + 1, f, new_nxt)
<1> DEFINE M == L + 1
           new == [b \in 1..M |-> IF b = M THEN pos[t] + 1
                                  ELSE IF pos[b] <= pos[t] THEN pos[b] ELSE pos[b] + 1]
<1>1. /\ \A b \in 1..L : pos[b] \in 0..(L - 1)
      /\ f \in 1..L /\ pos[f] = 0
  BY DEF IsRing
<1>2. new \in [1..M -> 0..L]
  BY <1>1
<1>3. /\ \A b \in 1..L : new[b] = IF pos[b] <= pos[t] THEN pos[b] ELSE pos[b] + 1
      /\ new[M] = pos[t] + 1
  OBVIOUS
<1>4. M \in Nat /\ M = L + 1 /\ \A b \in 1..M : b \in 1..L \/ b = M
  OBVIOUS
<1> HIDE DEF new, M
<1>5. \A a, b \in 1..L : pos[a] = pos[b] => a = b
  BY DEF IsRing
<1>6. \A k \in 0..(L - 1) : \E b \in 1..L : pos[b] = k
  BY DEF IsRing
<1>7. \A b \in 1..L : /\ nxt[b] \in 1..L
                      /\ pos[nxt[b]] = IF pos[b] = L - 1 THEN 0 ELSE pos[b] + 1
  BY DEF IsRing
<1>8. f \in 1..M /\ new[f] = 0
  <2>1. pos[t] \in 0..(L - 1)
    BY <1>1
  <2> QED
    BY <1>1, <1>3, <1>4, <2>1
<1>9. ASSUME NEW a \in 1..M, NEW b \in 1..M, new[a] = new[b] PROVE a = b
  <2>1. pos[t] \in 0..(L - 1)
    BY <1>1
  <2>2. CASE a \in 1..L /\ b \in 1..L
    <3>1. pos[a] \in 0..(L - 1) /\ pos[b] \in 0..(L - 1)
      BY <1>1, <2>2
    <3>2. (IF pos[a] <= pos[t] THEN pos[a] ELSE pos[a] + 1)
             = (IF pos[b] <= pos[t] THEN pos[b] ELSE pos[b] + 1)
      BY <1>3, <1>9, <2>2
    <3>3. pos[a] = pos[b]
      BY <2>1, <3>1, <3>2
    <3> QED
      BY <1>5, <2>2, <3>3
  <2>3. ASSUME NEW d \in 1..L PROVE new[d] # new[M]
    <3>1. pos[d] \in 0..(L - 1)
      BY <1>1
    <3>2. new[d] = IF pos[d] <= pos[t] THEN pos[d] ELSE pos[d] + 1
      BY <1>3
    <3> QED
      BY <1>3, <2>1, <3>1, <3>2
  <2> QED
    BY <1>4, <1>9, <2>2, <2>3
<1>10. ASSUME NEW k \in 0..(M - 1) PROVE \E b \in 1..M : new[b] = k
  <2>1. pos[t] \in 0..(L - 1) /\ k \in 0..L
    BY <1>1, <1>4
  <2>2. CASE k = pos[t] + 1
    BY <1>3, <1>4, <2>2
  <2>3. CASE k <= pos[t]
    <3>1. PICK b \in 1..L : pos[b] = k
      BY <1>6, <2>1, <2>3
    <3> QED
      BY <1>3, <1>4, <2>3, <3>1
  <2>4. CASE k > pos[t] + 1
    <3>1. PICK b \in 1..L : pos[b] = k - 1
      BY <1>6, <2>1, <2>4
    <3>2. new[b] = k
      BY <1>3, <2>1, <2>4, <3>1
    <3> QED
      BY <1>4, <3>2
  <2> QED
    BY <2>1, <2>2, <2>3, <2>4
<1>11. ASSUME NEW b \in 1..M
       PROVE  /\ new_nxt[b] \in 1..M
              /\ new[new_nxt[b]] = IF new[b] = M - 1 THEN 0 ELSE new[b] + 1
  <2>1. pos[t] \in 0..(L - 1) /\ nxt[t] \in 1..L /\ pos[nxt[t]] \in 0..(L - 1)
    BY <1>1, <1>7
  <2>2. CASE b = M
    <3>1. new_nxt[b] = nxt[t] /\ new[b] = pos[t] + 1 /\ nxt[t] \in 1..M
      BY <1>3, <1>4, <2>1, <2>2 DEF Inserts, M
    <3>2. /\ pos[nxt[t]] = IF pos[t] = L - 1 THEN 0 ELSE pos[t] + 1
          /\ new[nxt[t]] = IF pos[nxt[t]] <= pos[t] THEN pos[nxt[t]] ELSE pos[nxt[t]] + 1
      BY <1>3, <1>7, <2>1
    <3> QED
      BY <1>4, <2>1, <3>1, <3>2
  <2>3. CASE b = t
    BY <1>3, <1>4, <2>1, <2>3 DEF Inserts
  <2>4. CASE b # M /\ b # t
    <3>1. b \in 1..L /\ new_nxt[b] = nxt[b] /\ pos[b] \in 0..(L - 1) /\ pos[b] # pos[t]
      BY <1>1, <1>4, <1>5, <2>4 DEF Inserts
    <3>2. /\ nxt[b] \in 1..L /\ pos[nxt[b]] = IF pos[b] = L - 1 THEN 0 ELSE pos[b] + 1
      BY <1>7, <3>1
    <3>3. /\ new[nxt[b]] = IF pos[nxt[b]] <= pos[t] THEN pos[nxt[b]] ELSE pos[nxt[b]] + 1
          /\ new[b] = IF pos[b] <= pos[t] THEN pos[b] ELSE pos[b] + 1
          /\ nxt[b] \in 1..M
      BY <1>3, <1>4, <3>1, <3>2
    <3> QED
      BY <1>4, <2>1, <3>1, <3>2, <3>3
  <2> QED
    BY <2>2, <2>3, <2>4
<1>12. IsRing(new, M, f, new_nxt)
  <2>1. new \in [1..M -> 0..(M - 1)]
    BY <1>2, <1>4
  <2> QED
    BY <1>8, <1>9, <1>10, <1>11, <2>1 DEF IsRing
<1>13. Shifts(new, pos, L, t)
  BY <1>2, <1>3 DEF Shifts, M
<1> QED
  BY <1>12, <1>13 DEF M

-----------------------------------------------------------------------------
(* The circular buffer of a block.                                         *)

(* Masking with sizeMask is what Succ says.                                *)
LEMMA AfterIsSucc ==
  ASSUME NEW b, blocks[b].size \in Nat \ {0}, NEW i \in 0..(blocks[b].size - 1)
  PROVE  After(b, i) = Succ(b, i)
<1> DEFINE d == blocks[b].size
<1> HIDE DEF d
<1>1. d \in Nat \ {0} /\ i \in 0..(d - 1)
  BY DEF d
<1>2. CASE i + 1 = d
  <2>1. 0 \in 0..(d - 1) /\ 0 + d = i + 1
    BY <1>1, <1>2
  <2>2. (0 + d) % d = 0
    BY <1>1, <2>1, ModTurns
  <2>3. (i + 1) % d = 0
    BY <2>1, <2>2
  <2> QED
    BY <1>2, <2>3 DEF After, Succ, d
<1>3. CASE i + 1 # d
  <2>1. i + 1 \in 0..(d - 1)
    BY <1>1, <1>3
  <2>2. (i + 1) % d = i + 1
    BY <1>1, <2>1, ModTurns
  <2> QED
    BY <1>3, <2>2 DEF After, Succ, d
<1> QED
  BY <1>2, <1>3

(* How many elements a block holds.                                        *)
LEMMA UsedIs ==
  ASSUME NEW b, blocks[b].size \in Nat \ {0},
         blocks[b].front \in 0..(blocks[b].size - 1), blocks[b].tail \in 0..(blocks[b].size - 1)
  PROVE  Used(b) = IF blocks[b].front <= blocks[b].tail THEN blocks[b].tail - blocks[b].front
                   ELSE blocks[b].tail - blocks[b].front + blocks[b].size
<1> DEFINE d == blocks[b].size
           f == blocks[b].front
           t == blocks[b].tail
<1> HIDE DEF d, f, t
<1>1. d \in Nat \ {0} /\ f \in 0..(d - 1) /\ t \in 0..(d - 1)
  BY DEF d, f, t
<1>2. CASE f <= t
  <2>1. t - f \in 0..(d - 1)
    BY <1>1, <1>2
  <2>2. (t - f) % d = t - f
    BY <1>1, <2>1, ModTurns
  <2> QED
    BY <1>2, <2>2 DEF Used, d, f, t
<1>3. CASE ~(f <= t)
  <2>1. t - f + d \in 0..(d - 1) /\ (t - f + d) - d = t - f
    BY <1>1, <1>3
  <2>2. ((t - f + d) - d) % d = t - f + d
    BY <1>1, <2>1, ModTurns
  <2>3. (t - f) % d = t - f + d
    BY <2>1, <2>2
  <2> QED
    BY <1>3, <2>3 DEF Used, d, f, t
<1> QED
  BY <1>2, <1>3

-----------------------------------------------------------------------------
(* At first the ring is one empty block.                                   *)

LEMMA CapacityRange ==
  /\ CeilToPow2(MaxSize + 1) \in Nat /\ CeilToPow2(MaxSize + 1) >= 2
  /\ CeilToPow2(MaxSize + 1) > MaxSize
<1> DEFINE x == MaxSize + 1
           S == {2^k : k \in 0..x}
           P(n) == x <= n /\ n < 2 * x
<1>1. S \subseteq Nat /\ \E n \in S : P(n)
  BY PowerAssumption
<1>2. CeilToPow2(x) \in S /\ P(CeilToPow2(x))
  <2> HIDE DEF S
  <2>1. (CHOOSE n \in S : P(n)) \in S /\ P(CHOOSE n \in S : P(n))
    BY <1>1, Zenon
  <2>2. CeilToPow2(x) = CHOOSE n \in S : P(n)
    BY Zenon DEF CeilToPow2, S
  <2> QED
    BY <2>1, <2>2
<1> QED
  BY <1>1, <1>2, QueueAssumption

LEMMA InitInv == Init => IInv
<1> SUFFICES ASSUME Init PROVE IInv
  OBVIOUS
<1>1. largest \in Nat /\ largest >= 2
  BY CapacityRange DEF Init, FirstSize
<1>2. /\ N = 1 /\ blocks \in [1..N -> BlockRec] /\ blocks[1].size = largest
      /\ blocks[1].front = 0 /\ blocks[1].tail = 0 /\ blocks[1].next = 1
      /\ Len(blocks[1].data) = largest
  <2> DEFINE B == Block(largest, 0, 1, 0)
  <2>1. blocks = <<B>>
    BY DEF Init
  <2>2. B.data \in Seq(Nat) /\ Len(B.data) = largest
    <3>1. B.data = [i \in 1..largest |-> 0]
      BY DEF Block
    <3> HIDE DEF B
    <3> QED
      BY <1>1, <3>1
  <2>3. B \in BlockRec /\ B.size = largest /\ B.front = 0 /\ B.tail = 0 /\ B.next = 1
    BY <1>1, <2>2 DEF Block, BlockRec
  <2> HIDE DEF B
  <2> QED
    BY <2>1, <2>2, <2>3 DEF N
<1>3. /\ p.pc = "idle" /\ c.pc = "idle" /\ freed = {} /\ live = {}
      /\ frontBlock = 1 /\ tailBlock = 1 /\ Linked = 1
  BY <1>2 DEF Init, NotIn, NotOut, Out, Linked
<1>4. Shape
  <2>1. p \in PType
    BY <1>2 DEF Init, NotIn, PType
  <2>2. c \in CType
    BY <1>2 DEF Init, NotOut, Out, CType
  <2>3. N \in 1..MaxBlocks /\ sent \in Nat /\ frontBlock \in 1..N /\ tailBlock \in 1..N
    BY <1>2, <1>3, QueueAssumption DEF Init
  <2>4. \A b \in 1..N : b = 1
    BY <1>2
  <2> QED
    BY <1>1, <1>2, <1>3, <2>1, <2>2, <2>3, <2>4 DEF Shape
<1>5. ConsumerAt
  BY <1>3 DEF ConsumerAt
<1>6. LiveInv
  BY <1>2, <1>3 DEF LiveInv, InUse
<1>7. \E pos \in [1..Linked -> 0..(Linked - 1)] : RingAt(pos)
  <2> DEFINE pos == [b \in 1..1 |-> 0]
  <2>1. pos \in [1..Linked -> 0..(Linked - 1)] /\ pos[1] = 0
    BY <1>3
  <2> HIDE DEF pos
  <2>2. Ordered(pos)
    BY <1>2, <1>3, <2>1 DEF Ordered
  <2>3. Filled(pos) /\ ProducerAt(pos)
    BY <1>3, <2>1 DEF Filled, ProducerAt
  <2> QED
    BY <2>1, <2>2, <2>3 DEF RingAt
<1> QED
  BY <1>4, <1>5, <1>6, <1>7 DEF IInv

-----------------------------------------------------------------------------
(* What the invariant says of one block.                                   *)

LEMMA BlockFacts ==
  ASSUME Shape, NEW b \in 1..N
  PROVE  /\ b \in Nat /\ b > 0 /\ N \in Nat
         /\ blocks[b] \in BlockRec
         /\ blocks[b].size \in Nat \ {0} /\ blocks[b].size >= 2
         /\ blocks[b].front \in Nat /\ blocks[b].front \in 0..(blocks[b].size - 1)
         /\ blocks[b].tail \in Nat /\ blocks[b].tail \in 0..(blocks[b].size - 1)
         /\ blocks[b].next \in Nat
         /\ blocks[b].data \in Seq(Nat) /\ Len(blocks[b].data) = blocks[b].size
<1>1. N \in Nat /\ blocks[b] \in BlockRec
  BY DEF Shape
<1>2. /\ blocks[b].size \in Nat /\ blocks[b].front \in Nat /\ blocks[b].tail \in Nat
      /\ blocks[b].next \in Nat /\ blocks[b].data \in Seq(Nat)
  BY <1>1 DEF BlockRec
<1>3. /\ blocks[b].size >= 2 /\ blocks[b].front \in 0..(blocks[b].size - 1)
      /\ blocks[b].tail \in 0..(blocks[b].size - 1)
      /\ Len(blocks[b].data) = blocks[b].size
  BY DEF Shape
<1> QED
  BY <1>1, <1>2, <1>3

LEMMA LocalFacts ==
  ASSUME IInv
  PROVE  /\ Shape /\ p \in PType /\ c \in CType
         /\ (p.pc # "idle" => freed = {}) /\ (c.pc # "idle" => freed = {})
         /\ frontBlock \in 1..N /\ tailBlock \in 1..N /\ N \in Nat /\ sent \in Nat
  BY DEF IInv, Shape

(* The linked blocks are some or all blocks.                               *)
LEMMA LinkedFacts ==
  ASSUME Shape, NEW pos, Ordered(pos)
  PROVE  /\ N \in Nat /\ N >= 1 /\ Linked \in 1..N /\ (p.pc # "link" => Linked = N)
         /\ frontBlock \in 1..Linked /\ tailBlock \in 1..Linked
         /\ pos[frontBlock] = 0
         /\ \A b \in 1..Linked : /\ b \in 1..N
                                /\ pos[b] \in Int /\ 0 <= pos[b] /\ pos[b] <= Linked - 1
                                /\ blocks[b].next \in 1..Linked
<1>1. N \in Nat /\ N >= 1 /\ Linked \in Int /\ Linked <= N /\ (p.pc # "link" => Linked = N)
  BY DEF Shape, Linked
<1>2. frontBlock \in 1..Linked /\ tailBlock \in 1..Linked /\ pos[frontBlock] = 0
  BY DEF Ordered
<1>3. \A b \in 1..Linked : pos[b] \in 0..(Linked - 1) /\ blocks[b].next \in 1..Linked
  BY DEF Ordered
<1> QED
  BY <1>1, <1>2, <1>3

(* The linked blocks are a ring.                                           *)
NextOf == [b \in 1..Linked |-> blocks[b].next]

LEMMA OrderedIsRing ==
  ASSUME NEW pos
  PROVE  Ordered(pos) <=> IsRing(pos, Linked, frontBlock, NextOf) /\ tailBlock \in 1..Linked
<1>1. \A b \in 1..Linked : NextOf[b] = blocks[b].next
  BY DEF NextOf
<1> QED
  BY <1>1 DEF Ordered, IsRing

-----------------------------------------------------------------------------
(* The steps that change no block.                                         *)

(* What the invariant is about is all in these variables.                  *)
LEMMA SameQueue ==
  IInv /\ UNCHANGED <<blocks, live, frontBlock, tailBlock, largest, p, c, sent, freed>> => IInv'
<1> SUFFICES ASSUME IInv, UNCHANGED <<blocks, live, frontBlock, tailBlock, largest, p, c, sent,
                                      freed>>
             PROVE  IInv'
  OBVIOUS
<1>1. N' = N /\ Linked' = Linked
  BY DEF N, Linked
<1>2. Shape'
  BY DEF IInv, Shape, N, BlockRec, PType, CType
<1>3. ConsumerAt'
  BY DEF IInv, ConsumerAt, N, Empty
<1>4. LiveInv'
  BY DEF IInv, LiveInv, N, InUse
<1>5. PICK pos \in [1..Linked -> 0..(Linked - 1)] : RingAt(pos)
  BY DEF IInv
<1>6. RingAt(pos)'
  BY <1>1, <1>5 DEF RingAt, Ordered, Filled, ProducerAt, Empty, Room, Succ, N
<1> QED
  BY <1>1, <1>2, <1>3, <1>4, <1>6 DEF IInv

(* A step of the producer that changes only its locals.                    *)
LEMMA ProducerMoves ==
  ASSUME IInv,
         UNCHANGED <<blocks, live, frontBlock, tailBlock, largest, c, sent, freed>>,
         freed = {}, (p \in PType)', p.pc # "link", p'.pc # "link",
         p.pc # "publish", p'.pc # "publish", 
         p'.pc # "advance", p.pc # "advance",
         \A pos : RingAt(pos) => ProducerAt(pos)'
  PROVE  IInv'
<1>1. N' = N /\ Linked' = Linked
  BY DEF N, Linked
<1>2. Shape'
  BY DEF IInv, Shape, N, BlockRec, PType, CType
<1>3. ConsumerAt'
  BY DEF IInv, ConsumerAt, N, Empty
<1>4. LiveInv'
  BY DEF IInv, LiveInv, N, InUse
<1>5. PICK pos \in [1..Linked -> 0..(Linked - 1)] : RingAt(pos)
  BY DEF IInv
<1>6. Ordered(pos)' /\ Filled(pos)'
  BY <1>1, <1>5 DEF RingAt, Ordered, Filled, Empty
<1>7. ProducerAt(pos)'
  BY <1>5
<1> QED
  BY <1>1, <1>2, <1>3, <1>4, <1>5, <1>6, <1>7 DEF IInv, RingAt

LEMMA ConsumerMoves ==
  ASSUME IInv,
         UNCHANGED <<blocks, live, frontBlock, tailBlock, largest, p, sent, freed>>,
         freed = {}, (c \in CType)', c.pc # "release", c'.pc # "release", ConsumerAt'
  PROVE  IInv'
<1>1. N' = N /\ Linked' = Linked
  BY DEF N, Linked
<1>2. Shape'
  BY DEF IInv, Shape, N, BlockRec, PType, CType
<1>3. LiveInv'
  BY DEF IInv, LiveInv, N, InUse
<1>4. PICK pos \in [1..Linked -> 0..(Linked - 1)] : RingAt(pos)
  BY DEF IInv
<1>5. RingAt(pos)'
  BY <1>1, <1>4 DEF RingAt, Ordered, Filled, ProducerAt, Empty, Room, Succ, N
<1> QED
  BY <1>1, <1>2, <1>3, <1>4, <1>5 DEF IInv

LEMMA LoadTailBlockInv == \A op \in EnqOps : IInv /\ LoadTailBlock(op) => IInv'
<1> SUFFICES ASSUME NEW op \in EnqOps, IInv, LoadTailBlock(op) PROVE IInv'
  OBVIOUS
<1>1. /\ tailBlock \in 1..N /\ blocks[tailBlock].size \in Nat \ {0}
      /\ blocks[tailBlock].tail \in 0..(blocks[tailBlock].size - 1)
  BY BlockFacts DEF IInv, Shape
<1>2. After(tailBlock, blocks[tailBlock].tail) = Succ(tailBlock, blocks[tailBlock].tail)
  BY <1>1, AfterIsSucc
<1>3. /\ p'.pc = IF Room(tailBlock) THEN "construct" ELSE "check"
      /\ p'.op = op /\ p'.blk = tailBlock /\ p'.slot = blocks[tailBlock].tail
      /\ p' = [pc |-> p'.pc, op |-> p'.op, blk |-> p'.blk, slot |-> p'.slot, seen |-> p'.seen]
  BY <1>2 DEF LoadTailBlock, Room
<1>4. (p \in PType)'
  BY <1>1, <1>3 DEF PType, N, LoadTailBlock
<1>5. ASSUME NEW pos, RingAt(pos) PROVE ProducerAt(pos)'
  <2>1. Linked' = Linked /\ tailBlock \in 1..Linked
    BY <1>3, <1>5 DEF LoadTailBlock, RingAt, Ordered, Linked, N
  <2> QED
    BY <1>1, <1>3, <2>1 DEF ProducerAt, Room, Succ, LoadTailBlock
<1> QED
  BY <1>3, <1>4, <1>5, ProducerMoves DEF LoadTailBlock

LEMMA CheckNextInv == IInv /\ CheckNext => IInv'
<1> SUFFICES ASSUME IInv, CheckNext PROVE IInv'
  OBVIOUS
<1>1. (p \in PType)'
  BY LocalFacts DEF PType, N, CheckNext, NotIn
<1>2. p.pc = "check" /\ p'.pc \in {"reuse", "alloc", "idle"} /\ freed = {}
      /\ (p'.pc = "reuse" => blocks[tailBlock].next # frontBlock)
  BY LocalFacts DEF PType, CheckNext, NotIn
<1>3. ASSUME NEW pos, RingAt(pos) PROVE ProducerAt(pos)'
  <2>1. Linked' = Linked /\ tailBlock \in 1..Linked
    BY <1>2, <1>3 DEF CheckNext, RingAt, Ordered, Linked, N
  <2>2. ASSUME p'.pc = "reuse" PROVE pos[tailBlock] < Linked - 1
    <3>1. /\ pos[tailBlock] \in Int /\ pos[tailBlock] <= Linked - 1 /\ Linked \in Int
          /\ frontBlock \in 1..Linked /\ pos[frontBlock] = 0
          /\ blocks[tailBlock].next \in 1..Linked
      BY <1>3, <2>1, LocalFacts, LinkedFacts DEF RingAt
    <3>2. pos[blocks[tailBlock].next] # 0
      BY <1>2, <1>3, <2>2, <3>1 DEF RingAt, Ordered
    <3>3. pos[tailBlock] # Linked - 1
      BY <1>3, <2>1, <3>2 DEF RingAt, Ordered
    <3> QED
      BY <3>1, <3>3
  <2> QED
    BY <1>2, <2>1, <2>2 DEF ProducerAt, CheckNext
<1> QED
  BY <1>1, <1>2, <1>3, ProducerMoves DEF CheckNext

LEMMA ReuseNextInv == IInv /\ ReuseNext => IInv'
<1> SUFFICES ASSUME IInv, ReuseNext PROVE IInv'
  OBVIOUS
<1>1. /\ p.pc = "reuse" /\ p'.pc = "construct" /\ freed = {} /\ Linked = N /\ Linked' = N
      /\ p'.blk = blocks[tailBlock].next /\ p'.slot = blocks[blocks[tailBlock].next].tail
  BY LocalFacts DEF PType, ReuseNext, Linked, N
<1>2. blocks[tailBlock].next \in 1..N
  BY <1>1 DEF IInv, RingAt, Ordered
<1>3. (p \in PType)'
  <2>1. blocks[blocks[tailBlock].next].tail \in Nat
    BY <1>2, LocalFacts, BlockFacts
  <2>2. N' = N /\ blocks[tailBlock].next \in 0..N /\ p \in PType
    BY <1>2, LocalFacts DEF N, ReuseNext
  <2> QED
    BY <2>1, <2>2 DEF PType, ReuseNext
<1>4. ASSUME NEW pos, RingAt(pos) PROVE ProducerAt(pos)'
  <2> DEFINE b == blocks[tailBlock].next
  <2>1. pos[tailBlock] < N - 1 /\ pos[b] = pos[tailBlock] + 1 /\ pos[tailBlock] \in Int
    BY <1>1, <1>4 DEF RingAt, Ordered, ProducerAt
  <2>2. Empty(b)
    BY <1>1, <1>2, <1>4, <2>1 DEF RingAt, Filled
  <2>3. Room(b)
    <3>1. /\ blocks[b].size \in Nat /\ blocks[b].size >= 2
          /\ blocks[b].tail \in 0..(blocks[b].size - 1) /\ blocks[b].front = blocks[b].tail
      BY <1>2, <2>2, LocalFacts, BlockFacts DEF Empty
    <3> QED
      BY <3>1 DEF Room, Succ
  <2> QED
    BY <1>1, <1>2, <2>1, <2>3 DEF ProducerAt, Room, Succ, ReuseNext
<1> QED
  BY <1>1, <1>3, <1>4, ProducerMoves DEF ReuseNext

LEMMA AllocFailsInv == IInv /\ AllocFails => IInv'
<1> SUFFICES ASSUME IInv, AllocFails PROVE IInv'
  OBVIOUS
<1>1. (p \in PType)' /\ p'.pc = "idle" /\ p.pc = "alloc" /\ freed = {}
  BY DEF IInv, Shape, PType, N, AllocFails, NotIn
<1>2. ASSUME NEW pos, RingAt(pos) PROVE ProducerAt(pos)'
  BY <1>1 DEF ProducerAt
<1> QED
  BY <1>1, <1>2, ProducerMoves DEF AllocFails

LEMMA RememberTailInv == \A op \in DeqOps : IInv /\ RememberTail(op) => IInv'
<1> SUFFICES ASSUME NEW op \in DeqOps, IInv, RememberTail(op) PROVE IInv'
  OBVIOUS
<1>1. /\ c'.pc = "load" /\ c.pc = "idle" /\ freed = {} /\ c'.tail = tailBlock
      /\ (c \in CType)'
  BY DEF IInv, Shape, CType, N, RememberTail, Out
<1>2. ConsumerAt'
  BY <1>1 DEF ConsumerAt, RememberTail
<1> QED
  BY <1>1, <1>2, ConsumerMoves DEF RememberTail

LEMMA LoadFrontBlockInv == IInv /\ LoadFrontBlock => IInv'
<1> SUFFICES ASSUME IInv, LoadFrontBlock PROVE IInv'
  OBVIOUS
<1>1. /\ c.pc = "load" /\ freed = {} /\ c'.tail = c.tail /\ c'.blk = frontBlock
      /\ c'.slot = blocks[frontBlock].front /\ frontBlock \in 1..N
      /\ c'.pc = IF Empty(frontBlock) THEN "compare" ELSE "take"
  BY LocalFacts DEF CType, LoadFrontBlock, Empty
<1>2. (c \in CType)'
  <2>1. blocks[frontBlock].front \in Nat
    BY LocalFacts, BlockFacts
  <2>2. N' = N /\ frontBlock \in 0..N /\ c \in CType
    BY <1>1, LocalFacts DEF N, LoadFrontBlock
  <2> QED
    BY <2>1, <2>2 DEF CType, LoadFrontBlock
<1>3. ConsumerAt'
  BY <1>1 DEF IInv, ConsumerAt, LoadFrontBlock, Empty, N
<1> QED
  BY <1>1, <1>2, <1>3, ConsumerMoves DEF LoadFrontBlock

LEMMA CompareTailInv == IInv /\ CompareTail => IInv'
<1> SUFFICES ASSUME IInv, CompareTail PROVE IInv'
  OBVIOUS
<1>1. /\ c.pc = "compare" /\ freed = {} /\ (c \in CType)'
      /\ c'.pc = (IF c.blk # c.tail THEN "next" ELSE "idle") /\ (c'.pc = "next" => c'.blk = c.blk)
  BY LocalFacts DEF CType, CompareTail, NotOut, Out, N
<1>2. ConsumerAt'
  BY <1>1 DEF IInv, ConsumerAt, CompareTail, Empty, N
<1> QED
  BY <1>1, <1>2, ConsumerMoves DEF CompareTail

LEMMA LoadNextInv == IInv /\ LoadNext => IInv'
<1> SUFFICES ASSUME IInv, LoadNext PROVE IInv'
  OBVIOUS
<1> DEFINE b == blocks[frontBlock].next
<1>1. /\ c.pc = "next" /\ freed = {} /\ c'.blk = b /\ c'.slot = blocks[b].front /\ c'.op = c.op
      /\ c'.pc = (IF c.op = "peek" THEN "take" ELSE "move")
      /\ tailBlock # frontBlock /\ Empty(frontBlock)
  BY LocalFacts DEF IInv, CType, ConsumerAt, LoadNext
<1>2. b \in 1..N /\ ~Empty(b)
  <2>1. PICK pos \in [1..Linked -> 0..(Linked - 1)] : RingAt(pos)
    BY DEF IInv
  <2>2. /\ Linked \in 1..N /\ frontBlock \in 1..Linked /\ tailBlock \in 1..Linked
        /\ b \in 1..Linked /\ pos[frontBlock] = 0 /\ pos[tailBlock] \in 0..(Linked - 1)
    BY <2>1, LocalFacts, LinkedFacts DEF RingAt
  <2>3. pos[tailBlock] # 0
    BY <1>1, <2>1, <2>2 DEF RingAt, Ordered
  <2>4. pos[b] = IF pos[frontBlock] = Linked - 1 THEN 0 ELSE pos[frontBlock] + 1
    BY <2>1, <2>2 DEF RingAt, Ordered
  <2>5. pos[b] = 1 /\ pos[tailBlock] >= 1
    BY <2>2, <2>3, <2>4
  <2>6. ~Empty(b)
    BY <2>1, <2>2, <2>5 DEF RingAt, Filled
  <2> QED
    BY <2>2, <2>6, LocalFacts
<1>3. (c \in CType)'
  <2>1. blocks[b].front \in Nat
    BY <1>2, LocalFacts, BlockFacts
  <2>2. N' = N /\ b \in 0..N /\ c \in CType /\ c.blk = frontBlock
    BY <1>1, <1>2, LocalFacts DEF IInv, ConsumerAt, N, LoadNext
  <2> QED
    BY <2>1, <2>2 DEF CType, LoadNext
<1>4. ConsumerAt'
  BY <1>1, <1>2 DEF IInv, ConsumerAt, LoadNext, Empty, N
<1> QED
  BY <1>1, <1>3, <1>4, ConsumerMoves DEF LoadNext

-----------------------------------------------------------------------------
(* The steps that move the tail block, the front block or what lives.      *)

LEMMA AdvanceTailInv == IInv /\ AdvanceTail => IInv'
<1> SUFFICES ASSUME IInv, AdvanceTail PROVE IInv'
  OBVIOUS
<1>1. /\ p.pc = "advance" /\ p' = NotIn /\ p'.pc = "idle" /\ tailBlock' = p.blk
      /\ sent' = sent + 1 /\ N' = N /\ Linked = N /\ Linked' = N
      /\ UNCHANGED <<blocks, live, frontBlock, largest, c, freed>>
  BY DEF AdvanceTail, NotIn, N, Linked
<1>2. PICK pos \in [1..Linked -> 0..(Linked - 1)] : RingAt(pos)
  BY DEF IInv
<1>3. /\ p.blk \in 1..N /\ pos[p.blk] = pos[tailBlock] + 1 /\ ~Empty(p.blk)
      /\ pos[frontBlock] = 0 /\ tailBlock \in 1..N
      /\ \A b \in 1..N : pos[b] \in Int /\ 0 <= pos[b]
      /\ \A a, b \in 1..N : pos[a] = pos[b] => a = b
  <2>1. Ordered(pos) /\ ProducerAt(pos) /\ Shape
    BY <1>2, LocalFacts DEF RingAt
  <2>2. /\ pos[frontBlock] = 0 /\ tailBlock \in 1..N
        /\ \A b \in 1..N : pos[b] \in Int /\ 0 <= pos[b]
    BY <1>1, <2>1, LinkedFacts
  <2>3. p.blk \in 1..N /\ pos[p.blk] = pos[tailBlock] + 1 /\ ~Empty(p.blk)
    BY <1>1, <2>1 DEF ProducerAt
  <2>4. \A a, b \in 1..N : pos[a] = pos[b] => a = b
    BY <1>1, <2>1 DEF Ordered
  <2> QED
    BY <2>2, <2>3, <2>4
<1>4. p.blk # frontBlock
  BY <1>3
<1>5. Shape'
  <2>1. p' \in PType'
    BY <1>1, LocalFacts DEF PType, NotIn
  <2>2. CType' = CType
    BY <1>1 DEF CType
  <2> QED
    BY <1>1, <1>3, <2>1, <2>2, LocalFacts DEF Shape
<1>6. ConsumerAt'
  BY <1>1, <1>4 DEF IInv, ConsumerAt, Empty
<1>7. LiveInv'
  BY <1>1 DEF IInv, LiveInv, InUse
<1>8. RingAt(pos)'
  <2>1. Ordered(pos)'
    BY <1>1, <1>2, <1>3 DEF RingAt, Ordered
  <2>2. Filled(pos)'
    <3> SUFFICES ASSUME NEW b \in 1..N
                 PROVE  /\ 0 < pos[b] /\ pos[b] <= pos[p.blk] => ~Empty(b)
                        /\ pos[b] > pos[p.blk] => Empty(b)
      BY <1>1 DEF Filled, Empty
    <3>1. /\ 0 < pos[b] /\ pos[b] <= pos[tailBlock] => ~Empty(b)
          /\ pos[b] > pos[tailBlock] => Empty(b) \/ b = p.blk
      BY <1>1, <1>2 DEF RingAt, Filled
    <3> QED
      BY <1>3, <3>1
  <2>3. ProducerAt(pos)'
    BY <1>1 DEF ProducerAt
  <2> QED
    BY <2>1, <2>2, <2>3 DEF RingAt
<1> QED
  BY <1>1, <1>2, <1>5, <1>6, <1>7, <1>8 DEF IInv

LEMMA MoveFrontInv == IInv /\ MoveFront => IInv'
<1> SUFFICES ASSUME IInv, MoveFront PROVE IInv'
  OBVIOUS
<1>1. /\ c.pc = "move" /\ c'.pc = "take" /\ c'.blk = c.blk /\ c'.slot = c.slot /\ c'.op = c.op
      /\ frontBlock' = c.blk /\ N' = N /\ Linked' = Linked
      /\ c' \in CType' /\ PType' = PType
      /\ UNCHANGED <<blocks, live, tailBlock, largest, p, sent, freed>>
  BY LocalFacts DEF MoveFront, CType, PType, N, Linked
<1>2. /\ tailBlock # frontBlock /\ Empty(frontBlock) /\ c.blk = blocks[frontBlock].next
      /\ c.blk \in 1..N /\ c.slot = blocks[c.blk].front /\ ~Empty(c.blk)
  BY <1>1 DEF IInv, ConsumerAt
<1>3. PICK pos \in [1..Linked -> 0..(Linked - 1)] : RingAt(pos)
  BY DEF IInv
<1>4. Ordered(pos) /\ Shape
  BY <1>3, LocalFacts DEF RingAt
<1>5. /\ Linked \in Nat /\ Linked >= 1 /\ pos[frontBlock] = 0
      /\ frontBlock \in 1..Linked /\ tailBlock \in 1..Linked
      /\ \A b \in 1..Linked : pos[b] \in Int /\ 0 <= pos[b] /\ pos[b] <= Linked - 1
  BY <1>4, LinkedFacts
<1>6. pos[tailBlock] >= 1 /\ Linked >= 2
  <2>1. pos[tailBlock] # 0
    BY <1>2, <1>4, <1>5 DEF Ordered
  <2> QED
    BY <1>5, <2>1
<1>7. PICK new \in [1..Linked -> 0..(Linked - 1)] :
           /\ \A b \in 1..Linked : new[b] = IF pos[b] = 0 THEN Linked - 1 ELSE pos[b] - 1
           /\ IsRing(new, Linked, NextOf[frontBlock], NextOf)
  BY <1>4, <1>5, <1>6, OrderedIsRing, RingRotates
<1>8. /\ \A b \in 1..Linked : new[b] = IF pos[b] = 0 THEN Linked - 1 ELSE pos[b] - 1
      /\ new[tailBlock] = pos[tailBlock] - 1
  BY <1>5, <1>6, <1>7
<1>9. Shape'
  BY <1>1, <1>2 DEF IInv, Shape
<1>10. ConsumerAt'
  BY <1>1, <1>2 DEF ConsumerAt, Empty
<1>11. LiveInv'
  BY <1>1 DEF IInv, LiveInv, InUse
<1>12. Ordered(new)'
  <2>1. NextOf' = NextOf /\ NextOf[frontBlock] = frontBlock'
    BY <1>1, <1>2, <1>5 DEF NextOf
  <2>2. IsRing(new, Linked', frontBlock', NextOf') /\ tailBlock' \in 1..Linked'
    BY <1>1, <1>5, <1>7, <2>1
  <2>3. \A b \in 1..Linked' : NextOf'[b] = blocks'[b].next
    BY DEF NextOf
  <2>4. \A b \in 1..Linked' :
          /\ blocks'[b].next \in 1..Linked'
          /\ new[blocks'[b].next] = IF new[b] = Linked' - 1 THEN 0 ELSE new[b] + 1
    BY <2>2, <2>3, SMTT(30) DEF IsRing
  <2> QED
    BY <2>2, <2>4, SMTT(30) DEF Ordered, IsRing
<1>13. Filled(new)'
  <2>1. ASSUME NEW b \in 1..Linked
        PROVE  /\ 0 < new[b] /\ new[b] <= new[tailBlock] => ~Empty(b)
               /\ new[b] > new[tailBlock] => Empty(b) \/ (p.pc = "advance" /\ b = p.blk)
    <3>1. /\ 0 < pos[b] /\ pos[b] <= pos[tailBlock] => ~Empty(b)
          /\ pos[b] > pos[tailBlock] => Empty(b) \/ (p.pc = "advance" /\ b = p.blk)
      BY <1>3 DEF RingAt, Filled
    <3>2. pos[b] = 0 => Empty(b)
      BY <1>2, <1>4, <1>5 DEF Ordered
    <3>3. /\ Linked \in Int /\ pos[b] \in Int /\ 0 <= pos[b] /\ pos[b] <= Linked - 1
          /\ pos[tailBlock] \in Int /\ pos[tailBlock] <= Linked - 1
          /\ new[b] = IF pos[b] = 0 THEN Linked - 1 ELSE pos[b] - 1
          /\ new[tailBlock] = pos[tailBlock] - 1
      BY <1>5, <1>8
    <3>4. CASE pos[b] = 0
      BY <1>6, <3>2, <3>3, <3>4
    <3>5. CASE pos[b] # 0
      BY <1>6, <3>1, <3>3, <3>5, SMTT(30)
    <3> QED
      BY <3>4, <3>5
  <2> QED
    BY <1>1, <2>1 DEF Filled, Empty
<1>14. ProducerAt(new)'
  <2>1. pos[tailBlock] \in Int /\ pos[tailBlock] <= Linked - 1 /\ Linked \in Int
    BY <1>5
  <2>2. ASSUME NEW b \in 1..Linked, pos[b] = pos[tailBlock] + 1 PROVE new[b] = new[tailBlock] + 1
    <3>1. new[b] = IF pos[b] = 0 THEN Linked - 1 ELSE pos[b] - 1
      BY <1>8
    <3> QED
      BY <1>6, <1>8, <2>1, <2>2, <3>1
  <2>3. p.pc \in {"construct", "publish"} =>
           /\ p.blk \in 1..Linked /\ p.slot = blocks[p.blk].tail /\ Room(p.blk)
           /\ p.blk = tailBlock \/ new[p.blk] = new[tailBlock] + 1
    BY <1>3, <2>2 DEF RingAt, ProducerAt
  <2>4. /\ p.pc = "reuse" => new[tailBlock] < Linked - 1
        /\ p.pc = "advance" =>
             p.blk \in 1..Linked /\ new[p.blk] = new[tailBlock] + 1 /\ ~Empty(p.blk)
        /\ p.pc = "link" => p.blk = N /\ blocks[N].next = blocks[tailBlock].next /\ ~Empty(N)
    <3>1. ProducerAt(pos)
      BY <1>3 DEF RingAt
    <3>2. p.pc = "reuse" => new[tailBlock] < Linked - 1
      BY <1>8, <2>1, <3>1 DEF ProducerAt
    <3>3. p.pc = "advance" =>
             p.blk \in 1..Linked /\ new[p.blk] = new[tailBlock] + 1 /\ ~Empty(p.blk)
      BY <2>2, <3>1 DEF ProducerAt
    <3> QED
      BY <3>1, <3>2, <3>3 DEF ProducerAt
  <2> QED
    BY <1>1, <2>3, <2>4 DEF ProducerAt, Empty, Room, Succ
<1> QED
  <2>1. new \in [1..Linked' -> 0..(Linked' - 1)] /\ RingAt(new)'
    BY <1>1, <1>7, <1>12, <1>13, <1>14 DEF RingAt
  <2> QED
    BY <1>9, <1>10, <1>11, <2>1 DEF IInv

(* The producer's slot, when it has constructed or is about to, is the     *)
(* tail of its block.                                                      *)
LEMMA ProducerSlot ==
  ASSUME IInv, p.pc \in {"construct", "publish"}
  PROVE  p.blk \in 1..N /\ p.slot = blocks[p.blk].tail /\ Room(p.blk) /\ Linked = N
<1>1. PICK pos \in [1..Linked -> 0..(Linked - 1)] : RingAt(pos)
  BY DEF IInv
<1>2. Linked = N
  BY DEF Linked
<1> QED
  BY <1>1, <1>2 DEF RingAt, ProducerAt

LEMMA TakeInv == IInv /\ Take => IInv'
<1> SUFFICES ASSUME IInv, Take PROVE IInv'
  OBVIOUS
<1>1. /\ c.pc = "take" /\ freed = {} /\ c \in CType /\ Shape
      /\ UNCHANGED <<blocks, frontBlock, tailBlock, largest, p, sent, freed>>
      /\ N' = N /\ Linked' = Linked
  BY LocalFacts DEF Take, N, Linked
<1>2. c.blk \in 1..N /\ c.slot = blocks[c.blk].front /\ ~Empty(c.blk)
  BY <1>1 DEF IInv, ConsumerAt
<1>3. CASE c.op = "peek"
  <2>1. c' = NotOut /\ c'.pc = "idle" /\ UNCHANGED live
    BY <1>3 DEF Take, NotOut, Out
  <2>2. c' \in CType' /\ ConsumerAt'
    BY <1>1, <2>1, LocalFacts DEF NotOut, Out, CType, ConsumerAt
  <2> QED
    BY <1>1, <2>1, <2>2, ConsumerMoves
<1>4. CASE c.op # "peek"
  <2>1. /\ c'.pc = "release" /\ c'.blk = c.blk /\ c'.slot = c.slot /\ c'.op = c.op
        /\ c' \in CType' /\ PType' = PType
        /\ live' = live \ {<<c.blk, c.slot>>}
    BY <1>1, <1>4 DEF Take, CType, PType
  <2>2. Shape'
    BY <1>1, <2>1 DEF Shape
  <2>3. ConsumerAt'
    BY <1>1, <1>2, <1>4, <2>1 DEF IInv, ConsumerAt, Empty
  <2>4. LiveInv'
    <3>1. \A s \in live' : \E b \in 1..N : \E i \in 0..(blocks[b].size - 1) : s = <<b, i>>
      BY <1>1, <2>1 DEF IInv, LiveInv
    <3>2. ASSUME NEW b \in 1..N, NEW i \in 0..(blocks[b].size - 1)
          PROVE  <<b, i>> \in live' <=>
                   \/ InUse(b, i) /\ ~(b = c.blk /\ i = c.slot)
                   \/ p.pc = "publish" /\ b = p.blk /\ i = p.slot
      <4>1. <<b, i>> \in live <=> InUse(b, i) \/ (p.pc = "publish" /\ b = p.blk /\ i = p.slot)
        BY <1>1 DEF IInv, LiveInv
      <4>2. p.pc = "publish" /\ p.blk = c.blk => p.slot # c.slot
        BY <1>2, ProducerSlot DEF Empty
      <4> QED
        BY <2>1, <4>1, <4>2
    <3> QED
      BY <1>1, <2>1, <3>1, <3>2 DEF LiveInv, InUse
  <2>5. PICK pos \in [1..Linked -> 0..(Linked - 1)] : RingAt(pos)
    BY DEF IInv
  <2>6. RingAt(pos)'
    BY <1>1, <2>5 DEF RingAt, Ordered, Filled, ProducerAt, Empty, Room, Succ
  <2> QED
    BY <1>1, <2>2, <2>3, <2>4, <2>5, <2>6 DEF IInv
<1> QED
  BY <1>3, <1>4

-----------------------------------------------------------------------------
(* The destructor goes once around the ring.                               *)

LEMMA LeastNatural ==
  ASSUME NEW S, S \subseteq Nat, S # {}
  PROVE  \E x \in S : \A y \in S : x <= y
<1>1. PICK x \in S : \A y \in S : ~(<<y, x>> \in OpToRel(<, Nat))
  BY NatLessThanWellFounded, WFMin, Zenon
<1>2. \A y \in S : ~(y < x)
  BY <1>1 DEF OpToRel
<1>3. \A y \in S : x <= y
  BY <1>2
<1> QED
  BY <1>3

LEMMA ModStep ==
  ASSUME NEW d \in Nat \ {0}, NEW k \in Nat \ {0}
  PROVE  /\ (k - 1) % d \in 0..(d - 1) /\ k % d \in 0..(d - 1)
         /\ k % d = IF (k - 1) % d = d - 1 THEN 0 ELSE ((k - 1) % d) + 1
<1> DEFINE q == (k - 1) \div d
           r == (k - 1) % d
<1>1. q \in Int /\ r \in 0..(d - 1) /\ k - 1 = d * q + r /\ k % d \in 0..(d - 1)
  BY DivMod
<1> HIDE DEF q, r
<1>2. CASE r = d - 1
  <2>1. k = d * (q + 1) + 0 /\ q + 1 \in Int /\ 0 \in 0..(d - 1)
    BY <1>1, <1>2
  <2>2. (d * (q + 1) + 0) % d = 0
    BY <2>1, ModUnique
  <2> QED
    BY <1>1, <1>2, <2>1, <2>2 DEF r
<1>3. CASE r # d - 1
  <2>1. k = d * q + (r + 1) /\ r + 1 \in 0..(d - 1)
    BY <1>1, <1>3
  <2>2. (d * q + (r + 1)) % d = r + 1
    BY <1>1, <2>1, ModUnique
  <2> QED
    BY <1>1, <1>3, <2>1, <2>2 DEF r
<1> QED
  BY <1>2, <1>3

(* Ring is well defined: its k-th block is the one at position k % N.      *)
LEMMA RingDefined ==
  ASSUME Shape, NEW pos, Ordered(pos)
  PROVE  Ring = [k \in Nat |-> IF k = 0 THEN frontBlock ELSE blocks[Ring[k - 1]].next]
<1> DEFINE L == Linked
<1>1. /\ L \in Nat \ {0} /\ frontBlock \in 1..L /\ pos[frontBlock] = 0
      /\ \A b \in 1..L : blocks[b].next \in 1..L
  BY LinkedFacts
<1>2. \A a, b \in 1..L : pos[a] = pos[b] => a = b
  BY DEF Ordered
<1>3. \A k \in 0..(L - 1) : \E b \in 1..L : pos[b] = k
  BY DEF Ordered
<1>4. \A b \in 1..L : pos[blocks[b].next] = IF pos[b] = L - 1 THEN 0 ELSE pos[b] + 1
  BY DEF Ordered
<1> DEFINE At(k) == CHOOSE b \in 1..L : pos[b] = k
           F == [k \in Nat |-> At(k % L)]
<1> HIDE DEF L
<1>5. ASSUME NEW k \in 0..(L - 1) PROVE At(k) \in 1..L /\ pos[At(k)] = k
  BY <1>3, Zenon
<1> HIDE DEF At
<1>6. ASSUME NEW k \in Nat PROVE F[k] = At(k % L) /\ k % L \in 0..(L - 1)
  BY <1>1, DivMod
<1>7. F = [k \in Nat |-> F[k]]
  OBVIOUS
<1> HIDE DEF F
<1>8. ASSUME NEW k \in Nat
      PROVE  F[k] = IF k = 0 THEN frontBlock ELSE blocks[F[k - 1]].next
  <2>1. CASE k = 0
    <3>1. k % L = 0 /\ 0 \in 0..(L - 1)
      BY <1>1, <2>1, ModTurns
    <3>2. F[k] \in 1..L /\ pos[F[k]] = 0
      BY <1>5, <1>6, <3>1
    <3> QED
      BY <1>1, <1>2, <2>1, <3>2
  <2>2. CASE k # 0
    <3>1. k - 1 \in Nat /\ k \in Nat \ {0}
      BY <2>2
    <3>2. F[k] \in 1..L /\ pos[F[k]] = k % L
      BY <1>5, <1>6
    <3>3. F[k - 1] \in 1..L /\ pos[F[k - 1]] = (k - 1) % L
      BY <1>5, <1>6, <3>1
    <3>4. k % L = IF (k - 1) % L = L - 1 THEN 0 ELSE ((k - 1) % L) + 1
      BY <1>1, <3>1, ModStep
    <3>5. pos[blocks[F[k - 1]].next] = pos[F[k]] /\ blocks[F[k - 1]].next \in 1..L
      BY <1>1, <1>4, <3>2, <3>3, <3>4
    <3> QED
      BY <1>2, <2>2, <3>2, <3>5
  <2> QED
    BY <2>1, <2>2
<1>9. F = [k \in Nat |-> IF k = 0 THEN frontBlock ELSE blocks[F[k - 1]].next]
  BY <1>7, <1>8
<1>10. \E g : g = [k \in Nat |-> IF k = 0 THEN frontBlock ELSE blocks[g[k - 1]].next]
  BY <1>9
<1> QED
  BY <1>10, Zenon DEF Ring

(* Ring follows the links.                                                 *)
LEMMA RingSteps ==
  ASSUME Shape, NEW pos, Ordered(pos)
  PROVE  /\ Ring[0] = frontBlock
         /\ \A k \in Nat \ {0} : Ring[k] = blocks[Ring[k - 1]].next
<1> DEFINE G == Ring
<1>1. G = [k \in Nat |-> IF k = 0 THEN frontBlock ELSE blocks[G[k - 1]].next]
  BY RingDefined
<1> HIDE DEF G
<1>2. G[0] = frontBlock /\ \A k \in Nat \ {0} : G[k] = blocks[G[k - 1]].next
  BY <1>1
<1> QED
  BY <1>2 DEF G

(* It counts as pos does.                                                  *)
LEMMA RingCounts ==
  ASSUME Shape, NEW pos, Ordered(pos)
  PROVE  \A k \in 0..(Linked - 1) : Ring[k] \in 1..Linked /\ pos[Ring[k]] = k
<1> DEFINE L == Linked
           Bad == {k \in 0..(L - 1) : ~(Ring[k] \in 1..L /\ pos[Ring[k]] = k)}
<1>1. /\ L \in Nat \ {0} /\ frontBlock \in 1..L /\ pos[frontBlock] = 0
      /\ \A b \in 1..L : blocks[b].next \in 1..L
  BY LinkedFacts
<1>2. /\ \A a, b \in 1..L : pos[a] = pos[b] => a = b
      /\ \A b \in 1..L : pos[b] \in 0..(L - 1)
  BY DEF Ordered
<1>3. \A b \in 1..L : pos[blocks[b].next] = IF pos[b] = L - 1 THEN 0 ELSE pos[b] + 1
  BY DEF Ordered
<1> HIDE DEF L
<1>4. /\ Ring[0] = frontBlock
      /\ \A k \in Nat \ {0} : Ring[k] = blocks[Ring[k - 1]].next
  BY RingSteps
<1>5. Bad = {}
  <2> SUFFICES ASSUME Bad # {} PROVE FALSE
    OBVIOUS
  <2>1. PICK k \in Bad : \A j \in Bad : k <= j
    <3>1. Bad \subseteq Nat
      BY <1>1
    <3> HIDE DEF Bad
    <3> QED
      BY <3>1, LeastNatural, Zenon
  <2>2. k # 0
    BY <1>1, <1>4
  <2>3. /\ k \in Nat \ {0} /\ k - 1 \in 0..(L - 1) /\ k - 1 \notin Bad /\ k <= L - 1
    BY <1>1, <2>1, <2>2
  <2>4. Ring[k - 1] \in 1..L /\ pos[Ring[k - 1]] = k - 1
    BY <2>3
  <2>5. Ring[k] = blocks[Ring[k - 1]].next
    BY <1>4, <2>3
  <2>6. Ring[k] \in 1..L /\ pos[Ring[k]] = k
    BY <1>1, <1>3, <2>3, <2>4, <2>5
  <2> QED
    BY <2>1, <2>6
<1> QED
  BY <1>5 DEF L

LEMMA RingVisitsAll ==
  ASSUME Shape, NEW pos, Ordered(pos)
  PROVE  {Ring[k] : k \in 0..(Linked - 1)} = 1..Linked
<1> DEFINE L == Linked
<1>1. L \in Nat \ {0}
  BY LinkedFacts
<1>2. /\ \A a, b \in 1..L : pos[a] = pos[b] => a = b
      /\ \A b \in 1..L : pos[b] \in 0..(L - 1)
  BY DEF Ordered
<1>3. \A k \in 0..(L - 1) : Ring[k] \in 1..L /\ pos[Ring[k]] = k
  BY RingCounts
<1> HIDE DEF L
<1>4. ASSUME NEW b \in 1..L PROVE b \in {Ring[k] : k \in 0..(L - 1)}
  <2>1. pos[b] \in 0..(L - 1)
    BY <1>2
  <2>2. Ring[pos[b]] = b
    BY <1>2, <1>3, <2>1
  <2> QED
    BY <2>1, <2>2
<1> QED
  BY <1>3, <1>4 DEF L

(* The destructor is back at frontBlock after all blocks, not before.      *)
LEMMA RoundIsWhole ==
  ASSUME Shape, NEW pos, Ordered(pos), p.pc # "link"
  PROVE  RingLength = N
<1> DEFINE P(k) == Ring[k] = frontBlock /\ \A j \in 1..(k - 1) : Ring[j] # frontBlock
<1>1. /\ N \in Nat \ {0} /\ Linked = N /\ frontBlock \in 1..N /\ pos[frontBlock] = 0
      /\ \A b \in 1..N : blocks[b].next \in 1..N
  BY LinkedFacts
<1>2. /\ \A a, b \in 1..N : pos[a] = pos[b] => a = b
      /\ \A b \in 1..N : pos[blocks[b].next] = IF pos[b] = N - 1 THEN 0 ELSE pos[b] + 1
  BY <1>1 DEF Ordered
<1>3. \A k \in 0..(N - 1) : Ring[k] \in 1..N /\ pos[Ring[k]] = k
  BY <1>1, RingCounts
<1>4. \A j \in 1..(N - 1) : Ring[j] # frontBlock
  <2> SUFFICES ASSUME NEW j \in 1..(N - 1) PROVE Ring[j] # frontBlock
    OBVIOUS
  <2>1. j \in 0..(N - 1) /\ j # 0
    BY <1>1
  <2> QED
    BY <1>1, <1>3, <2>1
<1>5. Ring[N] = frontBlock
  <2>1. N - 1 \in 0..(N - 1) /\ N \in Nat \ {0}
    BY <1>1
  <2>2. Ring[N] = blocks[Ring[N - 1]].next
    BY <2>1, RingSteps
  <2>3. pos[Ring[N]] = 0 /\ Ring[N] \in 1..N
    BY <1>1, <1>2, <1>3, <2>1, <2>2
  <2> QED
    BY <1>1, <1>2, <2>3
<1> HIDE DEF N
<1>6. N \in 1..N /\ P(N)
  BY <1>1, <1>4, <1>5
<1>7. \A k \in 1..N : P(k) => k = N
  <2> SUFFICES ASSUME NEW k \in 1..N, P(k), k # N PROVE FALSE
    OBVIOUS
  <2>1. k \in 1..(N - 1)
    BY <1>1
  <2> QED
    BY <1>4, <2>1
<1>8. RingLength = CHOOSE k \in 1..N : P(k)
  BY DEF RingLength, N
<1> HIDE DEF P
<1> QED
  BY <1>6, <1>7, <1>8

LEMMA DestroyInv == IInv /\ Destroy => IInv'
<1> SUFFICES ASSUME IInv, Destroy PROVE IInv'
  OBVIOUS
<1>1. /\ p.pc = "idle" /\ c.pc = "idle" /\ N' = N /\ Linked' = Linked
      /\ PType' = PType /\ CType' = CType /\ Shape
      /\ UNCHANGED <<blocks, frontBlock, tailBlock, largest, p, c, sent>>
  BY LocalFacts DEF Destroy, DestroyTo, N, Linked, PType, CType
<1>2. freed' # {}
  <2>1. PICK pos \in [1..Linked -> 0..(Linked - 1)] : RingAt(pos)
    BY DEF IInv
  <2>2. RingLength = N
    BY <1>1, <2>1, RoundIsWhole DEF RingAt
  <2>3. 0 \in 0..(RingLength - 1)
    BY <1>1, <2>2 DEF Shape
  <2> QED
    BY <2>3 DEF Destroy, DestroyTo
<1>3. Shape'
  BY <1>1 DEF Shape
<1>4. ConsumerAt'
  BY <1>1 DEF ConsumerAt
<1>5. LiveInv'
  BY <1>2 DEF LiveInv
<1>6. PICK pos \in [1..Linked -> 0..(Linked - 1)] : RingAt(pos)
  BY DEF IInv
<1>7. RingAt(pos)'
  BY <1>1, <1>6 DEF RingAt, Ordered, Filled, ProducerAt, Empty, Room, Succ
<1> QED
  BY <1>1, <1>3, <1>4, <1>5, <1>6, <1>7 DEF IInv

-----------------------------------------------------------------------------
(* The steps that store into a block.                                      *)

LEMMA BlocksAreSeq == Shape => blocks \in Seq(BlockRec) /\ DOMAIN blocks = 1..N
<1> SUFFICES ASSUME Shape PROVE blocks \in Seq(BlockRec) /\ DOMAIN blocks = 1..N
  OBVIOUS
<1>1. N \in Nat /\ blocks \in [1..N -> BlockRec]
  BY DEF Shape
<1> QED
  BY <1>1

(* One block of the sequence is replaced.                                  *)
LEMMA ReplaceBlock ==
  ASSUME Shape, NEW b \in 1..N, NEW r \in BlockRec, blocks' = [blocks EXCEPT ![b] = r]
  PROVE  /\ N' = N /\ blocks' \in [1..N -> BlockRec] /\ blocks'[b] = r
         /\ \A a \in 1..N : a # b => blocks'[a] = blocks[a]
<1>1. blocks \in Seq(BlockRec) /\ b \in 1..Len(blocks) /\ N = Len(blocks)
  BY BlocksAreSeq DEF N
<1>2. /\ blocks' \in Seq(BlockRec) /\ Len(blocks') = Len(blocks)
      /\ \A j \in 1..Len(blocks) : blocks'[j] = IF j = b THEN r ELSE blocks[j]
  BY <1>1, ExceptSeq
<1>3. N' = N
  BY <1>1, <1>2 DEF N
<1> QED
  BY <1>1, <1>2, <1>3

(* A store into front, tail or data keeps the shape and the links.         *)
LEMMA StoreShape ==
  ASSUME Shape, N' = N, blocks' \in [1..N -> BlockRec],
         \A b \in 1..N : /\ blocks'[b].size = blocks[b].size
                         /\ blocks'[b].front \in 0..(blocks[b].size - 1)
                         /\ blocks'[b].tail \in 0..(blocks[b].size - 1)
                         /\ Len(blocks'[b].data) = Len(blocks[b].data),
         UNCHANGED <<frontBlock, tailBlock, largest>>, sent' \in Nat,
         p' \in PType', c' \in CType', freed' = {}
  PROVE  Shape'
<1>1. /\ N \in 1..MaxBlocks /\ largest = blocks[N].size
      /\ frontBlock \in 1..N /\ tailBlock \in 1..N /\ N \in 1..N
  BY DEF Shape
<1>2. \A b \in 1..N : b > 1 => b - 1 \in 1..N
  BY <1>1
<1>3. ASSUME NEW b \in 1..N
      PROVE  /\ blocks'[b].size >= 2
             /\ blocks'[b].front \in 0..(blocks'[b].size - 1)
             /\ blocks'[b].tail \in 0..(blocks'[b].size - 1)
             /\ b > 1 => blocks'[b].size = 2 * blocks'[b - 1].size
             /\ Len(blocks'[b].data) = blocks'[b].size
  BY <1>2 DEF Shape
<1> QED
  BY <1>1, <1>3 DEF Shape

LEMMA StoreOrdered ==
  ASSUME NEW pos, Ordered(pos), Linked' = Linked,
         \A b \in 1..Linked : blocks'[b].next = blocks[b].next,
         UNCHANGED <<frontBlock, tailBlock>>
  PROVE  Ordered(pos)'
<1>1. \A b \in 1..Linked' :
        /\ blocks'[b].next \in 1..Linked'
        /\ pos[blocks'[b].next] = IF pos[b] = Linked' - 1 THEN 0 ELSE pos[b] + 1
  BY SMTT(30) DEF Ordered
<1> QED
  BY <1>1 DEF Ordered

LEMMA ConstructInv == IInv /\ Construct => IInv'
<1> SUFFICES ASSUME IInv, Construct PROVE IInv'
  OBVIOUS
<1>1. /\ p.pc = "construct" /\ p'.pc = "publish" /\ p'.blk = p.blk /\ p'.slot = p.slot
      /\ live' = live \cup {<<p.blk, p.slot>>} /\ freed = {} /\ Shape /\ sent \in Nat
      /\ p \in PType /\ UNCHANGED <<frontBlock, tailBlock, largest, c, sent, freed>>
  BY LocalFacts DEF Construct, PType
<1>2. p.blk \in 1..N /\ p.slot = blocks[p.blk].tail /\ Room(p.blk) /\ Linked = N
  BY <1>1, ProducerSlot
<1> DEFINE B == p.blk
           d == [blocks[B].data EXCEPT ![p.slot + 1] = sent + 1]
           r == [blocks[B] EXCEPT !.data = d]
<1>3. d \in Seq(Nat) /\ Len(d) = Len(blocks[B].data)
  <2>1. /\ blocks[B].data \in Seq(Nat) /\ p.slot + 1 \in 1..Len(blocks[B].data)
        /\ sent + 1 \in Nat
    <3>1. /\ blocks[B].data \in Seq(Nat) /\ Len(blocks[B].data) = blocks[B].size
          /\ blocks[B].tail \in 0..(blocks[B].size - 1) /\ blocks[B].size \in Nat
      BY <1>1, <1>2, BlockFacts
    <3>2. p.slot = blocks[B].tail /\ sent \in Nat
      BY <1>1, <1>2
    <3> HIDE DEF B, d
    <3> QED
      BY <3>1, <3>2
  <2> QED
    BY <2>1, ExceptSeq
<1>4. /\ r \in BlockRec /\ r.front = blocks[B].front /\ r.tail = blocks[B].tail
      /\ r.next = blocks[B].next /\ r.size = blocks[B].size /\ r.data = d
  <2> HIDE DEF d
  <2> QED
    BY <1>1, <1>2, <1>3, BlockFacts DEF BlockRec
<1>5. blocks' = [blocks EXCEPT ![B] = r]
  BY <1>1, <1>2, BlocksAreSeq, BlockFacts DEF Construct, BlockRec
<1> HIDE DEF r
<1>6. /\ N' = N /\ blocks' \in [1..N -> BlockRec]
      /\ \A b \in 1..N : b # B => blocks'[b] = blocks[b]
      /\ blocks'[B] = r
  BY <1>1, <1>2, <1>4, <1>5, ReplaceBlock
<1>7. \A b \in 1..N : /\ blocks'[b].front = blocks[b].front /\ blocks'[b].tail = blocks[b].tail
                      /\ blocks'[b].next = blocks[b].next /\ blocks'[b].size = blocks[b].size
                      /\ Len(blocks'[b].data) = Len(blocks[b].data)
  BY <1>3, <1>4, <1>6
<1> HIDE DEF B, d
<1>8. Linked' = N
  BY <1>1, <1>6 DEF Linked
<1>9. Shape'
  <2>1. p' \in PType' /\ c' \in CType'
    BY <1>1, <1>6, LocalFacts DEF PType, CType, Construct
  <2>2. \A b \in 1..N : /\ blocks[b].front \in 0..(blocks[b].size - 1)
                        /\ blocks[b].tail \in 0..(blocks[b].size - 1)
    BY <1>1 DEF Shape
  <2> QED
    BY <1>1, <1>6, <1>7, <2>1, <2>2, StoreShape
<1>10. ConsumerAt'
  <2>1. frontBlock \in 1..N
    BY <1>1 DEF Shape
  <2>2. \A b \in 1..N : Empty(b)' <=> Empty(b)
    BY <1>7 DEF Empty
  <2> QED
    BY <1>1, <1>6, <1>7, <2>1, <2>2 DEF IInv, ConsumerAt
<1>11. LiveInv'
  <2>1. \A b \in 1..N : \A i : InUse(b, i)' <=> InUse(b, i)
    BY <1>7 DEF InUse
  <2>2. p.slot \in 0..(blocks[p.blk].size - 1)
    BY <1>1, <1>2, BlockFacts
  <2>3. \A s \in live' : \E b \in 1..N : \E i \in 0..(blocks[b].size - 1) : s = <<b, i>>
    BY <1>1, <1>2, <2>2 DEF IInv, LiveInv
  <2>4. ASSUME NEW b \in 1..N, NEW i \in 0..(blocks[b].size - 1)
        PROVE  <<b, i>> \in live' <=>
                 \/ InUse(b, i) /\ ~(c.pc = "release" /\ b = c.blk /\ i = c.slot)
                 \/ b = p.blk /\ i = p.slot
    BY <1>1 DEF IInv, LiveInv
  <2> QED
    BY <1>1, <1>6, <1>7, <2>1, <2>3, <2>4 DEF LiveInv
<1>12. PICK pos \in [1..Linked -> 0..(Linked - 1)] : RingAt(pos)
  BY DEF IInv
<1>13. RingAt(pos)'
  <2>1. \A b \in 1..N : (Empty(b)' <=> Empty(b)) /\ (Room(b)' <=> Room(b))
    BY <1>7 DEF Empty, Room, Succ
  <2>2. Ordered(pos)'
    BY <1>1, <1>2, <1>7, <1>8, <1>12, StoreOrdered DEF RingAt
  <2>3. Filled(pos)'
    BY <1>1, <1>2, <1>8, <1>12, <2>1 DEF RingAt, Filled
  <2>4. ProducerAt(pos)'
    BY <1>1, <1>2, <1>7, <1>8, <1>12, <2>1 DEF RingAt, ProducerAt
  <2> QED
    BY <2>2, <2>3, <2>4 DEF RingAt
<1> QED
  BY <1>2, <1>8, <1>9, <1>10, <1>11, <1>12, <1>13 DEF IInv

LEMMA SuccFacts ==
  ASSUME Shape, NEW b \in 1..N, NEW i \in 0..(blocks[b].size - 1)
  PROVE  /\ After(b, i) = Succ(b, i) /\ Succ(b, i) \in 0..(blocks[b].size - 1)
         /\ Succ(b, i) \in Nat /\ Succ(b, i) # i
         /\ \A j \in 0..(blocks[b].size - 1) : Succ(b, i) = Succ(b, j) => i = j
<1>1. blocks[b].size \in Nat \ {0} /\ blocks[b].size >= 2
  BY BlockFacts
<1>2. After(b, i) = Succ(b, i)
  BY <1>1, AfterIsSucc
<1> QED
  BY <1>1, <1>2 DEF Succ

(* Where the indices in use begin and end.                                 *)
LEMMA InUseMoves ==
  ASSUME NEW n \in Nat, n >= 2, NEW f \in 0..(n - 1), NEW t \in 0..(n - 1), NEW i \in 0..(n - 1)
  PROVE  LET S(x) == IF x + 1 = n THEN 0 ELSE x + 1
             In(g, u) == IF g <= u THEN g <= i /\ i < u ELSE g <= i \/ i < u
         IN /\ S(t) # f => (In(f, S(t)) <=> In(f, t) \/ i = t)
            /\ f # t => (In(S(f), t) <=> In(f, t) /\ i # f)
  OBVIOUS

LEMMA PublishInv == IInv /\ Publish => IInv'
<1> SUFFICES ASSUME IInv, Publish PROVE IInv'
  OBVIOUS
<1>1. /\ p.pc = "publish" /\ freed = {} /\ Shape /\ sent \in Nat /\ p \in PType
      /\ UNCHANGED <<live, frontBlock, tailBlock, largest, c, freed>>
      /\ (p.blk = tailBlock => p' = NotIn /\ sent' = sent + 1)
      /\ (p.blk # tailBlock => p' = [p EXCEPT !.pc = "advance"] /\ sent' = sent)
  BY LocalFacts DEF Publish
<1>2. p.blk \in 1..N /\ p.slot = blocks[p.blk].tail /\ Room(p.blk) /\ Linked = N
  BY <1>1, ProducerSlot
<1> DEFINE B == p.blk
           v == Succ(B, blocks[B].tail)
           r == [blocks[B] EXCEPT !.tail = v]
<1>3. /\ blocks[B].tail \in 0..(blocks[B].size - 1) /\ blocks[B].size \in Nat
      /\ After(B, p.slot) = v /\ v \in Nat /\ v \in 0..(blocks[B].size - 1)
      /\ v # blocks[B].front /\ v # blocks[B].tail /\ blocks[B] \in BlockRec
  BY <1>1, <1>2, BlockFacts, SuccFacts DEF Room
<1> HIDE DEF v
<1>4. /\ r \in BlockRec /\ r.front = blocks[B].front /\ r.tail = v
      /\ r.next = blocks[B].next /\ r.size = blocks[B].size /\ r.data = blocks[B].data
  BY <1>3 DEF BlockRec
<1>5. blocks' = [blocks EXCEPT ![B] = r]
  BY <1>3 DEF Publish
<1> HIDE DEF r
<1>6. /\ N' = N /\ blocks' \in [1..N -> BlockRec]
      /\ \A b \in 1..N : b # B => blocks'[b] = blocks[b]
      /\ blocks'[B] = r
  BY <1>1, <1>2, <1>4, <1>5, ReplaceBlock
<1>7. \A b \in 1..N : /\ blocks'[b].front = blocks[b].front
                      /\ blocks'[b].tail = IF b = B THEN v ELSE blocks[b].tail
                      /\ blocks'[b].next = blocks[b].next /\ blocks'[b].size = blocks[b].size
                      /\ blocks'[b].data = blocks[b].data
  BY <1>4, <1>6
<1>8. Linked' = N /\ p'.pc \notin {"publish", "construct", "link", "reuse"}
  BY <1>1, <1>6 DEF Linked, NotIn, PType
<1> HIDE DEF B
<1>9. Shape'
  <2>1. p' \in PType'
    <3>1. CASE p.blk = tailBlock
      BY <1>1, <1>6, <3>1, LocalFacts DEF PType, NotIn
    <3>2. CASE p.blk # tailBlock
      BY <1>1, <1>6, <3>2, LocalFacts DEF PType
    <3> QED
      BY <3>1, <3>2
  <2>2. c' \in CType'
    BY <1>1, <1>6, LocalFacts DEF CType
  <2>3. \A b \in 1..N : /\ blocks'[b].front \in 0..(blocks[b].size - 1)
                        /\ blocks'[b].tail \in 0..(blocks[b].size - 1)
    BY <1>1, <1>3, <1>7 DEF Shape
  <2> QED
    BY <1>1, <1>6, <1>7, <2>1, <2>2, <2>3, StoreShape
<1>10. PICK pos \in [1..Linked -> 0..(Linked - 1)] : RingAt(pos)
  BY DEF IInv
<1>11. /\ tailBlock # frontBlock => B # frontBlock
       /\ B # tailBlock => pos[B] = pos[tailBlock] + 1
       /\ pos[tailBlock] \in Int /\ pos[tailBlock] >= 0
  <2>1. Ordered(pos) /\ ProducerAt(pos)
    BY <1>10 DEF RingAt
  <2>2. pos[frontBlock] = 0 /\ pos[tailBlock] \in Int /\ pos[tailBlock] >= 0
    BY <1>1, <2>1, LinkedFacts
  <2>3. B = tailBlock \/ pos[B] = pos[tailBlock] + 1
    BY <1>1, <2>1 DEF ProducerAt, B
  <2> QED
    BY <2>2, <2>3
<1>12. \A b \in 1..N : /\ b # B => (Empty(b)' <=> Empty(b))
                       /\ b = B => ~Empty(b)'
  BY <1>3, <1>7 DEF Empty
<1>13. ConsumerAt'
  <2>1. frontBlock \in 1..N
    BY <1>1 DEF Shape
  <2> QED
    BY <1>1, <1>6, <1>7, <1>11, <1>12, <2>1 DEF IInv, ConsumerAt
<1>14. LiveInv'
  <2>1. \A s \in live' : \E b \in 1..N : \E i \in 0..(blocks'[b].size - 1) : s = <<b, i>>
    BY <1>1, <1>7 DEF IInv, LiveInv
  <2>2. ASSUME NEW b \in 1..N, NEW i \in 0..(blocks[b].size - 1)
        PROVE  <<b, i>> \in live <=>
                 InUse(b, i)' /\ ~(c.pc = "release" /\ b = c.blk /\ i = c.slot)
    <3>1. <<b, i>> \in live <=>
            \/ InUse(b, i) /\ ~(c.pc = "release" /\ b = c.blk /\ i = c.slot)
            \/ b = B /\ i = blocks[B].tail
      BY <1>1, <1>2 DEF IInv, LiveInv, B
    <3>2. CASE b # B
      BY <1>7, <3>1, <3>2 DEF InUse
    <3>3. CASE b = B
      <4>1. /\ blocks[b].size \in Nat /\ blocks[b].size >= 2
            /\ blocks[b].front \in 0..(blocks[b].size - 1)
            /\ blocks[b].tail \in 0..(blocks[b].size - 1)
        BY <1>1, BlockFacts
      <4>2. InUse(b, i)' <=> InUse(b, i) \/ i = blocks[b].tail
        <5>1. /\ blocks'[b].front = blocks[b].front /\ blocks'[b].tail = v
              /\ v = (IF blocks[b].tail + 1 = blocks[b].size THEN 0 ELSE blocks[b].tail + 1)
              /\ v # blocks[b].front
          BY <1>3, <1>7, <3>3 DEF v, Succ
        <5> QED
          BY <4>1, <5>1, InUseMoves, SMTT(30) DEF InUse
      <4>3. c.pc = "release" /\ b = c.blk => c.slot # blocks[b].tail
        BY DEF IInv, ConsumerAt, Empty
      <4> QED
        BY <3>1, <3>3, <4>2, <4>3
    <3> QED
      BY <3>2, <3>3
  <2> QED
    BY <1>1, <1>6, <1>7, <1>8, <2>1, <2>2 DEF LiveInv
<1>15. RingAt(pos)'
  <2>1. Ordered(pos)'
    BY <1>1, <1>2, <1>7, <1>8, <1>10, StoreOrdered DEF RingAt
  <2>2. Filled(pos)'
    <3> SUFFICES ASSUME NEW b \in 1..N
                 PROVE  /\ 0 < pos[b] /\ pos[b] <= pos[tailBlock] => ~Empty(b)'
                        /\ pos[b] > pos[tailBlock] =>
                             Empty(b)' \/ (p'.pc = "advance" /\ b = p'.blk)
      BY <1>1, <1>8 DEF Filled
    <3>1. CASE b = B
      <4>1. B # tailBlock => p'.pc = "advance" /\ p'.blk = B
        BY <1>1 DEF PType, B
      <4> QED
        BY <1>11, <1>12, <3>1, <4>1
    <3>2. CASE b # B
      BY <1>1, <1>2, <1>10, <1>12, <3>2 DEF RingAt, Filled
    <3> QED
      BY <3>1, <3>2
  <2>3. ProducerAt(pos)'
    <3>1. p'.pc = "advance" => p'.blk = B /\ B # tailBlock
      BY <1>1 DEF PType, B, NotIn
    <3> QED
      BY <1>1, <1>2, <1>8, <1>11, <1>12, <3>1 DEF ProducerAt, B
  <2> QED
    BY <2>1, <2>2, <2>3 DEF RingAt
<1> QED
  BY <1>2, <1>8, <1>9, <1>10, <1>13, <1>14, <1>15 DEF IInv

LEMMA ReleaseInv == IInv /\ Release => IInv'
<1> SUFFICES ASSUME IInv, Release PROVE IInv'
  OBVIOUS
<1>1. /\ c.pc = "release" /\ freed = {} /\ Shape /\ sent \in Nat
      /\ c' = NotOut /\ c'.pc = "idle"
      /\ UNCHANGED <<live, frontBlock, tailBlock, largest, p, sent, freed>>
  BY LocalFacts DEF Release, NotOut, Out
<1>2. /\ c.blk \in 1..N /\ c.slot = blocks[c.blk].front /\ ~Empty(c.blk) /\ c.blk = frontBlock
  BY <1>1 DEF IInv, ConsumerAt
<1> DEFINE B == c.blk
           v == Succ(B, blocks[B].front)
           r == [blocks[B] EXCEPT !.front = v]
<1>3. /\ blocks[B].front \in 0..(blocks[B].size - 1) /\ blocks[B].size \in Nat
      /\ After(B, c.slot) = v /\ v \in Nat /\ v \in 0..(blocks[B].size - 1)
      /\ blocks[B].front # blocks[B].tail /\ blocks[B] \in BlockRec
  BY <1>1, <1>2, BlockFacts, SuccFacts DEF Empty
<1> HIDE DEF v
<1>4. /\ r \in BlockRec /\ r.front = v /\ r.tail = blocks[B].tail
      /\ r.next = blocks[B].next /\ r.size = blocks[B].size /\ r.data = blocks[B].data
  BY <1>3 DEF BlockRec
<1>5. blocks' = [blocks EXCEPT ![B] = r]
  BY <1>3 DEF Release
<1> HIDE DEF r
<1>6. /\ N' = N /\ blocks' \in [1..N -> BlockRec]
      /\ \A b \in 1..N : b # B => blocks'[b] = blocks[b]
      /\ blocks'[B] = r
  BY <1>1, <1>2, <1>4, <1>5, ReplaceBlock
<1>7. \A b \in 1..N : /\ blocks'[b].front = IF b = B THEN v ELSE blocks[b].front
                      /\ blocks'[b].tail = blocks[b].tail
                      /\ blocks'[b].next = blocks[b].next /\ blocks'[b].size = blocks[b].size
                      /\ blocks'[b].data = blocks[b].data
  BY <1>4, <1>6
<1>8. Linked' = Linked
  BY <1>1, <1>6 DEF Linked
<1>9. Shape'
  <2>1. p' \in PType' /\ c' \in CType'
    BY <1>1, <1>6, LocalFacts DEF PType, CType, NotOut, Out
  <2>2. \A b \in 1..N : /\ blocks'[b].front \in 0..(blocks[b].size - 1)
                        /\ blocks'[b].tail \in 0..(blocks[b].size - 1)
    BY <1>1, <1>3, <1>7 DEF Shape
  <2> QED
    BY <1>1, <1>6, <1>7, <2>1, <2>2, StoreShape
<1>10. ConsumerAt'
  BY <1>1 DEF ConsumerAt
<1>11. LiveInv'
  <2>1. \A s \in live' : \E b \in 1..N : \E i \in 0..(blocks'[b].size - 1) : s = <<b, i>>
    BY <1>1, <1>7 DEF IInv, LiveInv
  <2>2. ASSUME NEW b \in 1..N, NEW i \in 0..(blocks[b].size - 1)
        PROVE  <<b, i>> \in live <=>
                 InUse(b, i)' \/ (p.pc = "publish" /\ b = p.blk /\ i = p.slot)
    <3>1. <<b, i>> \in live <=>
            \/ InUse(b, i) /\ ~(b = B /\ i = blocks[B].front)
            \/ p.pc = "publish" /\ b = p.blk /\ i = p.slot
      BY <1>1, <1>2 DEF IInv, LiveInv
    <3>2. CASE b # B
      BY <1>7, <3>1, <3>2 DEF InUse
    <3>3. CASE b = B
      <4>1. /\ blocks[b].size \in Nat /\ blocks[b].size >= 2
            /\ blocks[b].front \in 0..(blocks[b].size - 1)
            /\ blocks[b].tail \in 0..(blocks[b].size - 1)
        BY <1>1, BlockFacts
      <4>2. InUse(b, i)' <=> InUse(b, i) /\ i # blocks[b].front
        <5>1. /\ blocks'[b].tail = blocks[b].tail /\ blocks'[b].front = v
              /\ v = (IF blocks[b].front + 1 = blocks[b].size THEN 0 ELSE blocks[b].front + 1)
              /\ blocks[b].front # blocks[b].tail
          BY <1>3, <1>7, <3>3 DEF v, Succ
        <5> QED
          BY <4>1, <5>1, InUseMoves, SMTT(30) DEF InUse
      <4> QED
        BY <3>1, <3>3, <4>2
    <3> QED
      BY <3>2, <3>3
  <2> QED
    BY <1>1, <1>6, <1>7, <2>1, <2>2 DEF LiveInv
<1>12. PICK pos \in [1..Linked -> 0..(Linked - 1)] : RingAt(pos)
  BY DEF IInv
<1>13. /\ pos[B] = 0 /\ B \in 1..Linked /\ tailBlock \in 1..Linked /\ N \in Nat
       /\ Linked \in 1..N
       /\ \A b \in 1..Linked : b \in 1..N /\ pos[b] \in Int /\ 0 <= pos[b]
       /\ (p.pc = "link" => N # B /\ N \in 1..N)
  <2>1. Ordered(pos)
    BY <1>12 DEF RingAt
  <2>2. p.pc = "link" => Linked = N - 1
    BY DEF Linked
  <2> QED
    BY <1>1, <1>2, <2>1, <2>2, LinkedFacts
<1>14. \A b \in 1..N : b # B => (Empty(b)' <=> Empty(b))
  BY <1>7 DEF Empty
<1>15. RingAt(pos)'
  <2>1. Ordered(pos)'
    <3>1. \A b \in 1..Linked : blocks'[b].next = blocks[b].next
      BY <1>7, <1>13
    <3> QED
      BY <1>1, <1>8, <1>12, <3>1, StoreOrdered DEF RingAt
  <2>2. Filled(pos)'
    <3> SUFFICES ASSUME NEW b \in 1..Linked
                 PROVE  /\ 0 < pos[b] /\ pos[b] <= pos[tailBlock] => ~Empty(b)'
                        /\ pos[b] > pos[tailBlock] =>
                             Empty(b)' \/ (p.pc = "advance" /\ b = p.blk)
      BY <1>1, <1>8 DEF Filled
    <3>1. CASE b = B
      BY <1>13, <3>1
    <3>2. CASE b # B
      BY <1>12, <1>13, <1>14, <3>2 DEF RingAt, Filled
    <3> QED
      BY <3>1, <3>2
  <2>3. ProducerAt(pos)'
    <3>1. ASSUME p.pc \in {"construct", "publish"}
          PROVE  p.slot = blocks'[p.blk].tail /\ Room(p.blk)'
      <4>1. p.blk \in 1..N /\ p.slot = blocks[p.blk].tail /\ Room(p.blk)
        BY <3>1, ProducerSlot
      <4>2. CASE p.blk # B
        BY <1>1, <1>7, <4>1, <4>2 DEF Room, Succ
      <4>3. CASE p.blk = B
        <5>1. Succ(B, blocks[B].tail) # Succ(B, blocks[B].front)
          BY <1>1, <1>2, <1>3, SuccFacts, BlockFacts
        <5> QED
          BY <1>1, <1>2, <1>7, <4>1, <4>3, <5>1 DEF Room, Succ, v
      <4> QED
        BY <4>2, <4>3
    <3>2. ASSUME p.pc = "advance"
          PROVE  p.blk \in 1..Linked /\ pos[p.blk] = pos[tailBlock] + 1 /\ ~Empty(p.blk)'
      <4>1. p.blk \in 1..Linked /\ pos[p.blk] = pos[tailBlock] + 1 /\ ~Empty(p.blk)
        BY <1>12, <3>2 DEF RingAt, ProducerAt
      <4>2. p.blk \in 1..N /\ p.blk # B
        BY <1>13, <4>1
      <4>3. ~Empty(p.blk)'
        BY <1>1, <1>7, <4>1, <4>2 DEF Empty
      <4> QED
        BY <4>1, <4>3
    <3>3. ASSUME p.pc = "link"
          PROVE  p.blk = N /\ blocks'[N].next = blocks'[tailBlock].next /\ ~Empty(N)'
      <4>1. p.blk = N /\ blocks[N].next = blocks[tailBlock].next /\ ~Empty(N)
        BY <1>12, <3>3 DEF RingAt, ProducerAt
      <4> QED
        BY <1>6, <1>7, <1>13, <1>14, <3>3, <4>1 DEF Empty
    <3>4. p.pc \in {"construct", "publish"} =>
             p.blk \in 1..Linked /\ (p.blk = tailBlock \/ pos[p.blk] = pos[tailBlock] + 1)
      BY <1>12 DEF RingAt, ProducerAt
    <3>5. p.pc = "reuse" => pos[tailBlock] < Linked - 1
      BY <1>12 DEF RingAt, ProducerAt
    <3> QED
      BY <1>1, <1>6, <1>8, <3>1, <3>2, <3>3, <3>4, <3>5 DEF ProducerAt, Empty
  <2> QED
    BY <2>1, <2>2, <2>3 DEF RingAt
<1> QED
  BY <1>8, <1>9, <1>10, <1>11, <1>12, <1>15 DEF IInv

LEMMA LinkInv == IInv /\ Link => IInv'
<1> SUFFICES ASSUME IInv, Link PROVE IInv'
  OBVIOUS
<1>1. /\ p.pc = "link" /\ p'.pc = "advance" /\ p'.blk = p.blk /\ p'.slot = p.slot
      /\ freed = {} /\ Shape /\ sent \in Nat /\ p \in PType
      /\ UNCHANGED <<live, frontBlock, tailBlock, largest, c, sent, freed>>
  BY LocalFacts DEF Link, PType
<1>2. PICK pos \in [1..Linked -> 0..(Linked - 1)] : RingAt(pos)
  BY DEF IInv
<1>3. /\ Ordered(pos) /\ N \in Nat /\ Linked \in Nat /\ Linked >= 1 /\ N = Linked + 1
      /\ tailBlock \in 1..Linked /\ frontBlock \in 1..Linked /\ tailBlock # N
      /\ \A b \in 1..Linked : b \in 1..N /\ b # N /\ pos[b] \in Int
      /\ \A b \in 1..N : b \in 1..Linked \/ b = N
      /\ tailBlock \in 1..N /\ N \in 1..N
  <2>1. Ordered(pos)
    BY <1>2 DEF RingAt
  <2>2. Linked = N - 1
    BY <1>1 DEF Linked
  <2>3. /\ N \in Nat /\ Linked \in 1..N /\ tailBlock \in 1..Linked /\ frontBlock \in 1..Linked
        /\ \A b \in 1..Linked : b \in 1..N /\ pos[b] \in Int
    BY <1>1, <2>1, LinkedFacts
  <2>4. /\ Linked \in Nat /\ Linked >= 1 /\ N = Linked + 1 /\ N \in 1..N
        /\ \A b \in 1..Linked : b # N
        /\ \A b \in 1..N : b \in 1..Linked \/ b = N
    BY <2>2, <2>3
  <2> QED
    BY <2>1, <2>3, <2>4
<1>4. p.blk = N /\ blocks[N].next = blocks[tailBlock].next /\ ~Empty(N)
  BY <1>1, <1>2 DEF RingAt, ProducerAt
<1> DEFINE r == [blocks[tailBlock] EXCEPT !.next = N]
<1>5. blocks[tailBlock] \in BlockRec
  BY <1>1, <1>3, BlockFacts
<1>6. /\ r \in BlockRec /\ r.front = blocks[tailBlock].front /\ r.tail = blocks[tailBlock].tail
      /\ r.next = N /\ r.size = blocks[tailBlock].size /\ r.data = blocks[tailBlock].data
  BY <1>3, <1>5 DEF BlockRec
<1>7. blocks' = [blocks EXCEPT ![tailBlock] = r]
  BY <1>4 DEF Link
<1> HIDE DEF r
<1>8. /\ N' = N /\ blocks' \in [1..N -> BlockRec] /\ blocks'[tailBlock] = r
      /\ \A b \in 1..N : b # tailBlock => blocks'[b] = blocks[b]
  BY <1>1, <1>3, <1>6, <1>7, ReplaceBlock
<1>9. \A b \in 1..N : /\ blocks'[b].front = blocks[b].front /\ blocks'[b].tail = blocks[b].tail
                      /\ blocks'[b].next = IF b = tailBlock THEN N ELSE blocks[b].next
                      /\ blocks'[b].size = blocks[b].size /\ blocks'[b].data = blocks[b].data
  BY <1>6, <1>8
<1>10. Linked' = Linked + 1
  BY <1>1, <1>3, <1>8 DEF Linked
<1>11. Shape'
  <2>1. p' \in PType' /\ c' \in CType'
    BY <1>1, <1>8, LocalFacts DEF PType, CType, Link
  <2>2. \A b \in 1..N : /\ blocks'[b].front \in 0..(blocks[b].size - 1)
                        /\ blocks'[b].tail \in 0..(blocks[b].size - 1)
    BY <1>1, <1>9 DEF Shape
  <2> QED
    BY <1>1, <1>8, <1>9, <2>1, <2>2, StoreShape
<1>12. \A b \in 1..N : Empty(b)' <=> Empty(b)
  BY <1>9 DEF Empty
<1>13. ConsumerAt'
  <2>1. c.pc = "move" => frontBlock # tailBlock
    BY DEF IInv, ConsumerAt
  <2>2. frontBlock \in 1..N
    BY <1>3
  <2> QED
    BY <1>1, <1>8, <1>9, <1>12, <2>1, <2>2 DEF IInv, ConsumerAt
<1>14. LiveInv'
  <2>1. \A b \in 1..N : \A i : InUse(b, i)' <=> InUse(b, i)
    BY <1>9 DEF InUse
  <2> QED
    BY <1>1, <1>8, <1>9, <2>1 DEF IInv, LiveInv
<1>15. PICK new : /\ Shifts(new, pos, Linked, tailBlock)
                  /\ IsRing(new, Linked + 1, frontBlock, NextOf')
  <2>1. \A b \in 1..N : NextOf'[b] = blocks'[b].next
    BY <1>3, <1>10 DEF NextOf
  <2>2. \A b \in 1..Linked : NextOf[b] = blocks[b].next
    BY DEF NextOf
  <2>3. /\ \A b \in 1..Linked : b # tailBlock => NextOf'[b] = NextOf[b]
        /\ NextOf'[tailBlock] = Linked + 1 /\ NextOf'[Linked + 1] = NextOf[tailBlock]
    <3>1. ASSUME NEW b \in 1..Linked, b # tailBlock PROVE NextOf'[b] = NextOf[b]
      <4>1. b \in 1..N /\ NextOf[b] = blocks[b].next
        BY <1>3, <2>2
      <4> QED
        BY <1>9, <2>1, <3>1, <4>1
    <3>2. NextOf'[tailBlock] = N /\ N = Linked + 1
      BY <1>3, <1>9, <2>1
    <3>3. NextOf'[N] = NextOf[tailBlock]
      BY <1>3, <1>4, <1>9, <2>1, <2>2
    <3> QED
      BY <3>1, <3>2, <3>3
  <2>4. IsRing(pos, Linked, frontBlock, NextOf)
    BY <1>3, OrderedIsRing
  <2> QED
    <3>1. Inserts(NextOf', NextOf, Linked, tailBlock)
      BY <2>3 DEF Inserts
    <3>2. Linked \in Nat /\ Linked >= 1 /\ tailBlock \in 1..Linked
      BY <1>3
    <3> QED
      BY <2>4, <3>1, <3>2, RingGrows
<1>16. /\ new[tailBlock] = pos[tailBlock] /\ new[N] = pos[tailBlock] + 1
       /\ new \in [1..Linked' -> 0..(Linked' - 1)]
       /\ \A b \in 1..Linked : new[b] = IF pos[b] <= pos[tailBlock] THEN pos[b] ELSE pos[b] + 1
  BY <1>3, <1>10, <1>15, SMTT(30) DEF Shifts
<1>17. RingAt(new)'
  <2>1. Ordered(new)'
    <3>1. \A b \in 1..Linked' : NextOf'[b] = blocks'[b].next
      BY DEF NextOf
    <3>2. IsRing(new, Linked', frontBlock', NextOf') /\ tailBlock' \in 1..Linked'
      BY <1>1, <1>3, <1>10, <1>15
    <3> QED
      BY <3>1, <3>2 DEF Ordered, IsRing
  <2>2. Filled(new)'
    <3> SUFFICES ASSUME NEW b \in 1..N
                 PROVE  /\ 0 < new[b] /\ new[b] <= new[tailBlock] => ~Empty(b)
                        /\ new[b] > new[tailBlock] => Empty(b) \/ b = N
      BY <1>1, <1>3, <1>4, <1>10, <1>12 DEF Filled
    <3>1. CASE b = N
      BY <1>3, <1>16, <3>1
    <3>2. CASE b \in 1..Linked
      <4>1. /\ 0 < pos[b] /\ pos[b] <= pos[tailBlock] => ~Empty(b)
            /\ pos[b] > pos[tailBlock] => Empty(b)
        BY <1>1, <1>2, <3>2 DEF RingAt, Filled
      <4>2. /\ pos[b] \in Int /\ pos[tailBlock] \in Int
            /\ new[b] = IF pos[b] <= pos[tailBlock] THEN pos[b] ELSE pos[b] + 1
        BY <1>3, <1>16, <3>2
      <4> QED
        BY <1>16, <4>1, <4>2
    <3> QED
      BY <1>3, <3>1, <3>2
  <2>3. ProducerAt(new)'
    <3>1. ~Empty(p.blk)' /\ p'.blk \in 1..Linked'
      BY <1>1, <1>3, <1>4, <1>9, <1>10 DEF Empty
    <3> QED
      BY <1>1, <1>4, <1>16, <3>1 DEF ProducerAt
  <2> QED
    BY <2>1, <2>2, <2>3 DEF RingAt
<1> QED
  BY <1>11, <1>13, <1>14, <1>16, <1>17 DEF IInv

LEMMA AllocInv == IInv /\ Alloc => IInv'
<1> SUFFICES ASSUME IInv, Alloc PROVE IInv'
  OBVIOUS
<1> DEFINE next == blocks[tailBlock].next
           B == Block(2 * largest, 1, next, sent + 1)
<1>1. /\ p.pc = "alloc" /\ p'.pc = "link" /\ p'.blk = N + 1 /\ p'.slot = p.slot
      /\ freed = {} /\ Shape /\ sent \in Nat /\ p \in PType /\ c \in CType
      /\ N < MaxBlocks /\ largest' = 2 * largest /\ blocks' = Append(blocks, B)
      /\ live' = live \cup {<<N + 1, 0>>}
      /\ UNCHANGED <<frontBlock, tailBlock, c, sent, freed>>
  BY LocalFacts DEF Alloc, PType, N
<1>2. PICK pos \in [1..Linked -> 0..(Linked - 1)] : RingAt(pos)
  BY DEF IInv
<1>3. /\ Ordered(pos) /\ N \in Nat /\ N >= 1 /\ Linked = N /\ tailBlock \in 1..N
      /\ frontBlock \in 1..N /\ next \in 1..N /\ next \in Nat
      /\ largest \in Nat /\ largest >= 2 /\ largest = blocks[N].size
  <2>1. Ordered(pos)
    BY <1>2 DEF RingAt
  <2>2. /\ N \in Nat /\ N >= 1 /\ Linked = N /\ tailBlock \in 1..N /\ frontBlock \in 1..N
        /\ next \in 1..N
    BY <1>1, <2>1, LinkedFacts
  <2>3. largest = blocks[N].size /\ N \in 1..N
    BY <1>1, <2>2 DEF Shape
  <2> QED
    BY <1>1, <2>1, <2>2, <2>3, BlockFacts
<1> HIDE DEF next
<1>4. /\ B \in BlockRec /\ B.front = 0 /\ B.tail = 1 /\ B.next = next /\ B.size = 2 * largest
      /\ Len(B.data) = 2 * largest
  <2> DEFINE n == 2 * largest
             d == [i \in 1..n |-> IF i = 1 THEN sent + 1 ELSE 0]
  <2>1. n \in Nat
    BY <1>3
  <2>2. d \in Seq(Nat) /\ Len(d) = n
    <3> HIDE DEF n
    <3> QED
      BY <1>1, <2>1
  <2>3. B = [front |-> 0, tail |-> 1, next |-> next, size |-> n, data |-> d]
    BY DEF Block
  <2> HIDE DEF B, d
  <2> QED
    BY <1>3, <2>1, <2>2, <2>3 DEF BlockRec
<1> HIDE DEF B
<1>5. /\ N' = N + 1 /\ blocks' \in [1..N' -> BlockRec] /\ blocks'[N + 1] = B
      /\ \A b \in 1..N : blocks'[b] = blocks[b]
  <2>1. blocks \in Seq(BlockRec) /\ N = Len(blocks)
    BY <1>1, BlocksAreSeq DEF N
  <2>2. /\ blocks' \in Seq(BlockRec) /\ Len(blocks') = N + 1
        /\ \A i \in 1..N : blocks'[i] = blocks[i]
        /\ blocks'[N + 1] = B
    BY <1>1, <1>4, <2>1, AppendProperties
  <2>3. N' = N + 1
    BY <2>2 DEF N
  <2> QED
    BY <2>2, <2>3
<1>6. /\ Linked' = N /\ N + 1 \in Nat /\ N + 1 \in 1..(N + 1) /\ 1..N \subseteq 1..(N + 1)
      /\ \A b \in 1..(N + 1) : b \in 1..N \/ b = N + 1
  BY <1>1, <1>3, <1>5 DEF Linked
<1>7. Shape'
  <2>1. p' \in PType'
    <3>1. p' = [p EXCEPT !.pc = "link", !.blk = N + 1] /\ N + 1 \in 0..N' /\ p \in PType
      BY <1>1, <1>3, <1>5 DEF Alloc, N
    <3> QED
      BY <3>1 DEF PType
  <2>2. c' \in CType'
    <3>1. c' = c /\ 0..N \subseteq 0..N' /\ c \in CType
      BY <1>1, <1>3, <1>5
    <3> QED
      BY <3>1 DEF CType
  <2>3. N' \in 1..MaxBlocks
    BY <1>1, <1>3, <1>5, QueueAssumption
  <2>4. ASSUME NEW b \in 1..N'
        PROVE  /\ blocks'[b].size >= 2
               /\ blocks'[b].front \in 0..(blocks'[b].size - 1)
               /\ blocks'[b].tail \in 0..(blocks'[b].size - 1)
               /\ b > 1 => blocks'[b].size = 2 * blocks'[b - 1].size
               /\ Len(blocks'[b].data) = blocks'[b].size
    <3>1. CASE b = N + 1
      <4>1. b - 1 = N /\ N \in 1..N
        BY <1>3, <3>1
      <4>2. blocks'[N] = blocks[N] /\ blocks'[b] = B
        BY <1>5, <3>1, <4>1
      <4>3. /\ blocks'[b].size = 2 * largest /\ blocks'[b].front = 0 /\ blocks'[b].tail = 1
            /\ Len(blocks'[b].data) = 2 * largest /\ blocks'[b - 1].size = largest
        BY <1>3, <1>4, <4>1, <4>2
      <4>4. largest \in Nat /\ largest >= 2
        BY <1>3
      <4> QED
        BY <4>3, <4>4
    <3>2. CASE b \in 1..N
      <4>1. blocks'[b] = blocks[b] /\ (b > 1 => blocks'[b - 1] = blocks[b - 1])
        BY <1>3, <1>5, <3>2
      <4> QED
        BY <1>1, <3>2, <4>1 DEF Shape
    <3> QED
      BY <1>5, <1>6, <3>1, <3>2
  <2>5. largest' = blocks'[N'].size
    BY <1>1, <1>4, <1>5
  <2>6. frontBlock' \in 1..N' /\ tailBlock' \in 1..N' /\ sent' \in Nat
    BY <1>1, <1>3, <1>5, <1>6
  <2> QED
    BY <1>1, <1>5, <2>1, <2>2, <2>3, <2>4, <2>5, <2>6 DEF Shape
<1>8. \A b \in 1..N : Empty(b)' <=> Empty(b)
  BY <1>5 DEF Empty
<1>9. ConsumerAt'
  BY <1>1, <1>3, <1>5, <1>6, <1>8 DEF IInv, ConsumerAt
<1>10. LiveInv'
  <2>1. /\ \A s \in live : \E b \in 1..N : \E i \in 0..(blocks[b].size - 1) : s = <<b, i>>
        /\ \A b \in 1..N : \A i \in 0..(blocks[b].size - 1) :
             <<b, i>> \in live <=> InUse(b, i) /\ ~(c.pc = "release" /\ b = c.blk /\ i = c.slot)
    BY <1>1 DEF IInv, LiveInv
  <2>2. ASSUME NEW s \in live'
        PROVE  \E b \in 1..N' : \E i \in 0..(blocks'[b].size - 1) : s = <<b, i>>
    <3>1. CASE s = <<N + 1, 0>>
      <4>1. 0 \in 0..(blocks'[N + 1].size - 1)
        BY <1>3, <1>4, <1>5
      <4> QED
        BY <1>5, <1>6, <3>1, <4>1
    <3>2. CASE s \in live
      BY <1>5, <1>6, <2>1, <3>2
    <3> QED
      BY <1>1, <3>1, <3>2
  <2>3. ASSUME NEW b \in 1..N', NEW i \in 0..(blocks'[b].size - 1)
        PROVE  <<b, i>> \in live' <=>
                 InUse(b, i)' /\ ~(c.pc = "release" /\ b = c.blk /\ i = c.slot)
    <3>1. CASE b = N + 1
      <4>1. <<b, i>> \notin live
        BY <1>3, <2>1, <3>1
      <4>2. c.pc = "release" => c.blk \in 1..N
        BY DEF IInv, ConsumerAt
      <4>3. InUse(b, i)' <=> i = 0
        BY <1>3, <1>4, <1>5, <3>1, SMTT(30) DEF InUse
      <4>4. c.pc = "release" => b # c.blk
        BY <1>3, <3>1, <4>2
      <4> QED
        BY <1>1, <3>1, <4>1, <4>3, <4>4
    <3>2. CASE b \in 1..N
      <4>1. InUse(b, i)' <=> InUse(b, i)
        BY <1>5, <3>2 DEF InUse
      <4>2. i \in 0..(blocks[b].size - 1) /\ <<b, i>> # <<N + 1, 0>>
        BY <1>3, <1>5, <3>2
      <4> QED
        BY <1>1, <2>1, <3>2, <4>1, <4>2
    <3> QED
      BY <1>5, <1>6, <3>1, <3>2
  <2> QED
    BY <1>1, <2>2, <2>3 DEF LiveInv
<1>11. RingAt(pos)'
  <2>1. Ordered(pos)'
    BY <1>1, <1>3, <1>5, <1>6, StoreOrdered
  <2>2. Filled(pos)'
    BY <1>1, <1>2, <1>3, <1>6, <1>8 DEF RingAt, Filled
  <2>3. ProducerAt(pos)'
    <3>1. ~Empty(N)' /\ blocks'[N'].next = blocks'[tailBlock].next
      BY <1>3, <1>4, <1>5, SMTT(30) DEF Empty, next
    <3> QED
      BY <1>1, <1>5, <3>1 DEF ProducerAt
  <2> QED
    BY <2>1, <2>2, <2>3 DEF RingAt
<1> QED
  BY <1>2, <1>3, <1>6, <1>7, <1>9, <1>10, <1>11 DEF IInv

-----------------------------------------------------------------------------
(* Every step keeps the invariant.                                         *)

LEMMA NextInv == IInv /\ [Next]_vars => IInv'
<1> SUFFICES ASSUME IInv, [Next]_vars PROVE IInv'
  OBVIOUS
<1>1. CASE Producer
  BY <1>1, LoadTailBlockInv, ConstructInv, PublishInv, CheckNextInv, ReuseNextInv, AllocInv,
     AllocFailsInv, LinkInv, AdvanceTailInv DEF Producer
<1>2. CASE Consumer
  BY <1>2, RememberTailInv, LoadFrontBlockInv, CompareTailInv, LoadNextInv, MoveFrontInv,
     TakeInv, ReleaseInv DEF Consumer
<1>3. ASSUME NEW t \in DOMAIN size, Sizing(t) PROVE IInv'
  <2>1. UNCHANGED <<blocks, live, frontBlock, tailBlock, largest, p, c, sent, freed>>
    BY <1>3 DEF Sizing, SizeBegin, SizeFront, SizeTail, SizeNext
  <2> QED
    BY <2>1, SameQueue
<1>4. CASE Destroy
  BY <1>4, DestroyInv
<1>5. CASE UNCHANGED vars
  <2>1. UNCHANGED <<blocks, live, frontBlock, tailBlock, largest, p, c, sent, freed>>
    BY <1>5 DEF vars
  <2> QED
    BY <2>1, SameQueue
<1> QED
  BY <1>1, <1>2, <1>3, <1>4, <1>5 DEF Next

LEMMA Invariant == Spec => []IInv
<1>1. Init => IInv
  BY InitInv
<1>2. IInv /\ [Next]_vars => IInv'
  BY NextInv
<1> QED
  BY <1>1, <1>2, PTL DEF Spec

(* TypeOK: every index stays inside its block, every pointer names a       *)
(* block, and each block has twice the size of the one before, for every   *)
(* maxSize and however often malloc gives a block.                         *)
THEOREM TypeCorrect == Spec => []TypeOK
<1>1. IInv => TypeOK
  <2> SUFFICES ASSUME IInv PROVE TypeOK
    OBVIOUS
  <2>1. Shape /\ p \in PType /\ c \in CType /\ N \in Nat
    BY LocalFacts
  <2>2. DOMAIN blocks = 1..N /\ N = Len(blocks)
    BY <2>1, BlocksAreSeq DEF N
  <2>3. \A b \in 1..N : blocks[b].next \in 1..N
    <3>1. PICK pos \in [1..Linked -> 0..(Linked - 1)] : RingAt(pos)
      BY DEF IInv
    <3>2. Ordered(pos)
      BY <3>1 DEF RingAt
    <3>3. /\ \A b \in 1..Linked : blocks[b].next \in 1..Linked
          /\ tailBlock \in 1..Linked /\ Linked \in 1..N
      BY <2>1, <3>2, LinkedFacts
    <3>4. \A b \in 1..N : b \in 1..Linked \/ (p.pc = "link" /\ b = N)
      BY <2>1, <3>3 DEF Linked
    <3>5. p.pc = "link" => blocks[N].next = blocks[tailBlock].next
      BY <3>1 DEF RingAt, ProducerAt
    <3>6. 1..Linked \subseteq 1..N
      BY <2>1, <3>3
    <3> QED
      BY <3>3, <3>4, <3>5, <3>6
  <2>4. p.blk \in 1..N \cup {0} /\ c.blk \in 1..N \cup {0}
    BY <2>1 DEF PType, CType
  <2> QED
    BY <2>1, <2>2, <2>3, <2>4 DEF TypeOK, Shape
<1> QED
  BY <1>1, Invariant, PTL

(* SlotsAreOwned: whatever the interleaving, the producer constructs an    *)
(* element only in a slot where none lives and the consumer reads and      *)
(* destroys one only where one lives: they never meet in a slot.           *)
THEOREM SlotsHaveOneOwner == Spec => []SlotsAreOwned
<1>1. IInv => SlotsAreOwned
  <2> SUFFICES ASSUME IInv PROVE SlotsAreOwned
    OBVIOUS
  <2>1. ASSUME p.pc = "construct" PROVE <<p.blk, p.slot>> \notin live
    <3>1. p.blk \in 1..N /\ p.slot = blocks[p.blk].tail /\ freed = {} /\ Shape
      BY <2>1, ProducerSlot, LocalFacts
    <3>2. /\ blocks[p.blk].tail \in 0..(blocks[p.blk].size - 1) /\ blocks[p.blk].tail \in Nat
          /\ blocks[p.blk].front \in Nat
      BY <3>1, BlockFacts
    <3>3. ~InUse(p.blk, blocks[p.blk].tail)
      BY <3>2 DEF InUse
    <3> QED
      BY <2>1, <3>1, <3>2, <3>3 DEF IInv, LiveInv
  <2>2. ASSUME c.pc = "take" PROVE <<c.blk, c.slot>> \in live
    <3>1. /\ c.blk \in 1..N /\ c.slot = blocks[c.blk].front /\ ~Empty(c.blk) /\ freed = {}
          /\ Shape
      BY <2>2, LocalFacts DEF IInv, ConsumerAt
    <3>2. /\ blocks[c.blk].front \in 0..(blocks[c.blk].size - 1) /\ blocks[c.blk].tail \in Nat
          /\ blocks[c.blk].front \in Nat
      BY <3>1, BlockFacts
    <3>3. InUse(c.blk, blocks[c.blk].front)
      BY <3>1, <3>2 DEF InUse, Empty
    <3> QED
      BY <2>2, <3>1, <3>2, <3>3 DEF IInv, LiveInv
  <2> QED
    BY <2>1, <2>2 DEF SlotsAreOwned
<1> QED
  BY <1>1, Invariant, PTL

(* AssertsHold: the asserts of inner_enqueue, try_dequeue, pop and peek    *)
(* never fail: the block that the consumer moves on to has an element, and *)
(* the block that the producer moves on to has none.                       *)
THEOREM AssertsNeverFail == Spec => []AssertsHold
<1>1. IInv => AssertsHold
  <2> SUFFICES ASSUME IInv PROVE AssertsHold
    OBVIOUS
  <2>1. ASSUME c.pc \in {"move", "take"} PROVE Used(c.blk) > 0
    <3>1. c.blk \in 1..N /\ ~Empty(c.blk) /\ Shape
      BY <2>1, LocalFacts DEF IInv, ConsumerAt
    <3>2. /\ blocks[c.blk].front \in 0..(blocks[c.blk].size - 1)
          /\ blocks[c.blk].tail \in 0..(blocks[c.blk].size - 1)
          /\ blocks[c.blk].size \in Nat \ {0}
      BY <3>1, BlockFacts
    <3>3. Used(c.blk) = IF blocks[c.blk].front <= blocks[c.blk].tail
                        THEN blocks[c.blk].tail - blocks[c.blk].front
                        ELSE blocks[c.blk].tail - blocks[c.blk].front + blocks[c.blk].size
      BY <3>2, UsedIs
    <3> QED
      BY <3>1, <3>2, <3>3 DEF Empty
  <2>2. ASSUME p.pc = "reuse" PROVE Used(blocks[tailBlock].next) = 0
    <3> DEFINE b == blocks[tailBlock].next
    <3>1. PICK pos \in [1..Linked -> 0..(Linked - 1)] : RingAt(pos)
      BY DEF IInv
    <3>2. /\ Ordered(pos) /\ Shape /\ tailBlock \in 1..Linked /\ b \in 1..N /\ b \in 1..Linked
          /\ pos[tailBlock] \in Int
      BY <3>1, LocalFacts, LinkedFacts DEF RingAt
    <3>3. pos[tailBlock] < Linked - 1
      BY <2>2, <3>1 DEF RingAt, ProducerAt
    <3>4. pos[b] = IF pos[tailBlock] = Linked - 1 THEN 0 ELSE pos[tailBlock] + 1
      BY <3>2 DEF Ordered
    <3>5. Empty(b)
      <4>1. pos[b] > pos[tailBlock]
        BY <3>2, <3>3, <3>4
      <4> QED
        BY <2>2, <3>1, <3>2, <4>1 DEF RingAt, Filled
    <3>6. /\ blocks[b].front \in 0..(blocks[b].size - 1)
          /\ blocks[b].tail \in 0..(blocks[b].size - 1)
          /\ blocks[b].size \in Nat \ {0}
      BY <3>2, BlockFacts
    <3> HIDE DEF b
    <3>7. Used(b) = IF blocks[b].front <= blocks[b].tail THEN blocks[b].tail - blocks[b].front
                    ELSE blocks[b].tail - blocks[b].front + blocks[b].size
      BY <3>6, UsedIs
    <3>8. Used(b) = 0
      BY <3>5, <3>6, <3>7 DEF Empty
    <3> QED
      BY <3>8 DEF b
  <2> QED
    BY <2>1, <2>2 DEF AssertsHold
<1> QED
  BY <1>1, Invariant, PTL

-----------------------------------------------------------------------------
(* The destructor frees everything.                                        *)

(* The loop of the destructor over one block meets every index in use.     *)
LEMMA LoopCovers ==
  ASSUME Shape, NEW b \in 1..N, NEW i \in 0..(blocks[b].size - 1), InUse(b, i)
  PROVE  \E j \in 0..(Used(b) - 1) : i = (blocks[b].front + j) % blocks[b].size
<1> DEFINE n == blocks[b].size
           f == blocks[b].front
           t == blocks[b].tail
           u == Used(b)
<1>1. n \in Nat \ {0} /\ f \in 0..(n - 1) /\ t \in 0..(n - 1)
  BY BlockFacts
<1>2. u = IF f <= t THEN t - f ELSE t - f + n
  BY <1>1, UsedIs
<1>3. IF f <= t THEN f <= i /\ i < t ELSE f <= i \/ i < t
  BY DEF InUse
<1>4. i % n = i /\ (i + n) % n = i
  BY <1>1, ModTurns
<1> HIDE DEF n, f, t, u
<1>5. i \in 0..(n - 1)
  BY DEF n
<1>6. \E j \in 0..(u - 1) : i = (f + j) % n
  <2>1. CASE f <= i
    <3>1. i - f \in 0..(u - 1) /\ f + (i - f) = i
      BY <1>1, <1>2, <1>3, <1>5, <2>1
    <3> QED
      BY <1>4, <3>1
  <2>2. CASE ~(f <= i)
    <3>1. i - f + n \in 0..(u - 1) /\ f + (i - f + n) = i + n
      BY <1>1, <1>2, <1>3, <1>5, <2>2
    <3>2. (f + (i - f + n)) % n = i
      BY <1>4, <3>1
    <3> QED
      BY <3>1, <3>2
  <2> QED
    BY <2>1, <2>2
<1> QED
  BY <1>6 DEF n, f, u

LEMMA DestroyAll == IInv /\ Destroy => freed' = 1..N /\ live' = {}
<1> SUFFICES ASSUME IInv, Destroy PROVE freed' = 1..N /\ live' = {}
  OBVIOUS
<1>1. PICK pos \in [1..Linked -> 0..(Linked - 1)] : RingAt(pos)
  BY DEF IInv
<1>2. /\ Shape /\ Ordered(pos) /\ p.pc = "idle" /\ c.pc = "idle" /\ freed = {} /\ Linked = N
  BY <1>1, LocalFacts DEF RingAt, Destroy, DestroyTo, Linked
<1>3. freed' = 1..N
  <2>1. freed' = {Ring[k] : k \in 0..(N - 1)}
    <3>1. RingLength = N
      BY <1>2, RoundIsWhole
    <3> QED
      BY <3>1 DEF Destroy, DestroyTo
  <2> QED
    BY <1>2, <2>1, RingVisitsAll
<1> DEFINE Loop(b) == {<<b, (blocks[b].front + j) % blocks[b].size>> : j \in 0..(Used(b) - 1)}
<1>4. live' = live \ UNION {Loop(b) : b \in freed'}
  BY DEF Destroy, DestroyTo
<1>5. ASSUME NEW s \in live PROVE \E b \in 1..N : s \in Loop(b)
  <2>1. PICK b \in 1..N : \E i \in 0..(blocks[b].size - 1) : s = <<b, i>>
    BY <1>2 DEF IInv, LiveInv
  <2>2. PICK i \in 0..(blocks[b].size - 1) : s = <<b, i>>
    BY <2>1
  <2>3. InUse(b, i)
    BY <1>2, <2>2 DEF IInv, LiveInv
  <2>4. \E j \in 0..(Used(b) - 1) : i = (blocks[b].front + j) % blocks[b].size
    BY <1>2, <2>3, LoopCovers
  <2>5. s \in Loop(b)
    BY <2>2, <2>4
  <2> QED
    BY <2>5
<1> HIDE DEF Loop
<1>6. live' = {}
  BY <1>3, <1>4, <1>5
<1> QED
  BY <1>3, <1>6

(* NoLeak: the destructor frees every block and destroys every element     *)
(* that is left, whatever the two threads did before, and nothing touches  *)
(* the queue afterwards.                                                   *)
THEOREM DestructorFreesAll == Spec => []NoLeak
<1>1. Init => NoLeak
  BY DEF Init, NoLeak
<1>2. IInv /\ NoLeak /\ [Next]_vars => NoLeak'
  <2> SUFFICES ASSUME IInv, NoLeak, [Next]_vars PROVE NoLeak'
    OBVIOUS
  <2>1. CASE Destroy
    <3>1. freed' = 1..N /\ live' = {} /\ blocks' = blocks
      BY <2>1, DestroyAll DEF Destroy, DestroyTo
    <3>2. DOMAIN blocks = 1..N
      BY LocalFacts, BlocksAreSeq
    <3> QED
      BY <3>1, <3>2 DEF NoLeak
  <2>2. CASE freed = {} /\ ~Destroy
    <3>1. freed' = freed
      BY <2>2 DEF Next, vars, Producer, LoadTailBlock, Construct, Publish, CheckNext, ReuseNext,
         Alloc, AllocFails, Link, AdvanceTail, Consumer, RememberTail, LoadFrontBlock,
         CompareTail, LoadNext, MoveFront, Take, Release, Sizing, SizeBegin, SizeFront,
         SizeTail, SizeNext
    <3> QED
      BY <2>2, <3>1, SMTT(30) DEF NoLeak
  <2>3. CASE freed # {} /\ ~Destroy
    <3>1. p.pc = "idle" /\ c.pc = "idle"
      BY <2>3, LocalFacts
    <3>2. ~Producer
      BY <2>3, <3>1 DEF Producer, LoadTailBlock, Construct, Publish, CheckNext, ReuseNext,
         Alloc, AllocFails, Link, AdvanceTail
    <3>3. ~Consumer
      BY <2>3, <3>1 DEF Consumer, RememberTail, LoadFrontBlock, CompareTail, LoadNext,
         MoveFront, Take, Release
    <3>4. UNCHANGED <<freed, live, blocks>>
      BY <2>3, <3>2, <3>3 DEF Next, vars, Sizing, SizeBegin, SizeFront, SizeTail, SizeNext
    <3> QED
      BY <2>3, <3>4 DEF NoLeak
  <2> QED
    BY <2>1, <2>2, <2>3
<1> QED
  BY <1>1, <1>2, Invariant, PTL DEF Spec
=============================================================================
