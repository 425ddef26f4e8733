-------------------------- MODULE QueueFifoProofs --------------------------
(***************************************************************************)
(* ReaderWriterQueue is a first-in first-out queue: the proof that it      *)
(* implements FifoQueue, for every capacity and any number of blocks and   *)
(* elements, and what its callers may conclude from "empty", from "full"   *)
(* and from what size_approx returns.                                      *)
(***************************************************************************)
EXTENDS QueueProofs

-----------------------------------------------------------------------------
(* Induction up to n, with a set for the property.                         *)

LEMMA UpTo ==
  ASSUME NEW n \in Nat, NEW S, 0 \in S, \A k \in 1..n : k - 1 \in S => k \in S
  PROVE  \A k \in 0..n : k \in S
<1> DEFINE Bad == {k \in 0..n : k \notin S}
<1> SUFFICES ASSUME Bad # {} PROVE FALSE
  OBVIOUS
<1>1. PICK k \in Bad : \A j \in Bad : k <= j
  <2>1. Bad \subseteq Nat
    OBVIOUS
  <2> HIDE DEF Bad
  <2> QED
    BY <2>1, LeastNatural, Zenon
<1>2. k \in 1..n /\ k \notin S /\ k - 1 \in 0..n
  BY <1>1
<1>3. k - 1 \notin Bad
  BY <1>1, <1>2
<1> QED
  BY <1>2, <1>3

-----------------------------------------------------------------------------
(* Concatenation: Cat(it, n) is it[0] \o ... \o it[n].                     *)

Cat(it, n) == FlattenSeq([k \in 1..(n + 1) |-> it[k - 1]])
AreSeqs(it, n) == \A k \in 0..n : it[k] \in Seq(Nat)

(* f[k] is the concatenation up to it[k].                                  *)
Sums(f, it, n) ==
  /\ DOMAIN f = 0..n
  /\ f[0] = it[0]
  /\ \A k \in 1..n : f[k] = f[k - 1] \o it[k]

LEMMA SumsExist ==
  ASSUME NEW n \in Nat, NEW it
  PROVE  \E f : Sums(f, it, n)
<1> DEFINE S == {m \in 0..n : \E f : Sums(f, it, m)}
<1>1. 0 \in S
  <2> DEFINE g == [k \in 0..0 |-> it[0]]
  <2>1. Sums(g, it, 0)
    BY DEF Sums
  <2> QED
    BY <2>1
<1>2. ASSUME NEW m \in 1..n, m - 1 \in S PROVE m \in S
  <2>1. PICK f : Sums(f, it, m - 1)
    BY <1>2
  <2> DEFINE g == [k \in 0..m |-> IF k = m THEN f[m - 1] \o it[m] ELSE f[k]]
  <2>2. DOMAIN g = 0..m
    OBVIOUS
  <2>3. g[m] = f[m - 1] \o it[m] /\ \A k \in 0..(m - 1) : g[k] = f[k]
    OBVIOUS
  <2>4. f[0] = it[0] /\ \A k \in 1..(m - 1) : f[k] = f[k - 1] \o it[k]
    BY <2>1 DEF Sums
  <2> HIDE DEF g
  <2>5. g[0] = it[0]
    BY <2>3, <2>4
  <2>6. ASSUME NEW k \in 1..m PROVE g[k] = g[k - 1] \o it[k]
    <3>1. k - 1 \in 0..(m - 1) /\ (k # m => k \in 1..(m - 1) /\ k \in 0..(m - 1))
      OBVIOUS
    <3>2. g[k - 1] = f[k - 1]
      BY <2>3, <3>1, Zenon
    <3>3. CASE k = m
      BY <2>3, <3>2, <3>3, Zenon
    <3>4. CASE k # m
      BY <2>3, <2>4, <3>1, <3>2, <3>4, Zenon
    <3> QED
      BY <3>3, <3>4
  <2>7. Sums(g, it, m)
    BY <2>2, <2>5, <2>6, Zenon DEF Sums
  <2> QED
    BY <2>7
<1> HIDE DEF S
<1>3. \A k \in 0..n : k \in S
  BY <1>1, <1>2, UpTo
<1>4. n \in S
  BY <1>3
<1> QED
  BY <1>4 DEF S

(* FlattenSeq computes the last of them.                                   *)
LEMMA CatIsSum ==
  ASSUME NEW n \in Nat, NEW it, NEW f, Sums(f, it, n)
  PROVE  Cat(it, n) = f[n]
<1> DEFINE s == [k \in 1..(n + 1) |-> it[k - 1]]
           Eqn(g) == g = [i \in 1..Len(s) |-> IF i = 1 THEN s[i] ELSE g[i - 1] \o s[i]]
           flat == CHOOSE g : Eqn(g)
           h == [i \in 1..(n + 1) |-> f[i - 1]]
<1>1. Len(s) = n + 1 /\ \A i \in 1..(n + 1) : s[i] = it[i - 1]
  OBVIOUS
<1>2. Cat(it, n) = flat[Len(s)]
  <2>1. Len(s) # 0
    BY <1>1
  <2> QED
    BY <2>1, Zenon DEF Cat, FlattenSeq
<1>3. f[0] = it[0] /\ \A k \in 1..n : f[k] = f[k - 1] \o it[k]
  BY DEF Sums
<1> HIDE DEF s
<1>4. Eqn(h)
  <2>1. \A i \in 1..(n + 1) : h[i] = f[i - 1]
    OBVIOUS
  <2>2. h = [i \in 1..(n + 1) |-> h[i]]
    OBVIOUS
  <2> HIDE DEF h
  <2>3. ASSUME NEW i \in 1..(n + 1)
        PROVE  h[i] = IF i = 1 THEN s[i] ELSE h[i - 1] \o s[i]
    <3>1. CASE i = 1
      BY <1>1, <1>3, <2>1, <3>1
    <3>2. CASE i # 1
      <4>1. i - 1 \in 1..n /\ i - 1 \in 1..(n + 1)
        BY <3>2
      <4>2. /\ h[i] = f[i - 1] /\ h[i - 1] = f[(i - 1) - 1] /\ s[i] = it[i - 1]
            /\ f[i - 1] = f[(i - 1) - 1] \o it[i - 1]
        BY <1>1, <1>3, <2>1, <4>1, Zenon
      <4> QED
        BY <3>2, <4>2, Zenon
    <3> QED
      BY <3>1, <3>2
  <2>4. h = [i \in 1..(n + 1) |-> IF i = 1 THEN s[i] ELSE h[i - 1] \o s[i]]
    BY <2>2, <2>3, Zenon
  <2> QED
    BY <1>1, <2>4
<1>5. Eqn(flat)
  <2> HIDE DEF Eqn
  <2> QED
    BY <1>4, Zenon
<1> HIDE DEF flat
<1>6. \A i \in 1..(n + 1) : flat[i] = IF i = 1 THEN s[i] ELSE flat[i - 1] \o s[i]
  BY <1>1, <1>5, Zenon
<1> DEFINE S == {k \in 0..n : flat[k + 1] = f[k]}
<1>7. 0 \in S
  BY <1>1, <1>3, <1>6
<1>8. ASSUME NEW k \in 1..n, k - 1 \in S PROVE k \in S
  <2>1. flat[k] = f[k - 1]
    BY <1>8
  <2>2. k + 1 \in 1..(n + 1) /\ k + 1 # 1 /\ (k + 1) - 1 = k /\ k \in 0..n
    OBVIOUS
  <2>3. flat[k + 1] = flat[(k + 1) - 1] \o s[k + 1] /\ s[k + 1] = it[(k + 1) - 1]
    BY <1>1, <1>6, <2>2, Zenon
  <2>4. flat[k + 1] = f[k - 1] \o it[k]
    BY <2>1, <2>2, <2>3, Zenon
  <2>5. flat[k + 1] = f[k]
    BY <1>3, <2>4, Zenon
  <2> QED
    BY <2>2, <2>5
<1> HIDE DEF S
<1>9. \A k \in 0..n : k \in S
  BY <1>7, <1>8, UpTo
<1>10. n \in S
  BY <1>9
<1> QED
  BY <1>1, <1>2, <1>10 DEF S

(* So it can be computed one sequence at a time.                           *)
LEMMA CatSteps ==
  ASSUME NEW n \in Nat, NEW it
  PROVE  /\ Cat(it, 0) = it[0]
         /\ \A k \in 1..n : Cat(it, k) = Cat(it, k - 1) \o it[k]
<1>1. PICK f : Sums(f, it, n)
  BY SumsExist
<1>2. f[0] = it[0] /\ \A k \in 1..n : f[k] = f[k - 1] \o it[k]
  BY <1>1 DEF Sums
<1>3. ASSUME NEW k \in 0..n PROVE Cat(it, k) = f[k]
  <2> DEFINE g == [j \in 0..k |-> f[j]]
  <2>1. DOMAIN g = 0..k /\ \A j \in 0..k : g[j] = f[j]
    OBVIOUS
  <2> HIDE DEF g
  <2>2. ASSUME NEW j \in 1..k PROVE g[j] = g[j - 1] \o it[j]
    <3>1. j \in 0..k /\ j - 1 \in 0..k /\ j \in 1..n
      OBVIOUS
    <3> QED
      BY <1>2, <2>1, <3>1, Zenon
  <2>3. g[0] = it[0] /\ k \in Nat /\ g[k] = f[k]
    BY <1>2, <2>1
  <2>4. Sums(g, it, k)
    BY <2>1, <2>2, <2>3, Zenon DEF Sums
  <2> QED
    BY <2>3, <2>4, CatIsSum
<1>4. ASSUME NEW k \in 1..n PROVE Cat(it, k) = Cat(it, k - 1) \o it[k]
  <2>1. k \in 0..n /\ k - 1 \in 0..n
    OBVIOUS
  <2> QED
    BY <1>2, <1>3, <2>1, Zenon
<1>5. Cat(it, 0) = it[0]
  BY <1>2, <1>3
<1> QED
  BY <1>4, <1>5

LEMMA CatType ==
  ASSUME NEW n \in Nat, NEW it, AreSeqs(it, n)
  PROVE  \A k \in 0..n : Cat(it, k) \in Seq(Nat)
<1> DEFINE S == {k \in 0..n : Cat(it, k) \in Seq(Nat)}
<1>1. \A k \in 0..n : it[k] \in Seq(Nat)
  BY DEF AreSeqs
<1>2. 0 \in S
  <2>1. 0 \in 0..n
    OBVIOUS
  <2>2. Cat(it, 0) = it[0]
    BY CatSteps, Zenon
  <2> QED
    BY <1>1, <2>1, <2>2, Zenon
<1>3. ASSUME NEW k \in 1..n, k - 1 \in S PROVE k \in S
  <2>1. k \in 0..n
    OBVIOUS
  <2>2. Cat(it, k) = Cat(it, k - 1) \o it[k]
    BY CatSteps, Zenon
  <2>3. Cat(it, k - 1) \in Seq(Nat) /\ it[k] \in Seq(Nat)
    BY <1>1, <1>3, <2>1, Zenon
  <2>4. Cat(it, k) \in Seq(Nat)
    BY <2>2, <2>3, ConcatProperties, Zenon
  <2> QED
    BY <2>1, <2>4
<1> HIDE DEF S
<1>4. \A k \in 0..n : k \in S
  BY <1>2, <1>3, UpTo
<1> QED
  BY <1>4 DEF S

LEMMA SameCat ==
  ASSUME NEW n \in Nat, NEW it, NEW jt, \A k \in 0..n : it[k] = jt[k]
  PROVE  Cat(it, n) = Cat(jt, n)
<1>1. [k \in 1..(n + 1) |-> it[k - 1]] = [k \in 1..(n + 1) |-> jt[k - 1]]
  OBVIOUS
<1> QED
  BY <1>1 DEF Cat

(* The first element is taken from the first sequence.                     *)
LEMMA ConcatHead ==
  ASSUME NEW s \in Seq(Nat), NEW t \in Seq(Nat), s # <<>>
  PROVE  s \o t # <<>> /\ Head(s \o t) = Head(s) /\ Tail(s \o t) = Tail(s) \o t
  OBVIOUS

LEMMA CatHead ==
  ASSUME NEW n \in Nat, NEW it, NEW jt, AreSeqs(it, n),
         it[0] # <<>>, jt[0] = Tail(it[0]), \A k \in 1..n : jt[k] = it[k]
  PROVE  Cat(it, n) # <<>> /\ Head(Cat(it, n)) = Head(it[0]) /\ Cat(jt, n) = Tail(Cat(it, n))
<1> DEFINE Good(k) == /\ Cat(it, k) # <<>>
                      /\ Head(Cat(it, k)) = Head(it[0])
                      /\ Cat(jt, k) = Tail(Cat(it, k))
           S == {k \in 0..n : Good(k)}
<1>1. Good(0)
  BY CatSteps
<1>2. ASSUME NEW k \in 1..n, Good(k - 1) PROVE Good(k)
  <2>1. Cat(it, k) = Cat(it, k - 1) \o it[k] /\ Cat(jt, k) = Cat(jt, k - 1) \o jt[k]
    BY CatSteps
  <2>2. Cat(it, k - 1) \in Seq(Nat) /\ it[k] \in Seq(Nat)
    <3>1. k \in 0..n /\ k - 1 \in 0..n
      OBVIOUS
    <3> QED
      BY <3>1, CatType, Zenon DEF AreSeqs
  <2>3. /\ Cat(it, k - 1) \o it[k] # <<>>
        /\ Head(Cat(it, k - 1) \o it[k]) = Head(Cat(it, k - 1))
        /\ Tail(Cat(it, k - 1) \o it[k]) = Tail(Cat(it, k - 1)) \o it[k]
    BY <1>2, <2>2, ConcatHead
  <2> QED
    BY <1>2, <2>1, <2>3, Zenon
<1> HIDE DEF Good
<1>3. 0 \in S
  BY <1>1
<1>4. ASSUME NEW k \in 1..n, k - 1 \in S PROVE k \in S
  BY <1>2, <1>4
<1> HIDE DEF S
<1>5. \A k \in 0..n : k \in S
  BY <1>3, <1>4, UpTo
<1>6. n \in S
  BY <1>5
<1> QED
  BY <1>6 DEF S, Good

(* An empty first sequence may be left out.                                *)
LEMMA CatDrop ==
  ASSUME NEW n \in Nat, n >= 1, NEW it, NEW jt, AreSeqs(it, n),
         it[0] = <<>>, \A k \in 0..(n - 1) : jt[k] = it[k + 1]
  PROVE  Cat(jt, n - 1) = Cat(it, n)
<1> DEFINE S == {k \in 0..(n - 1) : Cat(jt, k) = Cat(it, k + 1)}
<1>1. 0 \in S
  <2>0. 1 \in 1..n
    OBVIOUS
  <2>1. Cat(it, 1) = Cat(it, 1 - 1) \o it[1] /\ Cat(it, 0) = it[0] /\ Cat(jt, 0) = jt[0]
    BY <2>0, CatSteps, Zenon
  <2>2. jt[0] = it[1] /\ it[1] \in Seq(Nat) /\ 1 - 1 = 0
    BY DEF AreSeqs
  <2>3. <<>> \o it[1] = it[1]
    BY <2>2
  <2>4. Cat(jt, 0) = Cat(it, 1)
    BY <2>1, <2>2, <2>3
  <2> QED
    BY <2>4
<1>2. ASSUME NEW k \in 1..(n - 1), k - 1 \in S PROVE k \in S
  <2>1. Cat(jt, k - 1) = Cat(it, k)
    BY <1>2
  <2>2. k + 1 \in 1..n /\ (k + 1) - 1 = k /\ k \in 0..(n - 1) /\ n - 1 \in Nat
    OBVIOUS
  <2>3. Cat(it, k + 1) = Cat(it, (k + 1) - 1) \o it[k + 1]
    BY <2>2, CatSteps, Zenon
  <2>4. Cat(jt, k) = Cat(jt, k - 1) \o jt[k]
    BY <2>2, CatSteps, Zenon
  <2>5. Cat(jt, k) = Cat(it, k + 1)
    BY <2>1, <2>2, <2>3, <2>4, Zenon
  <2> QED
    BY <2>2, <2>5
<1> HIDE DEF S
<1>3. n - 1 \in Nat /\ n - 1 \in 0..(n - 1)
  OBVIOUS
<1>4. \A k \in 0..(n - 1) : k \in S
  BY <1>1, <1>2, <1>3, UpTo
<1>5. n - 1 \in S /\ (n - 1) + 1 = n
  BY <1>3, <1>4
<1> QED
  BY <1>5 DEF S

(* The last element is added to the last sequence.                         *)
LEMMA CatLast ==
  ASSUME NEW n \in Nat, NEW it, NEW jt, NEW x \in Nat, AreSeqs(it, n),
         jt[n] = Append(it[n], x), \A k \in 0..(n - 1) : jt[k] = it[k]
  PROVE  Cat(jt, n) = Append(Cat(it, n), x)
<1>1. CASE n = 0
  <2>1. Cat(it, 0) = it[0] /\ Cat(jt, 0) = jt[0]
    BY CatSteps
  <2> QED
    BY <1>1, <2>1
<1>2. CASE n # 0
  <2>1. n \in 1..n /\ n - 1 \in Nat /\ n - 1 \in 0..n /\ n \in 0..n
    BY <1>2
  <2>2. Cat(it, n) = Cat(it, n - 1) \o it[n] /\ Cat(jt, n) = Cat(jt, n - 1) \o jt[n]
    BY <2>1, CatSteps, Zenon
  <2>3. Cat(jt, n - 1) = Cat(it, n - 1)
    BY <2>1, SameCat
  <2>4. Cat(it, n - 1) \in Seq(Nat) /\ it[n] \in Seq(Nat)
    BY <2>1, CatType, Zenon DEF AreSeqs
  <2> DEFINE s == Cat(it, n - 1)
             t == it[n]
  <2>5. Cat(it, n) = s \o t /\ Cat(jt, n) = s \o Append(t, x)
    BY <2>2, <2>3
  <2>6. s \in Seq(Nat) /\ t \in Seq(Nat)
    BY <2>4
  <2> HIDE DEF s, t
  <2>7. s \o Append(t, x) = Append(s \o t, x)
    BY <2>6, SMTT(40)
  <2> QED
    BY <2>5, <2>7
<1> QED
  BY <1>1, <1>2

-----------------------------------------------------------------------------
(* The elements of a circular buffer a of d slots, from f up to t.         *)

Elems(d, f, t, a) == [i \in 1..((t - f) % d) |-> a[((f + i - 1) % d) + 1]]
Follower(d, i) == IF i + 1 = d THEN 0 ELSE i + 1
IsBuffer(d, f, t, a) ==
  /\ d \in Nat /\ d >= 2
  /\ f \in 0..(d - 1) /\ t \in 0..(d - 1)
  /\ a \in Seq(Nat) /\ Len(a) = d

(* How many there are, and where the i-th one is.                          *)
HowMany(d, f, t) == IF f <= t THEN t - f ELSE t - f + d
Place(d, f, i) == IF f + i - 1 < d THEN f + i ELSE f + i - d

LEMMA ElemsAre ==
  ASSUME NEW d, NEW f, NEW t, NEW a, IsBuffer(d, f, t, a)
  PROVE  /\ HowMany(d, f, t) \in 0..(d - 1)
         /\ Elems(d, f, t, a) \in Seq(Nat)
         /\ Len(Elems(d, f, t, a)) = HowMany(d, f, t)
         /\ \A i \in 1..HowMany(d, f, t) :
              Place(d, f, i) \in 1..d /\ Elems(d, f, t, a)[i] = a[Place(d, f, i)]
<1> DEFINE m == HowMany(d, f, t)
<1>0. d \in Nat \ {0} /\ f \in 0..(d - 1) /\ t \in 0..(d - 1)
  BY DEF IsBuffer
<1>1. m \in 0..(d - 1)
  BY <1>0 DEF HowMany
<1>2. (t - f) % d = m
  <2>1. m % d = m /\ (m - d) % d = m
    BY <1>0, <1>1, ModTurns
  <2>2. t - f = m \/ t - f = m - d
    BY <1>0 DEF HowMany
  <2> QED
    BY <2>1, <2>2
<1> HIDE DEF m
<1>3. ASSUME NEW i \in 1..m
      PROVE  /\ Place(d, f, i) \in 1..d /\ ((f + i - 1) % d) + 1 = Place(d, f, i)
             /\ a[Place(d, f, i)] \in Nat
  <2> DEFINE r == Place(d, f, i) - 1
  <2>1. r \in 0..(d - 1) /\ Place(d, f, i) = r + 1 /\ Place(d, f, i) \in 1..d
    BY <1>0, <1>1 DEF Place
  <2>2. f + i - 1 = r \/ f + i - 1 = r + d
    BY <1>0, <1>1 DEF Place
  <2>3. r % d = r /\ (r + d) % d = r
    <3> HIDE DEF r
    <3> QED
      BY <1>0, <2>1, ModTurns
  <2>4. (f + i - 1) % d = r
    <3> HIDE DEF r
    <3> QED
      BY <2>2, <2>3
  <2>5. a \in Seq(Nat) /\ Place(d, f, i) \in 1..Len(a)
    BY <2>1 DEF IsBuffer
  <2>6. a[Place(d, f, i)] \in Nat
    BY <2>5, ElementOfSeq, Zenon
  <2> QED
    BY <2>1, <2>4, <2>6
<1> DEFINE e == [i \in 1..m |-> a[((f + i - 1) % d) + 1]]
<1>4. Elems(d, f, t, a) = e
  BY <1>2 DEF Elems
<1>5. \A i \in 1..m : e[i] = a[Place(d, f, i)] /\ e[i] \in Nat
  BY <1>3
<1>6. e \in Seq(Nat) /\ Len(e) = m
  <2>1. e = [i \in 1..m |-> e[i]]
    OBVIOUS
  <2> HIDE DEF e
  <2>2. e \in [1..m -> Nat] /\ m \in Nat
    BY <1>1, <2>1, <1>5
  <2> QED
    BY <2>2
<1> HIDE DEF e
<1> QED
  BY <1>1, <1>3, <1>4, <1>5, <1>6 DEF m

LEMMA ElemsEmpty ==
  ASSUME NEW d, NEW f, NEW t, NEW a, IsBuffer(d, f, t, a)
  PROVE  Elems(d, f, t, a) = <<>> <=> f = t
<1>1. Len(Elems(d, f, t, a)) = HowMany(d, f, t) /\ Elems(d, f, t, a) \in Seq(Nat)
  BY ElemsAre
<1>2. HowMany(d, f, t) = 0 <=> f = t
  BY DEF HowMany, IsBuffer
<1> DEFINE e == Elems(d, f, t, a)
<1>3. e \in Seq(Nat) /\ (Len(e) = 0 <=> f = t)
  BY <1>1, <1>2
<1> HIDE DEF e
<1>4. e = <<>> <=> f = t
  BY <1>3
<1> QED
  BY <1>4 DEF e

(* Storing the tail adds the element that was constructed there.           *)
LEMMA ElemsAppend ==
  ASSUME NEW d, NEW f, NEW t, NEW a, IsBuffer(d, f, t, a), Follower(d, t) # f
  PROVE  Elems(d, f, Follower(d, t), a) = Append(Elems(d, f, t, a), a[t + 1])
<1> DEFINE u == Follower(d, t)
           m == HowMany(d, f, t)
           s == Elems(d, f, t, a)
           v == Elems(d, f, u, a)
<1>0. d \in Nat /\ d >= 2 /\ f \in 0..(d - 1) /\ t \in 0..(d - 1) /\ a \in Seq(Nat) /\ Len(a) = d
  BY DEF IsBuffer
<1>1. u \in 0..(d - 1) /\ HowMany(d, f, u) = m + 1 /\ Place(d, f, m + 1) = t + 1 /\ m \in Nat
  BY <1>0 DEF Follower, HowMany, Place
<1>2. IsBuffer(d, f, u, a)
  BY <1>1 DEF IsBuffer
<1>3. s \in Seq(Nat) /\ Len(s) = m /\ \A i \in 1..m : s[i] = a[Place(d, f, i)]
  BY ElemsAre
<1> HIDE DEF u, m, s
<1>4. v \in Seq(Nat) /\ Len(v) = m + 1 /\ \A i \in 1..(m + 1) : v[i] = a[Place(d, f, i)]
  <2>1. /\ Elems(d, f, u, a) \in Seq(Nat) /\ Len(Elems(d, f, u, a)) = HowMany(d, f, u)
        /\ \A i \in 1..HowMany(d, f, u) : Elems(d, f, u, a)[i] = a[Place(d, f, i)]
    BY <1>2, ElemsAre
  <2> QED
    BY <1>1, <2>1
<1> HIDE DEF v
<1>5. t + 1 \in 1..Len(a)
  BY <1>0
<1> DEFINE x == a[t + 1]
           w == Append(s, x)
<1>6. x \in Nat
  BY <1>0, <1>5, ElementOfSeq, Zenon
<1>7. v[m + 1] = x
  BY <1>1, <1>4
<1> HIDE DEF x
<1>8. w \in Seq(Nat) /\ Len(w) = m + 1 /\ w[m + 1] = x /\ \A i \in 1..m : w[i] = s[i]
  BY <1>3, <1>6, AppendProperties
<1> HIDE DEF w
<1>9. ASSUME NEW i \in 1..(m + 1) PROVE v[i] = w[i]
  <2>1. CASE i = m + 1
    BY <1>7, <1>8, <2>1
  <2>2. CASE i # m + 1
    <3>1. i \in 1..m
      BY <1>1, <2>2
    <3> QED
      BY <1>3, <1>4, <1>8, <3>1, Zenon
  <2> QED
    BY <2>1, <2>2
<1>10. v = w
  BY <1>4, <1>8, <1>9, SeqEqual
<1> QED
  BY <1>10 DEF v, w, s, x, u

(* Storing the front removes the oldest element.                           *)
LEMMA ElemsTail ==
  ASSUME NEW d, NEW f, NEW t, NEW a, IsBuffer(d, f, t, a), f # t
  PROVE  /\ Elems(d, f, t, a) # <<>>
         /\ Head(Elems(d, f, t, a)) = a[f + 1]
         /\ Elems(d, Follower(d, f), t, a) = Tail(Elems(d, f, t, a))
<1> DEFINE u == Follower(d, f)
           m == HowMany(d, f, t)
           s == Elems(d, f, t, a)
           v == Elems(d, u, t, a)
<1>0. d \in Nat /\ d >= 2 /\ f \in 0..(d - 1) /\ t \in 0..(d - 1)
  BY DEF IsBuffer
<1>1. u \in 0..(d - 1) /\ HowMany(d, u, t) = m - 1 /\ m \in Nat /\ m >= 1 /\ m <= d - 1
  BY <1>0 DEF Follower, HowMany
<1>2. Place(d, f, 1) = f + 1 /\ \A i \in 1..(m - 1) : Place(d, u, i) = Place(d, f, i + 1)
  <2>1. Place(d, f, 1) = f + 1
    BY <1>0 DEF Place
  <2>2. ASSUME NEW i \in 1..(m - 1) PROVE Place(d, u, i) = Place(d, f, i + 1)
    <3> HIDE DEF m
    <3> QED
      BY <1>0, <1>1 DEF Place, Follower
  <2> QED
    BY <2>1, <2>2
<1>3. IsBuffer(d, u, t, a)
  BY <1>1 DEF IsBuffer
<1>4. s \in Seq(Nat) /\ Len(s) = m /\ \A i \in 1..m : s[i] = a[Place(d, f, i)]
  BY ElemsAre
<1> HIDE DEF u, m, s
<1>5. v \in Seq(Nat) /\ Len(v) = m - 1 /\ \A i \in 1..(m - 1) : v[i] = a[Place(d, u, i)]
  <2>1. /\ Elems(d, u, t, a) \in Seq(Nat) /\ Len(Elems(d, u, t, a)) = HowMany(d, u, t)
        /\ \A i \in 1..HowMany(d, u, t) : Elems(d, u, t, a)[i] = a[Place(d, u, i)]
    BY <1>3, ElemsAre
  <2> QED
    BY <1>1, <2>1
<1> HIDE DEF v
<1>6. s # <<>> /\ s[1] = a[f + 1]
  BY <1>1, <1>2, <1>4
<1> DEFINE w == Tail(s)
<1>7. w \in Seq(Nat) /\ Len(w) = m - 1 /\ (\A i \in 1..(m - 1) : w[i] = s[i + 1]) /\ Head(s) = s[1]
  <2>1. /\ Tail(s) \in Seq(Nat) /\ Len(Tail(s)) = Len(s) - 1
        /\ \A i \in 1..Len(Tail(s)) : Tail(s)[i] = s[i + 1]
    BY <1>4, <1>6, HeadTailProperties
  <2>2. Head(s) = s[1]
    OBVIOUS
  <2> QED
    BY <1>4, <2>1, <2>2
<1> HIDE DEF w
<1>8. ASSUME NEW i \in 1..(m - 1) PROVE v[i] = w[i]
  <2>1. i + 1 \in 1..m
    BY <1>1
  <2> QED
    BY <1>2, <1>4, <1>5, <1>7, <2>1, Zenon
<1>9. v = w
  BY <1>5, <1>7, <1>8, SeqEqual
<1>10. v = Tail(s) /\ Head(s) = a[f + 1]
  BY <1>6, <1>7, <1>9 DEF w
<1> QED
  BY <1>6, <1>10 DEF v, s, u

(* Constructing at the tail is not seen.                                   *)
LEMMA ElemsWrite ==
  ASSUME NEW d, NEW f, NEW t, NEW a, NEW b, IsBuffer(d, f, t, a), IsBuffer(d, f, t, b),
         \A i \in 1..d : i # t + 1 => b[i] = a[i]
  PROVE  Elems(d, f, t, b) = Elems(d, f, t, a)
<1> DEFINE m == HowMany(d, f, t)
           s == Elems(d, f, t, a)
           v == Elems(d, f, t, b)
<1>1. s \in Seq(Nat) /\ Len(s) = m /\ \A i \in 1..m : s[i] = a[Place(d, f, i)]
  BY ElemsAre
<1>2. v \in Seq(Nat) /\ Len(v) = m /\ \A i \in 1..m : v[i] = b[Place(d, f, i)]
  BY ElemsAre
<1>3. ASSUME NEW i \in 1..m PROVE Place(d, f, i) \in 1..d /\ Place(d, f, i) # t + 1
  BY DEF Place, HowMany, IsBuffer
<1> HIDE DEF s, v, m
<1>4. ASSUME NEW i \in 1..m PROVE s[i] = v[i]
  BY <1>1, <1>2, <1>3, Zenon
<1>5. s = v
  BY <1>1, <1>2, <1>4, SeqEqual
<1> QED
  BY <1>5 DEF s, v

(* One element.                                                            *)
LEMMA ElemsOne ==
  ASSUME NEW d, NEW f, NEW t, NEW a, IsBuffer(d, f, t, a), t = Follower(d, f)
  PROVE  Elems(d, f, t, a) = <<a[f + 1]>>
<1>1. IsBuffer(d, f, f, a) /\ Follower(d, f) # f
  BY DEF IsBuffer, Follower
<1>2. Elems(d, f, f, a) = <<>>
  BY <1>1, ElemsEmpty
<1>3. Elems(d, f, Follower(d, f), a) = Append(Elems(d, f, f, a), a[f + 1])
  BY <1>1, ElemsAppend, Zenon
<1>4. Elems(d, f, t, a) = Append(<<>>, a[f + 1])
  BY <1>2, <1>3, Zenon
<1> QED
  BY <1>4

-----------------------------------------------------------------------------
(* The queue's contents, along the blocks from the front one to the tail   *)
(* one.                                                                    *)

LEMMA ItemsAre ==
  ASSUME NEW b
  PROVE  Items(b) = Elems(blocks[b].size, blocks[b].front, blocks[b].tail, blocks[b].data)
  BY DEF Items, Used, Elems

LEMMA BlockIsBuffer ==
  ASSUME Shape, NEW b \in 1..N
  PROVE  IsBuffer(blocks[b].size, blocks[b].front, blocks[b].tail, blocks[b].data)
<1>1. /\ blocks[b].size \in Nat /\ blocks[b].size >= 2
      /\ blocks[b].front \in 0..(blocks[b].size - 1)
      /\ blocks[b].tail \in 0..(blocks[b].size - 1)
      /\ blocks[b].data \in Seq(Nat) /\ Len(blocks[b].data) = blocks[b].size
  BY BlockFacts
<1> QED
  BY <1>1 DEF IsBuffer

Path(r, n) ==
  /\ n \in 0..(N - 1)
  /\ \A k \in 0..n : r[k] \in 1..N
  /\ r[0] = frontBlock /\ r[n] = tailBlock
  /\ \A k \in 0..(n - 1) : r[k] # tailBlock /\ r[k + 1] = blocks[r[k]].next
ItemsOn(r, n) == [k \in 0..n |-> Items(r[k])]

(* There is only one such path, and Contents reads along it.               *)
LEMMA ContentsOfPath == \A r, n : IInv /\ Path(r, n) => Contents = Cat(ItemsOn(r, n), n)
<1> SUFFICES ASSUME NEW r, NEW n, IInv, Path(r, n) PROVE Contents = Cat(ItemsOn(r, n), n)
  OBVIOUS
<1>1. PICK pos \in [1..Linked -> 0..(Linked - 1)] : RingAt(pos)
  BY DEF IInv
<1>2. Shape /\ Ordered(pos)
  BY <1>1 DEF IInv, RingAt
<1>3. Ring[0] = frontBlock /\ \A k \in Nat \ {0} : Ring[k] = blocks[Ring[k - 1]].next
  BY <1>2, RingSteps
<1>4. /\ N \in Nat /\ n \in Nat /\ n <= N - 1 /\ n \in 0..(N - 1)
      /\ r[0] = frontBlock /\ r[n] = tailBlock
      /\ \A k \in 0..(n - 1) : r[k] # tailBlock
      /\ \A k \in 0..(n - 1) : r[k + 1] = blocks[r[k]].next
  BY <1>2 DEF Path, Shape
<1> DEFINE S == {k \in 0..n : Ring[k] = r[k]}
<1>5. 0 \in S
  BY <1>3, <1>4
<1>6. ASSUME NEW k \in 1..n, k - 1 \in S PROVE k \in S
  <2>1. Ring[k - 1] = r[k - 1] /\ k \in Nat \ {0} /\ k - 1 \in 0..(n - 1) /\ (k - 1) + 1 = k
    BY <1>4, <1>6
  <2>2. Ring[k] = blocks[Ring[k - 1]].next
    BY <1>3, <2>1
  <2>3. r[(k - 1) + 1] = blocks[r[k - 1]].next
    BY <1>4, <2>1
  <2>4. Ring[k] = r[k]
    BY <2>1, <2>2, <2>3
  <2> QED
    BY <2>4
<1>7. \A k \in 0..n : Ring[k] = r[k]
  <2> HIDE DEF S
  <2>1. \A k \in 0..n : k \in S
    BY <1>4, <1>5, <1>6, UpTo
  <2> QED
    BY <2>1 DEF S
<1>8. TailPos = n
  <2> DEFINE P(k) == Ring[k] = tailBlock /\ \A j \in 0..(k - 1) : Ring[j] # tailBlock
  <2>1. n \in 0..Len(blocks) /\ P(n)
    BY <1>4, <1>7 DEF N
  <2>2. ASSUME NEW k \in 0..Len(blocks), P(k) PROVE k = n
    <3>1. n \in Nat /\ k \in Nat
      BY <1>4, <2>2 DEF N
    <3>2. CASE k < n
      BY <3>1, <2>1, <2>2, <3>2
    <3>3. CASE n < k
      BY <3>1, <2>1, <2>2, <3>3
    <3> QED
      BY <3>1, <3>2, <3>3
  <2>3. TailPos = CHOOSE k \in 0..Len(blocks) : P(k)
    BY Zenon DEF TailPos
  <2> HIDE DEF P
  <2> QED
    BY <2>1, <2>2, <2>3, Zenon
<1> DEFINE it == ItemsOn(r, n)
<1>9. ASSUME NEW k \in 1..(n + 1) PROVE Items(Ring[k - 1]) = it[k - 1]
  <2>1. k - 1 \in 0..n
    BY <1>4
  <2>2. it[k - 1] = Items(r[k - 1])
    BY <2>1 DEF ItemsOn
  <2> QED
    BY <1>7, <2>1, <2>2, Zenon
<1> HIDE DEF it
<1>10. [k \in 1..(n + 1) |-> Items(Ring[k - 1])] = [k \in 1..(n + 1) |-> it[k - 1]]
  BY <1>9, Zenon
<1>11. Contents = FlattenSeq([k \in 1..(n + 1) |-> Items(Ring[k - 1])])
  BY <1>8, Zenon DEF Contents
<1>12. Contents = Cat(it, n)
  BY <1>10, <1>11, Zenon DEF Cat
<1> QED
  BY <1>12 DEF it

LEMMA ContentsOfPathNext == (\A r, n : IInv /\ Path(r, n) => Contents = Cat(ItemsOn(r, n), n))'
  BY ContentsOfPath, PTL

(* The path that pos describes.                                            *)
PathAt(pos, r, n) ==
  /\ RingAt(pos)
  /\ Path(r, n)
  /\ n = pos[tailBlock]
  /\ \A k \in 0..n : r[k] \in 1..Linked /\ pos[r[k]] = k

LEMMA PathExists ==
  ASSUME IInv
  PROVE  \E pos, r, n : PathAt(pos, r, n)
<1>1. PICK pos \in [1..Linked -> 0..(Linked - 1)] : RingAt(pos)
  BY DEF IInv
<1>2. Shape /\ Ordered(pos)
  BY <1>1 DEF IInv, RingAt
<1>3. Ring[0] = frontBlock /\ \A k \in Nat \ {0} : Ring[k] = blocks[Ring[k - 1]].next
  BY <1>2, RingSteps
<1>4. \A k \in 0..(Linked - 1) : Ring[k] \in 1..Linked /\ pos[Ring[k]] = k
  BY <1>2, RingCounts
<1>5. /\ N \in Nat /\ Linked \in 1..N /\ tailBlock \in 1..Linked
      /\ pos[tailBlock] \in Int /\ 0 <= pos[tailBlock] /\ pos[tailBlock] <= Linked - 1
      /\ \A a, b \in 1..Linked : pos[a] = pos[b] => a = b
  <2>1. \A a, b \in 1..Linked : pos[a] = pos[b] => a = b
    BY <1>2 DEF Ordered
  <2> QED
    BY <1>2, <2>1, LinkedFacts
<1> DEFINE n == pos[tailBlock]
           r == [k \in 0..n |-> Ring[k]]
<1>6. n \in 0..(N - 1) /\ n \in 0..(Linked - 1)
  BY <1>5
<1>7. \A k \in 0..n : r[k] = Ring[k]
  OBVIOUS
<1> HIDE DEF n, r
<1>8. \A k \in 0..n : r[k] \in 1..Linked /\ pos[r[k]] = k
  <2> SUFFICES ASSUME NEW k \in 0..n PROVE r[k] \in 1..Linked /\ pos[r[k]] = k
    OBVIOUS
  <2>1. k \in 0..(Linked - 1)
    BY <1>5, <1>6
  <2> QED
    BY <1>4, <1>7, <2>1, Zenon
<1>9. \A k \in 0..n : r[k] \in 1..N
  BY <1>5, <1>8
<1>10. r[0] = frontBlock /\ r[n] = tailBlock
  <2>1. 0 \in 0..n /\ n \in 0..n /\ n = pos[tailBlock]
    BY <1>6 DEF n
  <2>2. r[n] \in 1..Linked /\ pos[r[n]] = pos[tailBlock]
    BY <1>8, <2>1, Zenon
  <2> QED
    BY <1>3, <1>5, <1>7, <2>1, <2>2, Zenon
<1>11. ASSUME NEW k \in 0..(n - 1)
       PROVE  r[k] # tailBlock /\ r[k + 1] = blocks[r[k]].next
  <2>1. k \in 0..n /\ k + 1 \in 0..n /\ k # n /\ k + 1 \in Nat \ {0} /\ (k + 1) - 1 = k
    BY <1>6
  <2>2. pos[r[k]] = k /\ r[k] = Ring[k] /\ r[k + 1] = Ring[k + 1] /\ n = pos[tailBlock]
    BY <1>7, <1>8, <2>1, Zenon DEF n
  <2>3. Ring[k + 1] = blocks[Ring[(k + 1) - 1]].next
    BY <1>3, <2>1, Zenon
  <2> QED
    BY <2>1, <2>2, <2>3, Zenon
<1>12. Path(r, n)
  BY <1>6, <1>9, <1>10, <1>11, Zenon DEF Path
<1>13. n = pos[tailBlock]
  BY DEF n
<1>14. PathAt(pos, r, n)
  BY <1>1, <1>8, <1>12, <1>13, Zenon DEF PathAt
<1> QED
  BY <1>14

-----------------------------------------------------------------------------
(* What the stores do to the blocks.                                       *)

Keeps(b) ==
  /\ blocks'[b].front = blocks[b].front /\ blocks'[b].tail = blocks[b].tail
  /\ blocks'[b].size = blocks[b].size /\ blocks'[b].data = blocks[b].data

LEMMA ConstructStores ==
  ASSUME IInv, Construct
  PROVE  /\ N' = N /\ p.blk \in 1..N /\ p.slot = blocks[p.blk].tail
         /\ \A b \in 1..N : blocks'[b].next = blocks[b].next
         /\ \A b \in 1..N : b # p.blk => Keeps(b)
         /\ blocks'[p.blk].front = blocks[p.blk].front
         /\ blocks'[p.blk].tail = blocks[p.blk].tail
         /\ blocks'[p.blk].size = blocks[p.blk].size
         /\ blocks'[p.blk].data \in Seq(Nat) /\ Len(blocks'[p.blk].data) = blocks[p.blk].size
         /\ \A i \in 1..blocks[p.blk].size :
              blocks'[p.blk].data[i] = IF i = p.slot + 1 THEN sent + 1 ELSE blocks[p.blk].data[i]
<1>1. p.pc = "construct" /\ Shape /\ sent \in Nat
  BY LocalFacts DEF Construct
<1>2. p.blk \in 1..N /\ p.slot = blocks[p.blk].tail
  BY <1>1, ProducerSlot
<1> DEFINE B == p.blk
           d == [blocks[B].data EXCEPT ![p.slot + 1] = sent + 1]
           r == [blocks[B] EXCEPT !.data = d]
<1>3. /\ d \in Seq(Nat) /\ Len(d) = blocks[B].size
      /\ \A i \in 1..blocks[B].size : d[i] = IF i = p.slot + 1 THEN sent + 1 ELSE blocks[B].data[i]
  <2>1. /\ blocks[B].data \in Seq(Nat) /\ Len(blocks[B].data) = blocks[B].size
        /\ blocks[B].tail \in 0..(blocks[B].size - 1) /\ blocks[B].size \in Nat
    BY <1>1, <1>2, BlockFacts
  <2>2. p.slot + 1 \in 1..Len(blocks[B].data) /\ sent + 1 \in Nat
    <3> HIDE DEF B, d
    <3>1. p.slot \in 0..(Len(blocks[B].data) - 1) /\ Len(blocks[B].data) \in Nat
      BY <1>2, <2>1, Zenon DEF B
    <3>2. sent \in Nat
      BY <1>1
    <3> QED
      BY <3>1, <3>2
  <2>3. /\ d \in Seq(Nat) /\ Len(d) = Len(blocks[B].data)
        /\ \A i \in 1..Len(blocks[B].data) :
             d[i] = IF i = p.slot + 1 THEN sent + 1 ELSE blocks[B].data[i]
    BY <2>1, <2>2, ExceptSeq
  <2> QED
    BY <2>1, <2>3
<1>4. /\ r \in BlockRec /\ r.front = blocks[B].front /\ r.tail = blocks[B].tail
      /\ r.next = blocks[B].next /\ r.size = blocks[B].size /\ r.data = d
  <2> HIDE DEF d
  <2> QED
    BY <1>1, <1>2, <1>3, BlockFacts DEF BlockRec
<1>5. blocks' = [blocks EXCEPT ![B] = r]
  BY <1>1, <1>2, BlocksAreSeq, BlockFacts DEF Construct, BlockRec
<1> HIDE DEF r
<1>6. /\ N' = N /\ blocks'[B] = r
      /\ \A b \in 1..N : b # B => blocks'[b] = blocks[b]
  BY <1>1, <1>2, <1>4, <1>5, ReplaceBlock
<1> HIDE DEF d
<1>7. \A b \in 1..N : b # B => Keeps(b)
  BY <1>6 DEF Keeps
<1>8. \A b \in 1..N : blocks'[b].next = blocks[b].next
  BY <1>4, <1>6
<1> QED
  BY <1>2, <1>3, <1>4, <1>6, <1>7, <1>8

LEMMA PublishStores ==
  ASSUME IInv, Publish
  PROVE  /\ N' = N /\ p.blk \in 1..N /\ p.slot = blocks[p.blk].tail
         /\ \A b \in 1..N : blocks'[b].next = blocks[b].next
         /\ \A b \in 1..N : b # p.blk => Keeps(b)
         /\ blocks'[p.blk].front = blocks[p.blk].front
         /\ blocks'[p.blk].tail = Succ(p.blk, blocks[p.blk].tail)
         /\ blocks'[p.blk].tail # blocks[p.blk].front
         /\ blocks'[p.blk].size = blocks[p.blk].size
         /\ blocks'[p.blk].data = blocks[p.blk].data
<1>1. p.pc = "publish" /\ Shape
  BY LocalFacts DEF Publish
<1>2. p.blk \in 1..N /\ p.slot = blocks[p.blk].tail /\ Room(p.blk)
  BY <1>1, ProducerSlot
<1> DEFINE B == p.blk
           v == Succ(B, blocks[B].tail)
           r == [blocks[B] EXCEPT !.tail = v]
<1>3. /\ After(B, p.slot) = v /\ v \in Nat /\ v # blocks[B].front /\ blocks[B] \in BlockRec
  BY <1>1, <1>2, BlockFacts, SuccFacts DEF Room
<1> HIDE DEF v
<1>4. /\ r \in BlockRec /\ r.front = blocks[B].front /\ r.tail = v
      /\ r.next = blocks[B].next /\ r.size = blocks[B].size /\ r.data = blocks[B].data
  BY <1>3 DEF BlockRec
<1>5. blocks' = [blocks EXCEPT ![B] = r]
  BY <1>3 DEF Publish
<1> HIDE DEF r
<1>6. /\ N' = N /\ blocks'[B] = r
      /\ \A b \in 1..N : b # B => blocks'[b] = blocks[b]
  BY <1>1, <1>2, <1>4, <1>5, ReplaceBlock
<1>7. \A b \in 1..N : b # B => Keeps(b)
  BY <1>6 DEF Keeps
<1>8. \A b \in 1..N : blocks'[b].next = blocks[b].next
  BY <1>4, <1>6
<1> QED
  BY <1>2, <1>3, <1>4, <1>6, <1>7, <1>8 DEF v

LEMMA ReleaseStores ==
  ASSUME IInv, Release
  PROVE  /\ N' = N /\ c.blk \in 1..N /\ c.blk = frontBlock /\ c.slot = blocks[c.blk].front
         /\ blocks[c.blk].front # blocks[c.blk].tail
         /\ \A b \in 1..N : blocks'[b].next = blocks[b].next
         /\ \A b \in 1..N : b # c.blk => Keeps(b)
         /\ blocks'[c.blk].front = Succ(c.blk, blocks[c.blk].front)
         /\ blocks'[c.blk].tail = blocks[c.blk].tail
         /\ blocks'[c.blk].size = blocks[c.blk].size
         /\ \A b \in 1..N : blocks'[b].data = blocks[b].data
<1>1. c.pc = "release" /\ Shape
  BY LocalFacts DEF Release
<1>2. /\ c.blk \in 1..N /\ c.slot = blocks[c.blk].front /\ ~Empty(c.blk) /\ c.blk = frontBlock
  BY <1>1 DEF IInv, ConsumerAt
<1> DEFINE B == c.blk
           v == Succ(B, blocks[B].front)
           r == [blocks[B] EXCEPT !.front = v]
<1>3. /\ After(B, c.slot) = v /\ v \in Nat
      /\ blocks[B].front # blocks[B].tail /\ blocks[B] \in BlockRec
  BY <1>1, <1>2, BlockFacts, SuccFacts DEF Empty
<1> HIDE DEF v
<1>4. /\ r \in BlockRec /\ r.front = v /\ r.tail = blocks[B].tail
      /\ r.next = blocks[B].next /\ r.size = blocks[B].size /\ r.data = blocks[B].data
  BY <1>3 DEF BlockRec
<1>5. blocks' = [blocks EXCEPT ![B] = r]
  BY <1>3 DEF Release
<1> HIDE DEF r
<1>6. /\ N' = N /\ blocks'[B] = r
      /\ \A b \in 1..N : b # B => blocks'[b] = blocks[b]
  BY <1>1, <1>2, <1>4, <1>5, ReplaceBlock
<1>7. \A b \in 1..N : b # B => Keeps(b)
  BY <1>6 DEF Keeps
<1>8. \A b \in 1..N : blocks'[b].next = blocks[b].next /\ blocks'[b].data = blocks[b].data
  BY <1>4, <1>6
<1> QED
  BY <1>2, <1>3, <1>4, <1>6, <1>7, <1>8 DEF v

LEMMA LinkStores ==
  ASSUME IInv, Link
  PROVE  /\ N' = N /\ p.blk = N /\ frontBlock # N /\ tailBlock # N /\ N \in 1..N
         /\ \A b \in 1..N : b # tailBlock => blocks'[b].next = blocks[b].next
         /\ \A b \in 1..N : Keeps(b)
<1>1. p.pc = "link" /\ Shape
  BY LocalFacts DEF Link
<1>2. PICK pos \in [1..Linked -> 0..(Linked - 1)] : RingAt(pos)
  BY DEF IInv
<1>3. /\ N \in Nat /\ tailBlock \in 1..N /\ N \in 1..N /\ frontBlock # N /\ tailBlock # N
  <2>1. Ordered(pos)
    BY <1>2 DEF RingAt
  <2>2. Linked = N - 1
    BY <1>1 DEF Linked
  <2>3. /\ N \in Nat /\ N >= 1 /\ tailBlock \in 1..Linked /\ frontBlock \in 1..Linked
    BY <1>1, <2>1, LinkedFacts
  <2> QED
    BY <2>2, <2>3
<1>4. p.blk = N
  BY <1>1, <1>2 DEF RingAt, ProducerAt
<1> DEFINE r == [blocks[tailBlock] EXCEPT !.next = N]
<1>5. blocks[tailBlock] \in BlockRec
  BY <1>1, <1>3, BlockFacts
<1>6. /\ r \in BlockRec /\ r.front = blocks[tailBlock].front /\ r.tail = blocks[tailBlock].tail
      /\ r.size = blocks[tailBlock].size /\ r.data = blocks[tailBlock].data
  BY <1>3, <1>5 DEF BlockRec
<1>7. blocks' = [blocks EXCEPT ![tailBlock] = r]
  BY <1>4 DEF Link
<1> HIDE DEF r
<1>8. /\ N' = N /\ blocks'[tailBlock] = r
      /\ \A b \in 1..N : b # tailBlock => blocks'[b] = blocks[b]
  BY <1>1, <1>3, <1>6, <1>7, ReplaceBlock
<1>9. \A b \in 1..N : Keeps(b)
  BY <1>6, <1>8 DEF Keeps
<1> QED
  BY <1>3, <1>4, <1>8, <1>9

LEMMA AllocStores ==
  ASSUME IInv, Alloc
  PROVE  /\ N' = N + 1 /\ N \in Nat /\ \A b \in 1..N : blocks'[b] = blocks[b]
         /\ p'.blk = N + 1 /\ p'.pc = "link"
         /\ blocks'[N + 1].front = 0 /\ blocks'[N + 1].tail = 1
         /\ blocks'[N + 1].size \in Nat /\ blocks'[N + 1].size >= 4
         /\ blocks'[N + 1].data[1] = sent + 1
<1> DEFINE B == Block(2 * largest, 1, blocks[tailBlock].next, sent + 1)
<1>1. /\ p.pc = "alloc" /\ p'.pc = "link" /\ p'.blk = N + 1
      /\ Shape /\ sent \in Nat /\ p \in PType
      /\ blocks' = Append(blocks, B)
  BY LocalFacts DEF Alloc, PType, N
<1>2. N \in Nat /\ N \in 1..N /\ largest = blocks[N].size /\ tailBlock \in 1..N
  BY <1>1 DEF Shape
<1>3. largest \in Nat /\ largest >= 2 /\ blocks[tailBlock].next \in Nat
  BY <1>1, <1>2, BlockFacts
<1> DEFINE n == 2 * largest
           d == [i \in 1..n |-> IF i = 1 THEN sent + 1 ELSE 0]
<1>4. n \in Nat /\ n >= 4
  BY <1>3
<1>5. B = [front |-> 0, tail |-> 1, next |-> blocks[tailBlock].next, size |-> n, data |-> d]
  BY DEF Block
<1> HIDE DEF B, n
<1>6. d \in Seq(Nat) /\ d[1] = sent + 1
  BY <1>1, <1>4
<1> HIDE DEF d
<1>7. /\ B \in BlockRec /\ B.front = 0 /\ B.tail = 1 /\ B.size = n /\ B.data[1] = sent + 1
  BY <1>3, <1>4, <1>5, <1>6 DEF BlockRec
<1>8. blocks \in Seq(BlockRec) /\ N = Len(blocks)
  BY <1>1, BlocksAreSeq DEF N
<1>9. /\ Len(blocks') = N + 1 /\ blocks'[N + 1] = B
      /\ \A i \in 1..N : blocks'[i] = blocks[i]
  BY <1>1, <1>7, <1>8, AppendProperties
<1>10. N' = N + 1
  BY <1>9 DEF N
<1> QED
  BY <1>1, <1>2, <1>4, <1>7, <1>9, <1>10

-----------------------------------------------------------------------------
(* What the threads are about to publish and to return.                    *)

(* A constructed element is the next one to be sent; a block that becomes  *)
(* the tail block brings that element and no other.  What the consumer     *)
(* has moved out is the oldest element; a peek that has gone on to the     *)
(* next block left nothing behind.                                         *)
DataInv ==
  /\ p.pc = "publish" => blocks[p.blk].data[p.slot + 1] = sent + 1
  /\ p.pc \in {"link", "advance"} =>
       /\ blocks[p.blk].tail = Succ(p.blk, blocks[p.blk].front)
       /\ blocks[p.blk].data[blocks[p.blk].front + 1] = sent + 1
  /\ c.pc = "release" => c.val = blocks[c.blk].data[c.slot + 1]
  /\ c.pc = "take" /\ c.blk # frontBlock =>
       c.blk = blocks[frontBlock].next /\ tailBlock # frontBlock /\ Empty(frontBlock)

(* The block that the producer works in, if it is not the tail block, is   *)
(* the next one, and the consumer is not in it.                            *)
LEMMA ProducerApart ==
  ASSUME IInv, NEW pos, RingAt(pos)
  PROVE  /\ p.pc \in {"construct", "publish"} /\ p.blk # tailBlock =>
              p.blk # frontBlock /\ Empty(p.blk) /\ pos[p.blk] = pos[tailBlock] + 1
         /\ p.pc = "advance" =>
              /\ p.blk \in 1..N /\ p.blk # frontBlock /\ p.blk # tailBlock
              /\ p.blk = blocks[tailBlock].next /\ pos[p.blk] = pos[tailBlock] + 1
              /\ Linked = N
<1>1. Shape /\ Ordered(pos) /\ Filled(pos) /\ ProducerAt(pos)
  BY DEF IInv, RingAt
<1>2. /\ N \in Nat /\ Linked \in 1..N /\ (p.pc # "link" => Linked = N)
      /\ frontBlock \in 1..Linked /\ tailBlock \in 1..Linked /\ pos[frontBlock] = 0
      /\ pos[tailBlock] \in Int /\ 0 <= pos[tailBlock] /\ pos[tailBlock] <= Linked - 1
      /\ blocks[tailBlock].next \in 1..Linked
  BY <1>1, LinkedFacts
<1>3. \A b \in 1..Linked : pos[b] <= Linked - 1 /\ pos[b] \in Int
  BY <1>1, LinkedFacts
<1>4. ASSUME NEW b \in 1..Linked, pos[b] = pos[tailBlock] + 1
      PROVE  b # frontBlock /\ b # tailBlock /\ b = blocks[tailBlock].next /\ b \in 1..N
  <2>1. pos[blocks[tailBlock].next] =
          IF pos[tailBlock] = Linked - 1 THEN 0 ELSE pos[tailBlock] + 1
    BY <1>1, <1>2 DEF Ordered
  <2>2. pos[b] <= Linked - 1
    BY <1>3
  <2>3. pos[blocks[tailBlock].next] = pos[b]
    BY <1>2, <1>4, <2>1, <2>2
  <2>4. b = blocks[tailBlock].next
    BY <1>1, <1>2, <2>3 DEF Ordered
  <2> QED
    BY <1>2, <1>4, <2>4
<1>5. ASSUME p.pc \in {"construct", "publish"}, p.blk # tailBlock
      PROVE  p.blk # frontBlock /\ Empty(p.blk) /\ pos[p.blk] = pos[tailBlock] + 1
  <2>1. p.blk \in 1..Linked /\ pos[p.blk] = pos[tailBlock] + 1
    BY <1>1, <1>5 DEF ProducerAt
  <2>2. pos[p.blk] > pos[tailBlock]
    BY <1>2, <2>1
  <2>3. Empty(p.blk)
    BY <1>1, <1>5, <2>1, <2>2 DEF Filled
  <2> QED
    BY <1>4, <2>1, <2>3
<1>6. ASSUME p.pc = "advance"
      PROVE  /\ p.blk \in 1..N /\ p.blk # frontBlock /\ p.blk # tailBlock
             /\ p.blk = blocks[tailBlock].next /\ pos[p.blk] = pos[tailBlock] + 1
             /\ Linked = N
  <2>1. p.blk \in 1..Linked /\ pos[p.blk] = pos[tailBlock] + 1
    BY <1>1, <1>6 DEF ProducerAt
  <2> QED
    BY <1>2, <1>4, <1>6, <2>1
<1> QED
  BY <1>5, <1>6

LEMMA InitData == Init => DataInv
  BY DEF Init, DataInv, NotIn, NotOut, Out

(* The steps of the producer.                                              *)
LEMMA ProducerData == IInv /\ DataInv /\ Producer => DataInv'
<1> SUFFICES ASSUME IInv, DataInv, Producer PROVE DataInv'
  OBVIOUS
<1>1. PICK pos \in [1..Linked -> 0..(Linked - 1)] : RingAt(pos)
  BY DEF IInv
<1>2. /\ Shape /\ p \in PType /\ N \in Nat /\ frontBlock \in 1..N /\ tailBlock \in 1..N
      /\ (c.pc \in {"take", "release"} => c.blk \in 1..N /\ c.slot = blocks[c.blk].front
                                          /\ ~Empty(c.blk))
  BY LocalFacts DEF IInv, ConsumerAt
<1>3. CASE (\E op \in EnqOps : LoadTailBlock(op)) \/ CheckNext \/ ReuseNext \/ AllocFails
  <2>1. UNCHANGED <<blocks, frontBlock, tailBlock, c, sent>>
    BY <1>3 DEF LoadTailBlock, CheckNext, ReuseNext, AllocFails
  <2>2. p'.pc \notin {"publish", "link", "advance"}
    <3>1. CASE \E op \in EnqOps : LoadTailBlock(op)
      BY <3>1 DEF LoadTailBlock
    <3>2. CASE CheckNext
      BY <1>2, <3>2 DEF CheckNext, NotIn, PType
    <3>3. CASE ReuseNext
      BY <1>2, <3>3 DEF ReuseNext, PType
    <3>4. CASE AllocFails
      BY <3>4 DEF AllocFails, NotIn
    <3> QED
      BY <1>3, <3>1, <3>2, <3>3, <3>4
  <2> QED
    BY <2>1, <2>2 DEF DataInv, Empty
<1>4. CASE Construct
  <2>1. /\ N' = N /\ p.blk \in 1..N /\ p.slot = blocks[p.blk].tail
        /\ \A b \in 1..N : blocks'[b].next = blocks[b].next
        /\ \A b \in 1..N : b # p.blk => Keeps(b)
        /\ blocks'[p.blk].front = blocks[p.blk].front
        /\ blocks'[p.blk].tail = blocks[p.blk].tail
        /\ \A i \in 1..blocks[p.blk].size :
             blocks'[p.blk].data[i] = IF i = p.slot + 1 THEN sent + 1 ELSE blocks[p.blk].data[i]
    BY <1>4, ConstructStores
  <2>2. /\ p'.pc = "publish" /\ p'.blk = p.blk /\ p'.slot = p.slot
        /\ UNCHANGED <<frontBlock, tailBlock, c, sent>>
    BY <1>2, <1>4 DEF Construct, PType
  <2>3. blocks'[p.blk].data[p.slot + 1] = sent + 1
    <3>1. blocks[p.blk].size \in Nat /\ p.slot \in 0..(blocks[p.blk].size - 1)
      BY <1>2, <2>1, BlockFacts, Zenon
    <3>2. p.slot + 1 \in 1..blocks[p.blk].size
      BY <3>1
    <3> QED
      BY <2>1, <3>2
  <2>4. ASSUME c.pc = "release" PROVE c.val = blocks'[c.blk].data[c.slot + 1]
    <3>1. c.blk \in 1..N /\ c.slot = blocks[c.blk].front /\ blocks[c.blk].front # blocks[c.blk].tail
      BY <1>2, <2>4 DEF Empty
    <3>2. c.val = blocks[c.blk].data[c.slot + 1]
      BY <2>4 DEF DataInv
    <3>3. CASE c.blk # p.blk
      BY <2>1, <3>1, <3>2, <3>3 DEF Keeps
    <3>4. CASE c.blk = p.blk
      <4>1. /\ blocks[p.blk].front \in Nat /\ blocks[p.blk].tail \in Nat
            /\ c.slot + 1 \in 1..blocks[p.blk].size
        <5>1. /\ blocks[p.blk].front \in Nat /\ blocks[p.blk].tail \in Nat
              /\ blocks[p.blk].size \in Nat
              /\ blocks[p.blk].front \in 0..(blocks[p.blk].size - 1)
          BY <1>2, <3>1, <3>4, BlockFacts
        <5>2. c.slot \in 0..(blocks[p.blk].size - 1)
          BY <3>1, <3>4, <5>1, Zenon
        <5> QED
          BY <5>1, <5>2
      <4>2. c.slot + 1 # p.slot + 1
        <5>1. c.slot \in Nat /\ p.slot \in Nat /\ c.slot # p.slot
          BY <2>1, <3>1, <3>4, <4>1, Zenon
        <5> QED
          BY <5>1
      <4> QED
        BY <2>1, <3>2, <3>4, <4>1, <4>2
    <3> QED
      BY <3>3, <3>4
  <2>5. ASSUME c.pc = "take", c.blk # frontBlock
        PROVE  c.blk = blocks'[frontBlock].next /\ tailBlock # frontBlock
               /\ blocks'[frontBlock].front = blocks'[frontBlock].tail
    <3>1. c.blk = blocks[frontBlock].next /\ tailBlock # frontBlock /\ Empty(frontBlock)
      BY <2>5 DEF DataInv
    <3>2. /\ blocks'[frontBlock].front = blocks[frontBlock].front
          /\ blocks'[frontBlock].tail = blocks[frontBlock].tail
      BY <1>2, <2>1 DEF Keeps
    <3> QED
      BY <1>2, <2>1, <3>1, <3>2 DEF Empty
  <2> QED
    BY <2>2, <2>3, <2>4, <2>5 DEF DataInv, Empty
<1>5. CASE Publish
  <2>1. /\ N' = N /\ p.blk \in 1..N /\ p.slot = blocks[p.blk].tail
        /\ \A b \in 1..N : blocks'[b].next = blocks[b].next
        /\ \A b \in 1..N : b # p.blk => Keeps(b)
        /\ blocks'[p.blk].front = blocks[p.blk].front
        /\ blocks'[p.blk].tail = Succ(p.blk, blocks[p.blk].tail)
        /\ blocks'[p.blk].size = blocks[p.blk].size
        /\ blocks'[p.blk].data = blocks[p.blk].data
    BY <1>5, PublishStores
  <2>2. /\ p.pc = "publish" /\ UNCHANGED <<frontBlock, tailBlock, c>>
        /\ (p.blk = tailBlock => p'.pc = "idle")
        /\ (p.blk # tailBlock => p'.pc = "advance" /\ p'.blk = p.blk /\ sent' = sent)
    BY <1>2, <1>5 DEF Publish, NotIn, PType
  <2>3. p.blk # tailBlock => p.blk # frontBlock /\ Empty(p.blk)
    BY <1>1, <2>2, ProducerApart
  <2>4. ASSUME p.blk # tailBlock
        PROVE  /\ blocks'[p.blk].tail = Succ(p.blk, blocks[p.blk].front)
               /\ blocks'[p.blk].data[blocks'[p.blk].front + 1] = sent + 1
    <3>1. blocks[p.blk].front = blocks[p.blk].tail
      BY <2>3, <2>4 DEF Empty
    <3>2. blocks[p.blk].data[p.slot + 1] = sent + 1
      BY <2>2 DEF DataInv
    <3> QED
      BY <2>1, <3>1, <3>2
  <2>5. ASSUME c.pc = "release" PROVE c.val = blocks'[c.blk].data[c.slot + 1]
    <3>1. c.val = blocks[c.blk].data[c.slot + 1] /\ c.blk \in 1..N
      BY <1>2, <2>5 DEF DataInv
    <3> QED
      BY <2>1, <3>1 DEF Keeps
  <2>6. ASSUME c.pc = "take", c.blk # frontBlock
        PROVE  c.blk = blocks'[frontBlock].next /\ tailBlock # frontBlock
               /\ blocks'[frontBlock].front = blocks'[frontBlock].tail
    <3>1. c.blk = blocks[frontBlock].next /\ tailBlock # frontBlock /\ Empty(frontBlock)
      BY <2>6 DEF DataInv
    <3>2. Keeps(frontBlock)
      BY <1>2, <2>1, <2>3, <3>1
    <3> QED
      BY <1>2, <2>1, <3>1, <3>2 DEF Empty, Keeps
  <2>7. CASE p.blk = tailBlock
    BY <2>2, <2>5, <2>6, <2>7 DEF DataInv, Empty
  <2>8. CASE p.blk # tailBlock
    <3>1. Succ(p.blk, blocks[p.blk].front) =
            IF blocks'[p.blk].front + 1 = blocks'[p.blk].size THEN 0 ELSE blocks'[p.blk].front + 1
      BY <2>1 DEF Succ
    <3> QED
      BY <2>2, <2>4, <2>5, <2>6, <2>8, <3>1 DEF DataInv, Empty, Succ
  <2> QED
    BY <2>7, <2>8
<1>6. CASE Alloc
  <2>1. /\ N' = N + 1 /\ \A b \in 1..N : blocks'[b] = blocks[b]
        /\ p'.blk = N + 1 /\ p'.pc = "link"
        /\ blocks'[N + 1].front = 0 /\ blocks'[N + 1].tail = 1
        /\ blocks'[N + 1].size \in Nat /\ blocks'[N + 1].size >= 4
        /\ blocks'[N + 1].data[1] = sent + 1
    BY <1>6, AllocStores
  <2>2. UNCHANGED <<frontBlock, tailBlock, c, sent>>
    BY <1>6 DEF Alloc
  <2>3. /\ (c.pc = "release" => blocks'[c.blk] = blocks[c.blk])
        /\ blocks'[frontBlock] = blocks[frontBlock]
    BY <1>2, <2>1
  <2> QED
    BY <2>1, <2>2, <2>3 DEF DataInv, Empty, Succ
<1>7. CASE Link
  <2>1. /\ N' = N /\ p.blk = N /\ N \in 1..N
        /\ \A b \in 1..N : b # tailBlock => blocks'[b].next = blocks[b].next
        /\ \A b \in 1..N : Keeps(b)
    BY <1>7, LinkStores
  <2>2. /\ p.pc = "link" /\ p'.pc = "advance" /\ p'.blk = p.blk
        /\ UNCHANGED <<frontBlock, tailBlock, c, sent>>
    BY <1>2, <1>7 DEF Link, PType
  <2>3. Keeps(p.blk) /\ Keeps(frontBlock) /\ (c.pc = "release" => Keeps(c.blk))
    BY <1>2, <2>1
  <2>4. tailBlock # frontBlock => blocks'[frontBlock].next = blocks[frontBlock].next
    BY <1>2, <2>1
  <2> QED
    BY <2>2, <2>3, <2>4 DEF DataInv, Empty, Succ, Keeps
<1>8. CASE AdvanceTail
  <2>1. /\ p.pc = "advance" /\ p'.pc = "idle" /\ tailBlock' = p.blk
        /\ UNCHANGED <<blocks, frontBlock, c>>
    BY <1>8 DEF AdvanceTail, NotIn
  <2>2. p.blk # frontBlock
    BY <1>1, <2>1, ProducerApart
  <2> QED
    BY <2>1, <2>2 DEF DataInv, Empty
<1> QED
  BY <1>3, <1>4, <1>5, <1>6, <1>7, <1>8 DEF Producer

(* The steps of the consumer.                                              *)
LEMMA ConsumerData == IInv /\ DataInv /\ Consumer => DataInv'
<1> SUFFICES ASSUME IInv, DataInv, Consumer PROVE DataInv'
  OBVIOUS
<1>1. PICK pos \in [1..Linked -> 0..(Linked - 1)] : RingAt(pos)
  BY DEF IInv
<1>2. /\ Shape /\ c \in CType /\ N \in Nat /\ frontBlock \in 1..N
      /\ ConsumerAt
  BY LocalFacts DEF IInv
<1>3. CASE (\E op \in DeqOps : RememberTail(op)) \/ CompareTail
  <2>1. /\ UNCHANGED <<blocks, frontBlock, tailBlock, p, sent>>
        /\ c'.pc \notin {"take", "release"}
    BY <1>2, <1>3 DEF RememberTail, CompareTail, NotOut, Out, CType
  <2> QED
    BY <2>1 DEF DataInv, Empty, Succ
<1>4. CASE LoadFrontBlock
  <2>1. /\ UNCHANGED <<blocks, frontBlock, tailBlock, p, sent>>
        /\ c'.pc # "release" /\ c'.blk = frontBlock
    BY <1>2, <1>4 DEF LoadFrontBlock, CType
  <2> QED
    BY <2>1 DEF DataInv, Empty, Succ
<1>5. CASE LoadNext
  <2>1. /\ UNCHANGED <<blocks, frontBlock, tailBlock, p, sent>>
        /\ c.pc = "next" /\ c'.pc # "release" /\ c'.blk = blocks[c.blk].next
    BY <1>2, <1>5 DEF LoadNext, CType
  <2>2. c.blk = frontBlock /\ tailBlock # frontBlock /\ Empty(frontBlock)
    BY <1>2, <2>1 DEF ConsumerAt
  <2> QED
    BY <2>1, <2>2 DEF DataInv, Empty, Succ
<1>6. CASE MoveFront
  <2>1. /\ UNCHANGED <<blocks, tailBlock, p, sent>>
        /\ c'.pc = "take" /\ c'.blk = frontBlock'
    BY <1>2, <1>6 DEF MoveFront, CType
  <2> QED
    BY <2>1 DEF DataInv, Succ
<1>7. CASE Take
  <2>1. UNCHANGED <<blocks, frontBlock, tailBlock, p, sent>>
    BY <1>7 DEF Take
  <2>2. CASE c.op = "peek"
    <3>1. c'.pc = "idle"
      BY <1>7, <2>2 DEF Take, NotOut, Out
    <3> QED
      BY <2>1, <3>1 DEF DataInv, Succ
  <2>3. CASE c.op # "peek"
    <3>1. /\ c'.pc = "release" /\ c'.blk = c.blk /\ c'.slot = c.slot
          /\ c'.val = blocks[c.blk].data[c.slot + 1]
      BY <1>2, <1>7, <2>3 DEF Take, CType
    <3> QED
      BY <2>1, <3>1 DEF DataInv, Succ
  <2> QED
    BY <2>2, <2>3
<1>8. CASE Release
  <2>1. /\ N' = N /\ c.blk \in 1..N /\ c.blk = frontBlock
        /\ \A b \in 1..N : b # c.blk => Keeps(b)
        /\ \A b \in 1..N : blocks'[b].data = blocks[b].data
    BY <1>8, ReleaseStores
  <2>2. c'.pc = "idle" /\ UNCHANGED <<frontBlock, tailBlock, p, sent>>
    BY <1>8 DEF Release, NotOut, Out
  <2>3. p.pc = "publish" => p.blk \in 1..N
    BY ProducerSlot
  <2>4. p.pc = "advance" => p.blk \in 1..N /\ p.blk # frontBlock
    BY <1>1, ProducerApart
  <2>5. p.pc = "link" => p.blk \in 1..N /\ p.blk # frontBlock
    <3> SUFFICES ASSUME p.pc = "link" PROVE p.blk \in 1..N /\ p.blk # frontBlock
      OBVIOUS
    <3>1. p.blk = N /\ Linked = N - 1 /\ Ordered(pos)
      BY <1>1 DEF RingAt, ProducerAt, Linked
    <3>2. frontBlock \in 1..Linked
      BY <1>2, <3>1, LinkedFacts
    <3> QED
      BY <1>2, <3>1, <3>2
  <2>6. p.pc \in {"link", "advance"} => Keeps(p.blk)
    BY <2>1, <2>4, <2>5
  <2> QED
    BY <2>1, <2>2, <2>3, <2>6 DEF DataInv, Succ, Keeps
<1> QED
  BY <1>3, <1>4, <1>5, <1>6, <1>7, <1>8 DEF Consumer

LEMMA DataStep == IInv /\ DataInv /\ [Next]_vars => DataInv'
<1> SUFFICES ASSUME IInv, DataInv, [Next]_vars PROVE DataInv'
  OBVIOUS
<1>1. CASE (\E t \in DOMAIN size : Sizing(t)) \/ Destroy \/ UNCHANGED vars
  <2>1. UNCHANGED <<blocks, frontBlock, tailBlock, p, c, sent>>
    BY <1>1, ZenonT(60)
       DEF Sizing, SizeBegin, SizeFront, SizeTail, SizeNext, Destroy, DestroyTo, vars
  <2> QED
    BY <2>1 DEF DataInv, Empty, Succ
<1> QED
  BY <1>1, ProducerData, ConsumerData DEF Next

-----------------------------------------------------------------------------
(* What a step does to the contents.                                       *)

LEMMA DataInvariance == Spec => [](IInv /\ DataInv)
<1>1. Init => IInv /\ DataInv
  BY InitInv, InitData
<1>2. IInv /\ DataInv /\ [Next]_vars => IInv' /\ DataInv'
  BY NextInv, DataStep
<1> QED
  BY <1>1, <1>2, PTL DEF Spec

LEMMA ItemsAreNext ==
  ASSUME NEW b
  PROVE  Items(b)' = Elems(blocks'[b].size, blocks'[b].front, blocks'[b].tail, blocks'[b].data)
  BY DEF Items, Used, Elems

LEMMA KeptItems ==
  ASSUME NEW b, Keeps(b)
  PROVE  Items(b)' = Items(b)
<1>1. /\ blocks'[b].front = blocks[b].front /\ blocks'[b].tail = blocks[b].tail
      /\ blocks'[b].size = blocks[b].size /\ blocks'[b].data = blocks[b].data
  BY DEF Keeps
<1> QED
  BY <1>1, ItemsAre, ItemsAreNext, Zenon

LEMMA ItemsAreSeqs ==
  ASSUME Shape, NEW r, NEW n \in Nat, \A k \in 0..n : r[k] \in 1..N
  PROVE  AreSeqs(ItemsOn(r, n), n)
<1>1. ASSUME NEW b \in 1..N PROVE Items(b) \in Seq(Nat)
  BY BlockIsBuffer, ElemsAre, ItemsAre
<1>2. ASSUME NEW k \in 0..n PROVE ItemsOn(r, n)[k] \in Seq(Nat)
  BY <1>1 DEF ItemsOn
<1> QED
  BY <1>2, Zenon DEF AreSeqs

LEMMA PathKept ==
  ASSUME Shape, Shape', NEW r, NEW n, Path(r, n), N' >= N, UNCHANGED <<frontBlock, tailBlock>>,
         \A k \in 0..(n - 1) : blocks'[r[k]].next = blocks[r[k]].next
  PROVE  Path(r, n)'
<1>1. N \in Nat /\ N' \in Nat
  BY DEF Shape
<1>2. n \in 0..(N' - 1)
  <2>1. n \in 0..(N - 1)
    BY DEF Path
  <2>2. \A x, y \in Nat : y >= x => \A i \in 0..(x - 1) : i \in 0..(y - 1)
    OBVIOUS
  <2> QED
    BY <1>1, <2>1, <2>2, Zenon
<1>3. ASSUME NEW k \in 0..n PROVE r[k] \in 1..N'
  <2>1. r[k] \in 1..N
    BY DEF Path
  <2>2. \A x, y \in Nat : y >= x => \A i \in 1..x : i \in 1..y
    OBVIOUS
  <2> QED
    BY <1>1, <2>1, <2>2, Zenon
<1>4. ASSUME NEW k \in 0..(n - 1)
      PROVE  r[k] # tailBlock' /\ r[k + 1] = blocks'[r[k]].next
  BY DEF Path
<1>5. r[0] = frontBlock' /\ r[n] = tailBlock'
  BY DEF Path
<1> QED
  BY <1>2, <1>3, <1>4, <1>5 DEF Path

LEMMA ContentsKept ==
  ASSUME IInv, IInv', NEW r, NEW n, Path(r, n), N' >= N, UNCHANGED <<frontBlock, tailBlock>>,
         \A k \in 0..(n - 1) : blocks'[r[k]].next = blocks[r[k]].next,
         \A k \in 0..n : Items(r[k])' = Items(r[k])
  PROVE  Contents' = Contents
<1>1. n \in Nat
  BY DEF Path
<1>2. Path(r, n)'
  BY PathKept DEF IInv
<1>3. Contents = Cat(ItemsOn(r, n), n) /\ Contents' = Cat(ItemsOn(r, n), n)'
  BY <1>2, ContentsOfPath, ContentsOfPathNext
<1>4. Cat(ItemsOn(r, n), n)' = Cat([k \in 0..n |-> Items(r[k])'], n)
  BY DEF ItemsOn, Cat
<1>5. [k \in 0..n |-> Items(r[k])'] = ItemsOn(r, n)
  BY DEF ItemsOn
<1> QED
  BY <1>3, <1>4, <1>5

(* The steps that keep the blocks.                                         *)
LEMMA QuietContents ==
  ASSUME IInv, IInv', UNCHANGED <<blocks, frontBlock, tailBlock>>
  PROVE  Contents' = Contents
<1>1. PICK pos, r, n : PathAt(pos, r, n)
  BY PathExists
<1>2. Path(r, n) /\ N' = N /\ N \in Nat
  BY <1>1 DEF PathAt, N, IInv, Shape
<1>3. \A k \in 0..n : Items(r[k])' = Items(r[k])
  BY KeptItems DEF Keeps
<1> QED
  BY <1>2, <1>3, ContentsKept

(* A constructed element is not seen yet.                                  *)
LEMMA ConstructItems ==
  ASSUME IInv, Construct, NEW b \in 1..N
  PROVE  Items(b)' = Items(b)
<1>1. /\ p.slot = blocks[p.blk].tail
      /\ (b # p.blk => Keeps(b))
      /\ blocks'[p.blk].front = blocks[p.blk].front
      /\ blocks'[p.blk].tail = blocks[p.blk].tail
      /\ blocks'[p.blk].size = blocks[p.blk].size
      /\ blocks'[p.blk].data \in Seq(Nat) /\ Len(blocks'[p.blk].data) = blocks[p.blk].size
      /\ \A i \in 1..blocks[p.blk].size :
           blocks'[p.blk].data[i] = IF i = p.slot + 1 THEN sent + 1 ELSE blocks[p.blk].data[i]
  BY ConstructStores
<1>2. CASE b # p.blk
  BY <1>1, <1>2, KeptItems
<1>3. CASE b = p.blk
  <2> DEFINE d == blocks[b].size
             f == blocks[b].front
             t == blocks[b].tail
  <2>1. IsBuffer(d, f, t, blocks[b].data)
    BY BlockIsBuffer, LocalFacts
  <2>2. IsBuffer(d, f, t, blocks'[b].data)
    BY <1>1, <1>3, <2>1 DEF IsBuffer
  <2>3. \A i \in 1..d : i # t + 1 => blocks'[b].data[i] = blocks[b].data[i]
    BY <1>1, <1>3
  <2>4. Elems(d, f, t, blocks'[b].data) = Elems(d, f, t, blocks[b].data)
    BY <2>1, <2>2, <2>3, ElemsWrite
  <2> QED
    BY <1>1, <1>3, <2>4, ItemsAre, ItemsAreNext
<1> QED
  BY <1>2, <1>3

LEMMA ConstructContents ==
  ASSUME IInv, IInv', Construct
  PROVE  Contents' = Contents
<1>1. PICK pos, r, n : PathAt(pos, r, n)
  BY PathExists
<1>2. Path(r, n) /\ n \in Nat /\ \A k \in 0..n : r[k] \in 1..N
  BY <1>1 DEF PathAt, Path
<1>3. N' = N /\ N \in Nat /\ \A b \in 1..N : blocks'[b].next = blocks[b].next
  BY ConstructStores, LocalFacts
<1>4. \A k \in 0..n : Items(r[k])' = Items(r[k])
  BY <1>2, ConstructItems
<1>5. \A k \in 0..(n - 1) : blocks'[r[k]].next = blocks[r[k]].next
  BY <1>2, <1>3
<1>6. UNCHANGED <<frontBlock, tailBlock>>
  BY DEF Construct
<1> QED
  BY <1>2, <1>3, <1>4, <1>5, <1>6, ContentsKept

(* A block that is allocated or linked is not reached from the front yet.  *)
LEMMA AllocContents ==
  ASSUME IInv, IInv', Alloc
  PROVE  Contents' = Contents
<1>1. PICK pos, r, n : PathAt(pos, r, n)
  BY PathExists
<1>2. Path(r, n) /\ n \in Nat /\ \A k \in 0..n : r[k] \in 1..N
  BY <1>1 DEF PathAt, Path
<1>3. N' = N + 1 /\ N \in Nat /\ \A b \in 1..N : blocks'[b] = blocks[b]
  BY AllocStores
<1>4. ASSUME NEW k \in 0..n PROVE Items(r[k])' = Items(r[k])
  <2>1. Keeps(r[k])
    BY <1>2, <1>3 DEF Keeps
  <2> QED
    BY <2>1, KeptItems
<1>5. \A k \in 0..(n - 1) : blocks'[r[k]].next = blocks[r[k]].next
  BY <1>2, <1>3
<1>6. UNCHANGED <<frontBlock, tailBlock>>
  BY DEF Alloc
<1>7. N' >= N
  BY <1>3
<1> QED
  BY <1>2, <1>4, <1>5, <1>6, <1>7, ContentsKept

LEMMA LinkContents ==
  ASSUME IInv, IInv', Link
  PROVE  Contents' = Contents
<1>1. PICK pos, r, n : PathAt(pos, r, n)
  BY PathExists
<1>2. /\ Path(r, n) /\ n \in Nat /\ \A k \in 0..n : r[k] \in 1..N
      /\ \A k \in 0..(n - 1) : r[k] # tailBlock
  BY <1>1 DEF PathAt, Path
<1>3. /\ N' = N /\ N \in Nat
      /\ \A b \in 1..N : b # tailBlock => blocks'[b].next = blocks[b].next
      /\ \A b \in 1..N : Keeps(b)
  BY LinkStores, LocalFacts
<1>4. \A k \in 0..n : Items(r[k])' = Items(r[k])
  BY <1>2, <1>3, KeptItems
<1>5. \A k \in 0..(n - 1) : blocks'[r[k]].next = blocks[r[k]].next
  BY <1>2, <1>3
<1>6. UNCHANGED <<frontBlock, tailBlock>>
  BY DEF Link
<1> QED
  BY <1>2, <1>3, <1>4, <1>5, <1>6, ContentsKept

(* The store of tail adds the element, if it is in the tail block; in the  *)
(* next block it is not seen before the store of tailBlock.                *)
LEMMA PublishAhead ==
  ASSUME IInv, IInv', Publish, p.blk # tailBlock
  PROVE  Contents' = Contents
<1>1. PICK pos, r, n : PathAt(pos, r, n)
  BY PathExists
<1>2. /\ Path(r, n) /\ n \in Nat /\ \A k \in 0..n : r[k] \in 1..N
      /\ n = pos[tailBlock] /\ \A k \in 0..n : pos[r[k]] = k
  BY <1>1 DEF PathAt, Path
<1>3. pos[p.blk] = n + 1
  BY <1>1, <1>2, ProducerApart DEF PathAt, Publish
<1>4. /\ N' = N /\ N \in Nat
      /\ \A b \in 1..N : blocks'[b].next = blocks[b].next
      /\ \A b \in 1..N : b # p.blk => Keeps(b)
  BY PublishStores, LocalFacts
<1>5. ASSUME NEW k \in 0..n PROVE Items(r[k])' = Items(r[k])
  <2>1. r[k] # p.blk
    BY <1>2, <1>3
  <2> QED
    BY <1>2, <1>4, <2>1, KeptItems
<1>6. \A k \in 0..(n - 1) : blocks'[r[k]].next = blocks[r[k]].next
  BY <1>2, <1>4
<1>7. UNCHANGED <<frontBlock, tailBlock>>
  BY DEF Publish
<1> QED
  BY <1>2, <1>4, <1>5, <1>6, <1>7, ContentsKept

LEMMA PublishItems ==
  ASSUME IInv, DataInv, Publish, NEW b, b = p.blk
  PROVE  Items(b)' = Append(Items(b), sent + 1)
<1>1. /\ p.blk \in 1..N /\ p.slot = blocks[p.blk].tail
      /\ blocks'[p.blk].front = blocks[p.blk].front
      /\ blocks'[p.blk].tail = Succ(p.blk, blocks[p.blk].tail)
      /\ blocks'[p.blk].tail # blocks[p.blk].front
      /\ blocks'[p.blk].size = blocks[p.blk].size
      /\ blocks'[p.blk].data = blocks[p.blk].data
  BY PublishStores
<1>2. blocks[b].data[blocks[b].tail + 1] = sent + 1
  BY <1>1 DEF DataInv, Publish
<1> DEFINE d == blocks[b].size
           f == blocks[b].front
           t == blocks[b].tail
           a == blocks[b].data
<1>3. IsBuffer(d, f, t, a)
  BY <1>1, BlockIsBuffer, LocalFacts
<1>4. blocks'[b].tail = Follower(d, t) /\ Follower(d, t) # f
  BY <1>1 DEF Succ, Follower
<1>5. Elems(d, f, Follower(d, t), a) = Append(Elems(d, f, t, a), a[t + 1])
  BY <1>3, <1>4, ElemsAppend
<1> QED
  BY <1>1, <1>2, <1>4, <1>5, ItemsAre, ItemsAreNext

LEMMA PublishTail ==
  ASSUME IInv, IInv', DataInv, Publish, p.blk = tailBlock
  PROVE  Contents' = Append(Contents, sent + 1)
<1>1. PICK pos, r, n : PathAt(pos, r, n)
  BY PathExists
<1>2. /\ Path(r, n) /\ n \in Nat /\ \A k \in 0..n : r[k] \in 1..N
      /\ \A k \in 0..(n - 1) : r[k] # tailBlock
      /\ r[n] = tailBlock
  BY <1>1 DEF PathAt, Path
<1>3. /\ N' = N /\ N \in Nat
      /\ \A b \in 1..N : blocks'[b].next = blocks[b].next
      /\ \A b \in 1..N : b # p.blk => Keeps(b)
  BY PublishStores, LocalFacts
<1>4. Path(r, n)'
  <2>1. \A k \in 0..(n - 1) : blocks'[r[k]].next = blocks[r[k]].next
    BY <1>2, <1>3
  <2>2. UNCHANGED <<frontBlock, tailBlock>>
    BY DEF Publish
  <2> QED
    BY <1>2, <1>3, <2>1, <2>2, PathKept DEF IInv
<1>5. Contents = Cat(ItemsOn(r, n), n) /\ Contents' = Cat(ItemsOn(r, n), n)'
  BY <1>2, <1>4, ContentsOfPath, ContentsOfPathNext
<1> DEFINE jt == [k \in 0..n |-> Items(r[k])']
<1>6. Contents' = Cat(jt, n)
  BY <1>5 DEF ItemsOn, Cat
<1>7. AreSeqs(ItemsOn(r, n), n)
  BY <1>2, ItemsAreSeqs, LocalFacts
<1>8. jt[n] = Append(ItemsOn(r, n)[n], sent + 1)
  <2>1. Items(r[n])' = Append(Items(r[n]), sent + 1)
    BY <1>2, PublishItems
  <2>2. n \in 0..n
    BY <1>2
  <2> QED
    BY <2>1, <2>2 DEF ItemsOn
<1>9. ASSUME NEW k \in 0..(n - 1) PROVE jt[k] = ItemsOn(r, n)[k]
  <2>1. k \in 0..n
    BY <1>2
  <2>2. Items(r[k])' = Items(r[k])
    BY <1>2, <1>3, <2>1, KeptItems
  <2> QED
    BY <2>1, <2>2 DEF ItemsOn
<1>10. sent + 1 \in Nat
  BY LocalFacts
<1> HIDE DEF jt
<1> QED
  BY <1>2, <1>5, <1>6, <1>7, <1>8, <1>9, <1>10, CatLast

(* The store of tailBlock adds the one element of the next block.          *)
LEMMA AdvanceItems ==
  ASSUME IInv, DataInv, p.pc = "advance", NEW b, b = p.blk, b \in 1..N
  PROVE  Items(b) = <<sent + 1>>
<1>1. /\ blocks[b].tail = Succ(b, blocks[b].front)
      /\ blocks[b].data[blocks[b].front + 1] = sent + 1
  BY DEF DataInv
<1>2. blocks[b].tail = Follower(blocks[b].size, blocks[b].front)
  BY <1>1 DEF Succ, Follower
<1>3. IsBuffer(blocks[b].size, blocks[b].front, blocks[b].tail, blocks[b].data)
  BY BlockIsBuffer, LocalFacts
<1> QED
  BY <1>1, <1>2, <1>3, ElemsOne, ItemsAre

(* The path becomes longer by block b.                                     *)
LEMMA PathGrows ==
  ASSUME IInv, IInv', AdvanceTail, NEW pos, NEW r, NEW n, PathAt(pos, r, n), NEW b, b = p.blk
  PROVE  Path([k \in 0..(n + 1) |-> IF k = n + 1 THEN b ELSE r[k]], n + 1)'
<1> DEFINE s == [k \in 0..(n + 1) |-> IF k = n + 1 THEN b ELSE r[k]]
<1>1. /\ n \in Nat /\ r[0] = frontBlock /\ r[n] = tailBlock
      /\ \A k \in 0..(n - 1) : r[k + 1] = blocks[r[k]].next
      /\ n = pos[tailBlock] /\ \A k \in 0..n : r[k] \in 1..Linked /\ pos[r[k]] = k
      /\ RingAt(pos)
  BY DEF PathAt, Path
<1>2. /\ p.pc = "advance" /\ tailBlock' = b /\ UNCHANGED <<blocks, frontBlock>>
  BY DEF AdvanceTail
<1>3. b \in 1..N /\ b = blocks[tailBlock].next /\ pos[b] = n + 1 /\ Linked = N
  BY <1>1, <1>2, ProducerApart
<1>4. N' = N /\ N \in Nat /\ n + 1 <= N - 1
  <2>1. pos[b] <= Linked - 1
    BY <1>1, <1>3, LinkedFacts DEF RingAt, IInv
  <2> QED
    BY <1>2, <1>3, <2>1, LocalFacts DEF N
<1>5. \A k \in 0..n : s[k] = r[k]
  BY <1>1
<1>6. s[n + 1] = b
  BY <1>1
<1> HIDE DEF s
<1>7. n + 1 \in 0..(N' - 1)
  BY <1>1, <1>4
<1>8. ASSUME NEW k \in 0..(n + 1) PROVE s[k] \in 1..N'
  <2>1. CASE k = n + 1
    BY <1>3, <1>4, <1>6, <2>1
  <2>2. CASE k # n + 1
    <3>1. k \in 0..n
      BY <1>1, <2>2
    <3> QED
      BY <1>1, <1>3, <1>4, <1>5, <3>1
  <2> QED
    BY <2>1, <2>2
<1>9. s[0] = frontBlock' /\ s[n + 1] = tailBlock'
  <2>1. 0 \in 0..n
    BY <1>1
  <2> QED
    BY <1>1, <1>2, <1>5, <1>6, <2>1
<1>10. ASSUME NEW k \in 0..n PROVE s[k] # tailBlock' /\ s[k + 1] = blocks'[s[k]].next
  <2>1. s[k] = r[k] /\ pos[r[k]] = k
    BY <1>1, <1>5
  <2>2. s[k] # b
    BY <1>1, <1>3, <2>1
  <2>3. CASE k = n
    BY <1>1, <1>2, <1>3, <1>6, <2>1, <2>2, <2>3
  <2>4. CASE k # n
    <3>1. k \in 0..(n - 1) /\ k + 1 \in 0..n
      BY <1>1, <2>4
    <3>2. r[k + 1] = blocks[r[k]].next
      BY <1>1, <3>1
    <3> QED
      BY <1>2, <1>5, <2>1, <2>2, <3>1, <3>2
  <2> QED
    BY <2>3, <2>4
<1>11. (n + 1) - 1 = n
  BY <1>1
<1>12. Path(s, n + 1)'
  BY <1>7, <1>8, <1>9, <1>10, <1>11 DEF Path
<1> QED
  BY <1>12 DEF s

LEMMA AdvanceContents ==
  ASSUME IInv, IInv', DataInv, AdvanceTail
  PROVE  Contents' = Append(Contents, sent + 1)
<1>1. PICK pos, r, n : PathAt(pos, r, n)
  BY PathExists
<1>2. PICK b : b = p.blk
  OBVIOUS
<1>3. /\ Path(r, n) /\ RingAt(pos) /\ n \in Nat /\ \A k \in 0..n : r[k] \in 1..N
  BY <1>1 DEF PathAt, Path
<1>4. p.pc = "advance" /\ b \in 1..N /\ UNCHANGED blocks
  BY <1>2, <1>3, ProducerApart DEF AdvanceTail
<1> DEFINE s == [k \in 0..(n + 1) |-> IF k = n + 1 THEN b ELSE r[k]]
           it == ItemsOn(r, n)
           jt == [k \in 0..(n + 1) |-> Items(s[k])']
<1>5. Path(s, n + 1)'
  BY <1>1, <1>2, PathGrows
<1>6. Contents = Cat(it, n)
  BY <1>3, ContentsOfPath
<1>7. Contents' = Cat(jt, n + 1)
  <2> HIDE DEF s
  <2>1. Contents' = Cat(ItemsOn(s, n + 1), n + 1)'
    BY <1>5, ContentsOfPathNext
  <2> QED
    BY <2>1 DEF ItemsOn, Cat
<1>8. ASSUME NEW k \in 0..n PROVE it[k] = jt[k]
  <2>1. k \in 0..(n + 1) /\ k # n + 1
    BY <1>3
  <2>2. s[k] = r[k]
    BY <2>1
  <2>3. Items(r[k])' = Items(r[k])
    BY <1>4, KeptItems DEF Keeps
  <2> QED
    BY <2>1, <2>2, <2>3 DEF ItemsOn
<1>9. jt[n + 1] = <<sent + 1>>
  <2>1. n + 1 \in 0..(n + 1)
    BY <1>3
  <2>2. s[n + 1] = b
    BY <2>1
  <2>3. Items(b)' = <<sent + 1>>
    BY <1>2, <1>4, AdvanceItems, KeptItems DEF Keeps
  <2> QED
    BY <2>1, <2>2, <2>3
<1>10. Cat(it, n) \in Seq(Nat) /\ sent + 1 \in Nat
  <2>1. AreSeqs(it, n)
    BY <1>3, ItemsAreSeqs, LocalFacts
  <2>2. n \in 0..n
    BY <1>3
  <2> QED
    BY <1>3, <2>1, <2>2, CatType, LocalFacts
<1> HIDE DEF s, it, jt
<1>11. Cat(it, n) = Cat(jt, n)
  BY <1>3, <1>8, SameCat
<1>12. Cat(jt, n + 1) = Cat(jt, n) \o jt[n + 1]
  <2>1. n + 1 \in Nat /\ n + 1 \in 1..(n + 1) /\ (n + 1) - 1 = n
    BY <1>3
  <2>2. Cat(jt, n + 1) = Cat(jt, (n + 1) - 1) \o jt[n + 1]
    BY <2>1, CatSteps
  <2> QED
    BY <2>1, <2>2
<1> QED
  BY <1>6, <1>7, <1>9, <1>10, <1>11, <1>12, AppendIsConcat

(* The block behind the front one, when the tail block is further on.      *)
LEMMA PathSecond ==
  ASSUME NEW r, NEW n, Path(r, n), tailBlock # frontBlock
  PROVE  n \in Nat /\ n >= 1 /\ r[1] = blocks[frontBlock].next
<1>1. /\ n \in Nat /\ r[0] = frontBlock /\ r[n] = tailBlock
      /\ \A k \in 0..(n - 1) : r[k + 1] = blocks[r[k]].next
  BY DEF Path
<1>2. n # 0
  BY <1>1
<1>3. n >= 1 /\ 0 \in 0..(n - 1) /\ 0 + 1 = 1
  BY <1>1, <1>2
<1> QED
  BY <1>1, <1>3

LEMMA EmptyItems ==
  ASSUME Shape, NEW b \in 1..N, Empty(b)
  PROVE  Items(b) = <<>>
  BY BlockIsBuffer, ElemsEmpty, ItemsAre DEF Empty

(* The consumer leaves a block only when nothing is left in it.            *)
LEMMA MoveFrontContents ==
  ASSUME IInv, IInv', MoveFront
  PROVE  Contents' = Contents
<1>1. PICK pos, r, n : PathAt(pos, r, n)
  BY PathExists
<1>2. /\ Path(r, n) /\ \A k \in 0..n : r[k] \in 1..N
      /\ r[0] = frontBlock /\ r[n] = tailBlock /\ n <= N - 1
      /\ \A k \in 0..(n - 1) : r[k] # tailBlock /\ r[k + 1] = blocks[r[k]].next
  BY <1>1 DEF PathAt, Path
<1>3. /\ c.pc = "move" /\ tailBlock # frontBlock /\ Empty(frontBlock)
      /\ c.blk = blocks[frontBlock].next
  BY DEF IInv, ConsumerAt, MoveFront
<1>4. /\ frontBlock' = c.blk /\ UNCHANGED <<blocks, tailBlock>> /\ N' = N /\ N \in Nat
  BY LocalFacts DEF MoveFront, N
<1>5. n \in Nat /\ n >= 1 /\ r[1] = c.blk
  BY <1>2, <1>3, PathSecond
<1> DEFINE s == [k \in 0..(n - 1) |-> r[k + 1]]
           it == ItemsOn(r, n)
           jt == [k \in 0..(n - 1) |-> Items(s[k])']
<1>6. \A k \in 0..(n - 1) : s[k] = r[k + 1]
  OBVIOUS
<1>7. Path(s, n - 1)'
  <2> HIDE DEF s
  <2>1. n - 1 \in 0..(N' - 1)
    BY <1>2, <1>4, <1>5
  <2>2. ASSUME NEW k \in 0..(n - 1) PROVE s[k] \in 1..N'
    <3>1. k + 1 \in 0..n
      BY <1>5
    <3> QED
      BY <1>2, <1>4, <1>6, <3>1
  <2>3. s[0] = frontBlock' /\ s[n - 1] = tailBlock'
    <3>1. 0 \in 0..(n - 1) /\ n - 1 \in 0..(n - 1) /\ 0 + 1 = 1 /\ (n - 1) + 1 = n
      BY <1>5
    <3> QED
      BY <1>2, <1>4, <1>5, <1>6, <3>1
  <2>4. ASSUME NEW k \in 0..((n - 1) - 1)
        PROVE  s[k] # tailBlock' /\ s[k + 1] = blocks'[s[k]].next
    <3>1. k \in 0..(n - 1) /\ k + 1 \in 0..(n - 1)
      BY <1>5
    <3> QED
      BY <1>2, <1>4, <1>6, <3>1
  <2> QED
    BY <2>1, <2>2, <2>3, <2>4 DEF Path
<1>8. Contents = Cat(it, n)
  BY <1>2, ContentsOfPath
<1>9. Contents' = Cat(jt, n - 1)
  <2> HIDE DEF s
  <2>1. Contents' = Cat(ItemsOn(s, n - 1), n - 1)'
    BY <1>7, ContentsOfPathNext
  <2> QED
    BY <2>1 DEF ItemsOn, Cat
<1>10. ASSUME NEW k \in 0..(n - 1) PROVE jt[k] = it[k + 1]
  <2>1. Items(s[k])' = Items(s[k])
    BY <1>4, KeptItems DEF Keeps
  <2>2. k + 1 \in 0..n
    BY <1>5
  <2> QED
    BY <1>6, <2>1, <2>2 DEF ItemsOn
<1>11. it[0] = <<>>
  <2>1. 0 \in 0..n
    BY <1>5
  <2> QED
    BY <1>2, <1>3, <2>1, EmptyItems, LocalFacts DEF ItemsOn
<1>12. AreSeqs(it, n)
  BY <1>2, <1>5, ItemsAreSeqs, LocalFacts
<1> HIDE DEF s, it, jt
<1> QED
  BY <1>5, <1>8, <1>9, <1>10, <1>11, <1>12, CatDrop

(* The oldest element of a block that has one.                             *)
LEMMA BlockHead ==
  ASSUME Shape, NEW b \in 1..N, ~Empty(b)
  PROVE  Items(b) # <<>> /\ Head(Items(b)) = blocks[b].data[blocks[b].front + 1]
  BY BlockIsBuffer, ElemsTail, ItemsAre DEF Empty

(* What the consumer is about to take is the oldest element of the queue,  *)
(* also for a peek that looks into the next block.                         *)
LEMMA TakesHead ==
  ASSUME IInv, DataInv, c.pc = "take"
  PROVE  Contents # <<>> /\ Head(Contents) = blocks[c.blk].data[c.slot + 1]
<1>1. PICK pos, r, n : PathAt(pos, r, n)
  BY PathExists
<1>2. /\ Path(r, n) /\ n \in Nat /\ \A k \in 0..n : r[k] \in 1..N
      /\ r[0] = frontBlock
  BY <1>1 DEF PathAt, Path
<1>3. c.blk \in 1..N /\ c.slot = blocks[c.blk].front /\ ~Empty(c.blk)
  BY DEF IInv, ConsumerAt
<1>4. Items(c.blk) # <<>> /\ Head(Items(c.blk)) = blocks[c.blk].data[c.slot + 1]
  BY <1>3, BlockHead, LocalFacts
<1> DEFINE it == ItemsOn(r, n)
<1>5. Contents = Cat(it, n) /\ AreSeqs(it, n)
  BY <1>2, ContentsOfPath, ItemsAreSeqs, LocalFacts
<1>6. \A k \in 0..n : it[k] = Items(r[k])
  BY DEF ItemsOn
<1> HIDE DEF it
<1>7. CASE c.blk = frontBlock
  <2>1. it[0] = Items(c.blk)
    <3>1. 0 \in 0..n
      BY <1>2
    <3> QED
      BY <1>2, <1>6, <1>7, <3>1
  <2> DEFINE jt == [k \in 0..n |-> IF k = 0 THEN Tail(it[0]) ELSE it[k]]
  <2>2. jt[0] = Tail(it[0]) /\ \A k \in 1..n : jt[k] = it[k]
    BY <1>2
  <2> HIDE DEF jt
  <2> QED
    BY <1>2, <1>4, <1>5, <2>1, <2>2, CatHead
<1>8. CASE c.blk # frontBlock
  <2>1. c.blk = blocks[frontBlock].next /\ tailBlock # frontBlock /\ Empty(frontBlock)
    BY <1>8 DEF DataInv
  <2>2. n >= 1 /\ r[1] = c.blk
    BY <1>2, <2>1, PathSecond
  <2>3. it[0] = <<>> /\ it[1] = Items(c.blk)
    <3>1. 0 \in 0..n /\ 1 \in 0..n
      BY <1>2, <2>2
    <3> QED
      BY <1>2, <1>6, <2>1, <2>2, <3>1, EmptyItems, LocalFacts
  <2> DEFINE jt == [k \in 0..(n - 1) |-> it[k + 1]]
             ht == [k \in 0..(n - 1) |-> IF k = 0 THEN Tail(jt[0]) ELSE jt[k]]
  <2>4. (\A k \in 0..(n - 1) : jt[k] = it[k + 1]) /\ jt[0] = Items(c.blk)
    <3>1. 0 \in 0..(n - 1) /\ 0 + 1 = 1
      BY <1>2, <2>2
    <3> QED
      BY <2>3, <3>1
  <2> HIDE DEF jt
  <2>5. ht[0] = Tail(jt[0]) /\ \A k \in 1..(n - 1) : ht[k] = jt[k]
    BY <1>2, <2>2
  <2> HIDE DEF ht
  <2>6. Cat(jt, n - 1) = Cat(it, n)
    BY <1>2, <1>5, <2>2, <2>3, <2>4, CatDrop
  <2>7. n - 1 \in Nat
    BY <1>2, <2>2
  <2>8. AreSeqs(jt, n - 1)
    <3>1. ASSUME NEW k \in 0..(n - 1) PROVE jt[k] \in Seq(Nat)
      <4>1. k + 1 \in 0..n
        BY <1>2
      <4> QED
        BY <1>5, <2>4, <4>1 DEF AreSeqs
    <3> QED
      BY <3>1, Zenon DEF AreSeqs
  <2> QED
    BY <1>4, <1>5, <2>4, <2>5, <2>6, <2>7, <2>8, CatHead, ZenonT(60)
<1> QED
  BY <1>7, <1>8

(* The store of front removes it.                                          *)
LEMMA ReleaseItems ==
  ASSUME IInv, Release, NEW b, b = frontBlock
  PROVE  Items(b)' = Tail(Items(b)) /\ Items(b) # <<>>
         /\ Head(Items(b)) = blocks[c.blk].data[c.slot + 1]
<1>1. /\ c.blk \in 1..N /\ c.blk = b /\ c.slot = blocks[b].front
      /\ blocks[b].front # blocks[b].tail
      /\ blocks'[b].front = Succ(b, blocks[b].front)
      /\ blocks'[b].tail = blocks[b].tail
      /\ blocks'[b].size = blocks[b].size
      /\ blocks'[b].data = blocks[b].data
  BY ReleaseStores
<1> DEFINE d == blocks[b].size
           f == blocks[b].front
           t == blocks[b].tail
           a == blocks[b].data
<1>2. IsBuffer(d, f, t, a)
  BY <1>1, BlockIsBuffer, LocalFacts
<1>3. blocks'[b].front = Follower(d, f)
  BY <1>1 DEF Succ, Follower
<1>4. /\ Elems(d, f, t, a) # <<>>
      /\ Head(Elems(d, f, t, a)) = a[f + 1]
      /\ Elems(d, Follower(d, f), t, a) = Tail(Elems(d, f, t, a))
  BY <1>1, <1>2, ElemsTail
<1> QED
  BY <1>1, <1>3, <1>4, ItemsAre, ItemsAreNext

LEMMA ReleaseContents ==
  ASSUME IInv, IInv', DataInv, Release
  PROVE  Contents # <<>> /\ c.val = Head(Contents) /\ Contents' = Tail(Contents)
<1>1. PICK pos, r, n : PathAt(pos, r, n)
  BY PathExists
<1>2. /\ Path(r, n) /\ n \in Nat /\ \A k \in 0..n : r[k] \in 1..N /\ pos[r[k]] = k
      /\ r[0] = frontBlock
  BY <1>1 DEF PathAt, Path
<1>3. /\ N' = N /\ N \in Nat /\ c.blk = frontBlock
      /\ \A b \in 1..N : blocks'[b].next = blocks[b].next
      /\ \A b \in 1..N : b # c.blk => Keeps(b)
  BY ReleaseStores, LocalFacts
<1>4. Path(r, n)'
  <2>1. \A k \in 0..(n - 1) : blocks'[r[k]].next = blocks[r[k]].next
    BY <1>2, <1>3
  <2>2. UNCHANGED <<frontBlock, tailBlock>>
    BY DEF Release
  <2> QED
    BY <1>2, <1>3, <2>1, <2>2, PathKept DEF IInv
<1> DEFINE it == ItemsOn(r, n)
           jt == [k \in 0..n |-> Items(r[k])']
<1>5. Contents = Cat(it, n) /\ Contents' = Cat(jt, n)
  <2>1. Contents' = Cat(ItemsOn(r, n), n)'
    BY <1>4, ContentsOfPathNext
  <2> QED
    BY <1>2, <2>1, ContentsOfPath DEF ItemsOn, Cat
<1>6. AreSeqs(it, n)
  BY <1>2, ItemsAreSeqs, LocalFacts
<1>7. it[0] # <<>> /\ jt[0] = Tail(it[0]) /\ Head(it[0]) = c.val
  <2>1. 0 \in 0..n
    BY <1>2
  <2>2. c.val = blocks[c.blk].data[c.slot + 1]
    BY DEF DataInv, Release
  <2>3. /\ Items(r[0])' = Tail(Items(r[0])) /\ Items(r[0]) # <<>>
        /\ Head(Items(r[0])) = blocks[c.blk].data[c.slot + 1]
    BY <1>2, ReleaseItems
  <2> QED
    BY <2>1, <2>2, <2>3 DEF ItemsOn
<1>8. ASSUME NEW k \in 1..n PROVE jt[k] = it[k]
  <2>1. k \in 0..n /\ k # 0 /\ 0 \in 0..n
    BY <1>2
  <2>2. r[k] # frontBlock
    BY <1>2, <2>1
  <2>3. Items(r[k])' = Items(r[k])
    BY <1>2, <1>3, <2>1, <2>2, KeptItems
  <2> QED
    BY <2>1, <2>3 DEF ItemsOn
<1> HIDE DEF it, jt
<1> QED
  BY <1>2, <1>5, <1>6, <1>7, <1>8, CatHead, ZenonT(60)

-----------------------------------------------------------------------------
(* ReaderWriterQueue implements FifoQueue.                                 *)

Queue == IF freed = {} THEN Contents ELSE <<>>

LEMMA InitContents == Init => Queue = <<>>
<1> SUFFICES ASSUME Init PROVE Contents = <<>>
  BY DEF Init, Queue
<1>1. IInv
  BY InitInv
<1>2. Shape /\ frontBlock = 1 /\ tailBlock = 1 /\ N \in Nat /\ 1 \in 1..N
  BY <1>1, LocalFacts DEF Init
<1>3. Empty(1)
  BY DEF Init, Empty, Block
<1> DEFINE r == [k \in 0..0 |-> 1]
<1>4. r[0] = 1
  OBVIOUS
<1> HIDE DEF r
<1>5. 0 \in 0..(N - 1) /\ \A k \in 0..(0 - 1) : FALSE
  BY <1>2
<1>6. \A k \in 0..0 : r[k] \in 1..N
  BY <1>2, <1>4
<1>7. Path(r, 0)
  BY <1>2, <1>4, <1>5, <1>6 DEF Path
<1>8. Contents = Cat(ItemsOn(r, 0), 0)
  BY <1>1, <1>7, ContentsOfPath
<1>9. Cat(ItemsOn(r, 0), 0) = ItemsOn(r, 0)[0]
  BY CatSteps
<1>10. ItemsOn(r, 0)[0] = Items(1)
  BY <1>4 DEF ItemsOn
<1>11. Items(1) = <<>>
  BY <1>2, <1>3, EmptyItems
<1> QED
  BY <1>8, <1>9, <1>10, <1>11

(* The producer's steps: the store of tail, or of tailBlock, is where the  *)
(* enqueue takes effect.                                                   *)
LEMMA ProducerFifo ==
  ASSUME IInv, IInv', DataInv, Producer
  PROVE  /\ freed = {} /\ freed' = {} /\ got' = got
         /\ \/ Contents' = Contents /\ sent' = sent
            \/ Contents' = Append(Contents, sent + 1) /\ sent' = sent + 1
<1>1. freed = {} /\ freed' = {} /\ got' = got
  <2>1. UNCHANGED <<freed, got>>
    BY DEF Producer, LoadTailBlock, Construct, Publish, CheckNext, ReuseNext, Alloc, AllocFails,
           Link, AdvanceTail
  <2>2. p.pc # "idle" \/ freed = {}
    BY DEF Producer, LoadTailBlock, Construct, Publish, CheckNext, ReuseNext, Alloc, AllocFails,
           Link, AdvanceTail
  <2> QED
    BY <2>1, <2>2, LocalFacts
<1>2. CASE (\E op \in EnqOps : LoadTailBlock(op)) \/ CheckNext \/ ReuseNext \/ AllocFails
  <2>1. UNCHANGED <<blocks, frontBlock, tailBlock, sent>>
    BY <1>2 DEF LoadTailBlock, CheckNext, ReuseNext, AllocFails
  <2> QED
    BY <1>1, <2>1, QuietContents
<1>3. CASE Construct
  <2>1. sent' = sent
    BY <1>3 DEF Construct
  <2> QED
    BY <1>1, <1>3, <2>1, ConstructContents
<1>4. CASE Publish
  <2>1. sent' = IF p.blk = tailBlock THEN sent + 1 ELSE sent
    BY <1>4 DEF Publish
  <2> QED
    BY <1>1, <1>4, <2>1, PublishTail, PublishAhead
<1>5. CASE Alloc
  <2>1. sent' = sent
    BY <1>5 DEF Alloc
  <2> QED
    BY <1>1, <1>5, <2>1, AllocContents
<1>6. CASE Link
  <2>1. sent' = sent
    BY <1>6 DEF Link
  <2> QED
    BY <1>1, <1>6, <2>1, LinkContents
<1>7. CASE AdvanceTail
  <2>1. sent' = sent + 1
    BY <1>7 DEF AdvanceTail
  <2> QED
    BY <1>1, <1>7, <2>1, AdvanceContents
<1> QED
  BY <1>2, <1>3, <1>4, <1>5, <1>6, <1>7 DEF Producer

(* The consumer's steps: the store of front is where try_dequeue and pop   *)
(* take effect, the read of the element where peek does.                   *)
LEMMA ConsumerFifo ==
  ASSUME IInv, IInv', DataInv, Consumer
  PROVE  /\ freed = {} /\ freed' = {} /\ sent' = sent
         /\ \/ Contents' = Contents /\ got' = got
            \/ Contents # <<>> /\ Contents' = Contents /\ got' = Head(Contents)
            \/ /\ Contents # <<>> /\ Contents' = Tail(Contents)
               /\ got' = Head(Contents) \/ got' = got
<1>1. freed = {} /\ freed' = {} /\ sent' = sent
  <2>1. UNCHANGED <<freed, sent>>
    BY DEF Consumer, RememberTail, LoadFrontBlock, CompareTail, LoadNext, MoveFront, Take, Release
  <2>2. c.pc # "idle" \/ freed = {}
    BY DEF Consumer, RememberTail, LoadFrontBlock, CompareTail, LoadNext, MoveFront, Take, Release
  <2> QED
    BY <2>1, <2>2, LocalFacts
<1>2. CASE (\E op \in DeqOps : RememberTail(op)) \/ LoadFrontBlock \/ CompareTail \/ LoadNext
  <2>1. UNCHANGED <<blocks, frontBlock, tailBlock, got>>
    BY <1>2 DEF RememberTail, LoadFrontBlock, CompareTail, LoadNext
  <2> QED
    BY <1>1, <2>1, QuietContents
<1>3. CASE MoveFront
  <2>1. got' = got
    BY <1>3 DEF MoveFront
  <2> QED
    BY <1>1, <1>3, <2>1, MoveFrontContents
<1>4. CASE Take
  <2>1. /\ UNCHANGED <<blocks, frontBlock, tailBlock>> /\ c.pc = "take"
        /\ got' = blocks[c.blk].data[c.slot + 1] \/ got' = got
    BY <1>4 DEF Take
  <2> QED
    BY <1>1, <2>1, TakesHead, QuietContents
<1>5. CASE Release
  <2>1. got' = c.val \/ got' = got
    BY <1>5 DEF Release
  <2> QED
    BY <1>1, <1>5, <2>1, ReleaseContents
<1> QED
  BY <1>2, <1>3, <1>4, <1>5 DEF Consumer

LEMMA FifoStep == IInv /\ IInv' /\ DataInv /\ [Next]_vars => [Fifo!Next]_(Fifo!fvars)
<1> SUFFICES ASSUME IInv, IInv', DataInv, [Next]_vars PROVE [Fifo!Next]_(Fifo!fvars)
  OBVIOUS
<1>1. CASE Producer
  <2>1. /\ freed = {} /\ freed' = {} /\ got' = got
        /\ \/ Contents' = Contents /\ sent' = sent
           \/ Contents' = Append(Contents, sent + 1) /\ sent' = sent + 1
    BY <1>1, ProducerFifo
  <2> QED
    BY <2>1 DEF Fifo!Next, Fifo!Use, Fifo!Enqueue, Fifo!fvars
<1>2. CASE Consumer
  <2>1. /\ freed = {} /\ freed' = {} /\ sent' = sent
        /\ \/ Contents' = Contents /\ got' = got
           \/ Contents # <<>> /\ Contents' = Contents /\ got' = Head(Contents)
           \/ /\ Contents # <<>> /\ Contents' = Tail(Contents)
              /\ got' = Head(Contents) \/ got' = got
    BY <1>2, ConsumerFifo
  <2> QED
    BY <2>1 DEF Fifo!Next, Fifo!Use, Fifo!Dequeue, Fifo!Pop, Fifo!Peek, Fifo!fvars
<1>3. CASE (\E t \in DOMAIN size : Sizing(t)) \/ UNCHANGED vars
  <2>1. UNCHANGED <<blocks, frontBlock, tailBlock, sent, got, freed>>
    BY <1>3 DEF Sizing, SizeBegin, SizeFront, SizeTail, SizeNext, vars
  <2>2. Contents' = Contents
    BY <2>1, QuietContents
  <2> QED
    BY <2>1, <2>2 DEF Fifo!fvars
<1>4. CASE Destroy
  <2>1. freed' # {}
    <3>1. freed' = 1..N
      BY <1>4, DestroyAll
    <3>2. 1 \in 1..N
      BY LocalFacts
    <3> QED
      BY <3>1, <3>2
  <2>2. UNCHANGED <<sent, got>>
    BY <1>4 DEF Destroy, DestroyTo
  <2>3. freed = {}
    BY <1>4 DEF Destroy, DestroyTo
  <2> QED
    BY <2>1, <2>2, <2>3 DEF Fifo!Next, Fifo!Destroy
<1> QED
  BY <1>1, <1>2, <1>3, <1>4 DEF Next

LEMMA FifoInit == Init => Fifo!Init
  BY InitContents DEF Init, Fifo!Init, Queue

(* ImplementsFifo: the lock-free queue is a first-in first-out queue whose *)
(* calls take effect one at a time.  In every interleaving of one producer *)
(* and one consumer, for every capacity and however many blocks enqueue    *)
(* allocates, each element leaves once, in the order in which it came, and *)
(* peek shows the one that try_dequeue would return.                       *)
THEOREM QueueIsFifo == Spec => ImplementsFifo
<1>1. IInv /\ DataInv /\ IInv' /\ [Next]_vars => [Fifo!Next]_(Fifo!fvars)
  BY FifoStep
<1> QED
  BY <1>1, FifoInit, DataInvariance, PTL DEF Spec, ImplementsFifo, Fifo!Spec

-----------------------------------------------------------------------------
(* What "empty" and "full" mean to a caller.                               *)

(* The first block holds MaxSize elements.  A producer that found its      *)
(* block full had seen so many; a consumer that is about to return false   *)
(* had seen none: if it saw some when the front block was the tail block,  *)
(* they are still there when it looks.                                     *)
SeenInv ==
  /\ blocks[1].size > MaxSize
  /\ p.pc = "check" => p.seen >= MaxSize
  /\ c.pc \in {"load", "compare"} /\ c.tail = frontBlock /\ c.seen # 0 =>
       c.pc = "load" /\ ~Empty(frontBlock)

LEMMA InitSeen == Init => SeenInv
<1> SUFFICES ASSUME Init PROVE SeenInv
  OBVIOUS
<1>1. blocks[1].size > MaxSize
  BY CapacityRange DEF Init, FirstSize, Block
<1>2. p.pc = "idle" /\ c.pc = "idle"
  BY DEF Init, NotIn, NotOut, Out
<1> QED
  BY <1>1, <1>2 DEF SeenInv

(* No later block is smaller.                                              *)
LEMMA EveryBlockHolds ==
  ASSUME Shape, blocks[1].size > MaxSize
  PROVE  \A b \in 1..N : blocks[b].size > MaxSize
<1>1. N \in Nat /\ N >= 1 /\ MaxSize \in Nat
  BY QueueAssumption DEF Shape
<1>2. \A b \in 1..N : blocks[b].size \in Nat
  BY BlockFacts
<1>3. \A b \in 1..N : b > 1 => blocks[b].size = 2 * blocks[b - 1].size
  BY DEF Shape
<1> DEFINE S == {k \in 0..N : k = 0 \/ blocks[k].size > MaxSize}
<1>4. 0 \in S
  BY <1>1
<1>5. ASSUME NEW k \in 1..N, k - 1 \in S PROVE k \in S
  <2>1. CASE k = 1
    BY <1>1, <2>1
  <2>2. CASE k > 1
    <3>1. k - 1 \in 1..N /\ k - 1 # 0 /\ k \in 0..N
      BY <1>1, <2>2
    <3>2. blocks[k - 1].size > MaxSize /\ blocks[k - 1].size \in Nat /\ blocks[k].size \in Nat
      BY <1>2, <1>5, <3>1
    <3>3. blocks[k].size = 2 * blocks[k - 1].size
      BY <1>3, <2>2
    <3>4. blocks[k].size > MaxSize
      BY <1>1, <3>2, <3>3
    <3> QED
      BY <3>1, <3>4
  <2> QED
    BY <1>1, <2>1, <2>2
<1>6. \A k \in 0..N : k \in S
  <2> HIDE DEF S
  <2> QED
    BY <1>1, <1>4, <1>5, UpTo
<1>7. ASSUME NEW b \in 1..N PROVE blocks[b].size > MaxSize
  <2>1. b \in 0..N /\ b # 0
    BY <1>1
  <2> QED
    BY <1>6, <2>1
<1> QED
  BY <1>7

(* The last sequence is a part of the concatenation.                       *)
LEMMA CatLen ==
  ASSUME NEW n \in Nat, NEW it, AreSeqs(it, n)
  PROVE  Len(Cat(it, n)) \in Nat /\ Len(Cat(it, n)) >= Len(it[n])
<1>1. n \in 0..n
  OBVIOUS
<1>2. it[n] \in Seq(Nat) /\ Cat(it, n) \in Seq(Nat)
  BY <1>1, CatType DEF AreSeqs
<1>3. CASE n = 0
  <2>1. Cat(it, n) = it[n]
    BY <1>3, CatSteps
  <2> QED
    BY <1>2, <2>1, LenProperties
<1>4. CASE n # 0
  <2>1. n \in 1..n /\ n - 1 \in 0..n
    BY <1>4
  <2>2. Cat(it, n) = Cat(it, n - 1) \o it[n]
    BY <2>1, CatSteps
  <2>3. Cat(it, n - 1) \in Seq(Nat)
    BY <2>1, CatType
  <2>4. Len(Cat(it, n)) = Len(Cat(it, n - 1)) + Len(it[n])
    BY <1>2, <2>2, <2>3, ConcatProperties
  <2>5. Len(Cat(it, n - 1)) \in Nat /\ Len(it[n]) \in Nat
    BY <1>2, <2>3, LenProperties
  <2>6. \A x, y \in Nat : x + y \in Nat /\ x + y >= y
    OBVIOUS
  <2> QED
    BY <2>4, <2>5, <2>6, Zenon
<1> QED
  BY <1>3, <1>4

(* A full tail block holds MaxSize elements.                               *)
LEMMA FullCount ==
  ASSUME IInv, SeenInv, ~Room(tailBlock)
  PROVE  Count >= MaxSize
<1>1. PICK pos, r, n : PathAt(pos, r, n)
  BY PathExists
<1>2. Path(r, n) /\ n \in Nat /\ (\A k \in 0..n : r[k] \in 1..N) /\ r[n] = tailBlock
  BY <1>1 DEF PathAt, Path
<1>3. AreSeqs(ItemsOn(r, n), n) /\ Contents = Cat(ItemsOn(r, n), n)
  BY <1>2, ContentsOfPath, ItemsAreSeqs, LocalFacts
<1>4. Count \in Nat /\ Count >= Len(Items(tailBlock))
  <2>1. n \in 0..n
    BY <1>2
  <2>2. ItemsOn(r, n)[n] = Items(tailBlock)
    BY <1>2, <2>1 DEF ItemsOn
  <2> QED
    BY <1>2, <1>3, <2>2, CatLen DEF Count
<1> DEFINE d == blocks[tailBlock].size
           f == blocks[tailBlock].front
           t == blocks[tailBlock].tail
<1>5. IsBuffer(d, f, t, blocks[tailBlock].data)
  BY BlockIsBuffer, LocalFacts
<1>6. Len(Items(tailBlock)) = HowMany(d, f, t)
  BY <1>5, ElemsAre, ItemsAre
<1>7. Follower(d, t) = f
  BY DEF Room, Succ, Follower
<1>8. d > MaxSize /\ MaxSize \in Nat
  BY EveryBlockHolds, LocalFacts, QueueAssumption DEF SeenInv
<1>9. HowMany(d, f, t) = d - 1
  <2> HIDE DEF d, f, t
  <2>1. d \in Nat /\ d >= 2 /\ f \in 0..(d - 1) /\ t \in 0..(d - 1)
    BY <1>5 DEF IsBuffer
  <2> QED
    BY <1>7, <2>1 DEF HowMany, Follower
<1>10. d \in Nat
  BY <1>5 DEF IsBuffer
<1> HIDE DEF d, f, t
<1> QED
  BY <1>4, <1>6, <1>8, <1>9, <1>10

(* If the front block is the tail block and is empty, so is the queue.     *)
LEMMA EmptyCount ==
  ASSUME IInv, tailBlock = frontBlock, Empty(frontBlock)
  PROVE  Count = 0
<1>1. PICK pos, r, n : PathAt(pos, r, n)
  BY PathExists
<1>2. Path(r, n) /\ n \in Nat /\ r[0] = frontBlock /\ n = pos[tailBlock] /\ RingAt(pos)
  BY <1>1 DEF PathAt, Path
<1>3. n = 0
  BY <1>2 DEF RingAt, Ordered
<1>4. Contents = Cat(ItemsOn(r, 0), 0)
  BY <1>2, <1>3, ContentsOfPath
<1>5. Cat(ItemsOn(r, 0), 0) = ItemsOn(r, 0)[0]
  BY CatSteps
<1>6. ItemsOn(r, 0)[0] = Items(frontBlock)
  BY <1>2 DEF ItemsOn
<1>7. Items(frontBlock) = <<>>
  BY EmptyItems, LocalFacts
<1> QED
  BY <1>4, <1>5, <1>6, <1>7 DEF Count

(* The steps of the producer.                                              *)
LEMMA ProducerSeen ==
  ASSUME IInv, SeenInv, Producer
  PROVE  SeenInv'
<1>1. /\ Shape /\ N \in Nat /\ 1 \in 1..N /\ frontBlock \in 1..N /\ tailBlock \in 1..N
      /\ p \in PType
  BY LocalFacts
<1>2. UNCHANGED <<frontBlock, c>>
  BY DEF Producer, LoadTailBlock, Construct, Publish, CheckNext, ReuseNext, Alloc, AllocFails,
         Link, AdvanceTail
<1>3. p'.pc = "check" => p'.seen >= MaxSize
  <2>1. CASE \E op \in EnqOps : LoadTailBlock(op)
    <3>1. PICK op \in EnqOps : LoadTailBlock(op)
      BY <2>1
    <3>2. /\ p'.pc = "check" => After(tailBlock, blocks[tailBlock].tail) = blocks[tailBlock].front
          /\ p'.seen = Count
      BY <3>1 DEF LoadTailBlock
    <3>3. After(tailBlock, blocks[tailBlock].tail) = Succ(tailBlock, blocks[tailBlock].tail)
      BY <1>1, SuccFacts, BlockFacts
    <3>4. p'.pc = "check" => ~Room(tailBlock)
      BY <3>2, <3>3 DEF Room
    <3> QED
      BY <3>2, <3>4, FullCount
  <2>2. CASE Construct \/ Publish \/ ReuseNext \/ Link \/ Alloc
    <3>1. p'.pc # "check"
      <4>1. CASE Construct \/ Link
        BY <1>1, <4>1 DEF Construct, Link, PType
      <4>2. CASE Publish
        BY <1>1, <4>2 DEF Publish, NotIn, PType
      <4>3. CASE ReuseNext
        BY <1>1, <4>3 DEF ReuseNext, PType
      <4>4. CASE Alloc
        BY <1>1, <4>4, AllocStores
      <4> QED
        BY <2>2, <4>1, <4>2, <4>3, <4>4
    <3> QED
      BY <3>1
  <2>3. CASE CheckNext
    <3>1. p'.pc # "check"
      BY <1>1, <2>3 DEF CheckNext, NotIn, PType
    <3> QED
      BY <3>1
  <2>4. CASE AllocFails \/ AdvanceTail
    <3>1. p'.pc # "check"
      BY <2>4 DEF AllocFails, AdvanceTail, NotIn
    <3> QED
      BY <3>1
  <2> QED
    BY <2>1, <2>2, <2>3, <2>4 DEF Producer
<1>4. /\ blocks'[1].size = blocks[1].size
      /\ ~Empty(frontBlock) => blocks'[frontBlock].front # blocks'[frontBlock].tail
  <2>1. CASE (\E op \in EnqOps : LoadTailBlock(op)) \/ CheckNext \/ ReuseNext \/ AllocFails
             \/ AdvanceTail
    <3>1. UNCHANGED blocks
      BY <2>1 DEF LoadTailBlock, CheckNext, ReuseNext, AllocFails, AdvanceTail
    <3> QED
      BY <3>1 DEF Empty
  <2>2. CASE Construct
    <3>1. \A b \in 1..N : /\ blocks'[b].size = blocks[b].size
                          /\ blocks'[b].front = blocks[b].front
                          /\ blocks'[b].tail = blocks[b].tail
      BY <2>2, ConstructStores DEF Keeps
    <3> QED
      BY <1>1, <3>1 DEF Empty
  <2>3. CASE Publish
    <3>1. \A b \in 1..N : /\ blocks'[b].size = blocks[b].size
                          /\ blocks'[b].front = blocks[b].front
                          /\ blocks'[b].tail = blocks[b].tail \/ blocks'[b].tail # blocks[b].front
      BY <2>3, PublishStores DEF Keeps
    <3> QED
      BY <1>1, <3>1 DEF Empty
  <2>4. CASE Alloc
    <3>1. blocks'[1] = blocks[1] /\ blocks'[frontBlock] = blocks[frontBlock]
      BY <1>1, <2>4, AllocStores
    <3> QED
      BY <3>1 DEF Empty
  <2>5. CASE Link
    <3>1. Keeps(1) /\ Keeps(frontBlock)
      BY <1>1, <2>5, LinkStores
    <3> QED
      BY <3>1 DEF Empty, Keeps
  <2> QED
    BY <2>1, <2>2, <2>3, <2>4, <2>5 DEF Producer
<1> QED
  BY <1>2, <1>3, <1>4 DEF SeenInv, Empty

(* The steps of the consumer.                                              *)
LEMMA ConsumerSeen ==
  ASSUME IInv, SeenInv, Consumer
  PROVE  SeenInv'
<1>1. Shape /\ 1 \in 1..N /\ c \in CType
  BY LocalFacts
<1>2. p' = p
  BY DEF Consumer, RememberTail, LoadFrontBlock, CompareTail, LoadNext, MoveFront, Take, Release
<1>3. blocks'[1].size = blocks[1].size
  <2>1. CASE Release
    BY <1>1, <2>1, ReleaseStores DEF Keeps
  <2>2. CASE ~Release
    <3>1. UNCHANGED blocks
      BY <2>2 DEF Consumer, RememberTail, LoadFrontBlock, CompareTail, LoadNext, MoveFront, Take
    <3> QED
      BY <3>1
  <2> QED
    BY <2>1, <2>2
<1>4. CASE \E op \in DeqOps : RememberTail(op)
  <2>1. /\ c'.pc = "load" /\ c'.tail = tailBlock /\ c'.seen = Count
        /\ UNCHANGED <<blocks, frontBlock>>
    BY <1>4 DEF RememberTail, Out
  <2>2. tailBlock = frontBlock /\ Count # 0 => ~Empty(frontBlock)
    BY EmptyCount
  <2> QED
    BY <1>2, <1>3, <2>1, <2>2 DEF SeenInv, Empty
<1>5. CASE LoadFrontBlock
  <2>1. /\ c.pc = "load" /\ c'.tail = c.tail /\ c'.seen = c.seen
        /\ c'.pc = IF Empty(frontBlock) THEN "compare" ELSE "take"
        /\ UNCHANGED <<blocks, frontBlock>>
    BY <1>1, <1>5 DEF LoadFrontBlock, CType, Empty
  <2> QED
    BY <1>2, <1>3, <2>1 DEF SeenInv
<1>6. CASE CompareTail \/ LoadNext \/ MoveFront \/ Take \/ Release
  <2>1. c'.pc \notin {"load", "compare"}
    <3>1. CASE CompareTail
      BY <1>1, <3>1 DEF CompareTail, NotOut, Out, CType
    <3>2. CASE LoadNext
      BY <1>1, <3>2 DEF LoadNext, CType
    <3>3. CASE MoveFront
      BY <1>1, <3>3 DEF MoveFront, CType
    <3>4. CASE Take
      <4>1. CASE c.op = "peek"
        BY <3>4, <4>1 DEF Take, NotOut, Out
      <4>2. CASE c.op # "peek"
        BY <1>1, <3>4, <4>2 DEF Take, CType
      <4> QED
        BY <4>1, <4>2
    <3>5. CASE Release
      BY <1>1, <3>5 DEF Release, NotOut, Out
    <3> QED
      BY <1>6, <3>1, <3>2, <3>3, <3>4, <3>5
  <2> QED
    BY <1>2, <1>3, <2>1 DEF SeenInv
<1> QED
  BY <1>4, <1>5, <1>6 DEF Consumer

LEMMA SeenInvariance == Spec => [](IInv /\ SeenInv)
<1>1. Init => IInv /\ SeenInv
  BY InitInv, InitSeen
<1>2. IInv /\ SeenInv /\ [Next]_vars => IInv' /\ SeenInv'
  <2> SUFFICES ASSUME IInv, SeenInv, [Next]_vars PROVE SeenInv'
    BY NextInv
  <2>1. CASE (\E t \in DOMAIN size : Sizing(t)) \/ Destroy \/ UNCHANGED vars
    <3>1. UNCHANGED <<blocks, frontBlock, p, c>>
      BY <2>1, ZenonT(60)
         DEF Sizing, SizeBegin, SizeFront, SizeTail, SizeNext, Destroy, DestroyTo, vars
    <3> QED
      BY <3>1 DEF SeenInv, Empty
  <2> QED
    BY <2>1, ProducerSeen, ConsumerSeen DEF Next
<1> QED
  BY <1>1, <1>2, PTL DEF Spec

(* EmptyIsReal: try_dequeue, pop and peek return false only if the queue   *)
(* was empty when they were called, however the producer fills the front   *)
(* block or goes on to another one between their loads.                    *)
THEOREM FalseMeansEmpty == Spec => EmptyIsReal
<1>1. ASSUME IInv, SeenInv, [Next]_vars, c.pc = "compare", c'.pc = "idle" PROVE c.seen = 0
  <2>1. c' # c
    BY <1>1, SMTT(30)
  <2>2. CompareTail
    BY <1>1, <2>1, ZenonT(60)
       DEF Next, vars, Producer, LoadTailBlock, Construct, Publish, CheckNext,
       ReuseNext, Alloc, AllocFails, Link, AdvanceTail, Consumer, RememberTail, LoadFrontBlock,
       LoadNext, MoveFront, Take, Release, Sizing, SizeBegin, SizeFront, SizeTail, SizeNext,
       Destroy, DestroyTo
  <2>3. c.blk = c.tail
    <3>1. c \in CType
      BY <1>1, LocalFacts
    <3> QED
      BY <1>1, <2>2, <3>1 DEF CompareTail, CType
  <2>4. c.blk = frontBlock
    BY <1>1 DEF IInv, ConsumerAt
  <2> QED
    BY <1>1, <2>3, <2>4 DEF SeenInv
<1>2. IInv /\ SeenInv /\ [Next]_vars => [c.pc = "compare" /\ c'.pc = "idle" => c.seen = 0]_vars
  BY <1>1
<1> QED
  BY <1>2, SeenInvariance, PTL DEF Spec, EmptyIsReal

(* FullIsReal: try_enqueue returns false only if the queue held at least   *)
(* maxSize elements when it looked: the capacity that the constructor      *)
(* promises is there, for every maxSize and in every block of the ring.    *)
THEOREM FalseMeansFull == Spec => FullIsReal
<1>1. IInv /\ SeenInv /\ [Next]_vars
        => [p.pc = "check" /\ p'.pc = "idle" => p.seen >= MaxSize]_vars
  BY DEF SeenInv
<1> QED
  BY <1>1, SeenInvariance, PTL DEF Spec, FullIsReal

-----------------------------------------------------------------------------
(* size_approx.                                                            *)

(* A walk that follows nx through the blocks 1..l until it is back at f:   *)
(* the order o in which it meets them, and what it still adds up from      *)
(* block b on, v[b], if block b holds u[b] elements.                       *)
WalkOrder(o, l, nx, f) ==
  /\ o \in [1..l -> Int]
  /\ \A a, b \in 1..l : o[a] = o[b] => a = b
  /\ \A b \in 1..l : IF nx[b] = f THEN \A a \in 1..l : o[a] <= o[b]
                     ELSE o[nx[b]] = o[b] + 1
Rest(v, nx, f, b) == IF nx[b] = f THEN 0 ELSE v[nx[b]]
Adds(v, u, l, nx, f) ==
  /\ v \in [1..l -> Int]
  /\ \A b \in 1..l : v[b] = u[b] + Rest(v, nx, f, b)

(* What a call with the locals s still adds; x is what it adds for the     *)
(* block whose front it has loaded.                                        *)
ToCome(s, v, nx, x) ==
  IF s.pc = "front" THEN v[s.blk]
  ELSE IF s.pc = "tail" THEN x + Rest(v, nx, s.first, s.blk)
  ELSE Rest(v, nx, s.first, s.blk)
Between(s, v, l, nx, u, x, lo, hi) ==
  /\ Adds(v, u, l, nx, s.first)
  /\ s.blk \in 1..l
  /\ lo <= s.sum + ToCome(s, v, nx, x)
  /\ s.sum + ToCome(s, v, nx, x) <= hi

LEMMA IntOrder ==
  \A i, j \in Int : /\ i <= i /\ ~(i < i) /\ ~(i + 1 <= i)
                    /\ j <= i => ~(i < j)
                    /\ j <= i /\ j # i => ~(i <= j)
                    /\ i + 1 <= j <=> i < j
                    /\ i # j => (i <= j <=> i < j)
  OBVIOUS

LEMMA IntNext ==
  \A i, j \in Int : (i + 1 <= j <=> i < j) /\ i + 1 \in Int /\ 1 + i = i + 1
  OBVIOUS

LEMMA IntNotBelow ==
  \A i, j \in Int : i # j => (i <= j <=> i < j)
  OBVIOUS

LEMMA IntSwap ==
  \A i, j, k \in Int : (i + j) + k = (i + k) + j
  OBVIOUS

LEMMA IntShift ==
  \A i, j, k \in Int : (i + j) + k = i + (j + k)
  OBVIOUS

(* The blocks when there is one more.                                      *)
LEMMA OneMore ==
  ASSUME NEW l \in Nat
  PROVE  /\ l + 1 \in 1..(l + 1)
         /\ \A b \in 1..l : b \in 1..(l + 1) /\ b # l + 1
         /\ \A b \in 1..(l + 1) : b \in 1..l \/ b = l + 1
  OBVIOUS

(* w is u with d elements more in block B.                                 *)
OneChanges(w, u, l, B, d) ==
  /\ w[B] = u[B] + d
  /\ \A b \in 1..l : b # B => w[b] = u[b]

(* w and mx are u and nx with a block of one element behind block t.       *)
OneMoreBlock(w, u, l, mx, nx, t) ==
  /\ w[l + 1] = 1 /\ mx[l + 1] = nx[t] /\ mx[t] = l + 1
  /\ \A b \in 1..l : w[b] = u[b] /\ (b # t => mx[b] = nx[b])

(* What the blocks 1..l have to come changes by d or not at all, when the  *)
(* m blocks hold w.                                                        *)
ComesMore(v, l, nx, f, w, m, mx, d) ==
  \E y : /\ Adds(y, w, m, mx, f)
         /\ \A b \in 1..l : /\ y[b] = v[b] \/ y[b] = v[b] + d
                            /\ \/ Rest(y, mx, f, b) = Rest(v, nx, f, b)
                               \/ Rest(y, mx, f, b) = Rest(v, nx, f, b) + d

(* One block holds d elements more: the blocks up to it have d more to     *)
(* come.                                                                   *)
LEMMA OneBlockChanges ==
  ASSUME NEW l \in Nat, NEW nx \in [1..l -> 1..l], NEW f, NEW o, NEW v, NEW u \in [1..l -> Int],
         NEW w \in [1..l -> Int], NEW d \in Int, NEW B \in 1..l,
         WalkOrder(o, l, nx, f), Adds(v, u, l, nx, f),
         OneChanges(w, u, l, B, d)
  PROVE  ComesMore(v, l, nx, f, w, l, nx, d)
<1>0. w[B] = u[B] + d /\ \A b \in 1..l : b # B => w[b] = u[b]
  BY DEF OneChanges
<1> DEFINE y == [b \in 1..l |-> IF o[b] <= o[B] THEN v[b] + d ELSE v[b]]
<1>1. /\ v \in [1..l -> Int] /\ o \in [1..l -> Int]
      /\ \A b \in 1..l : v[b] = u[b] + Rest(v, nx, f, b)
      /\ \A b \in 1..l : nx[b] \in 1..l
  BY DEF Adds, WalkOrder
<1>2. /\ \A a, b \in 1..l : o[a] = o[b] => a = b
      /\ \A b \in 1..l : nx[b] = f => \A a \in 1..l : o[a] <= o[b]
      /\ \A b \in 1..l : nx[b] # f => o[nx[b]] = o[b] + 1
  BY DEF WalkOrder
<1>3. \A b \in 1..l : y[b] = IF o[b] <= o[B] THEN v[b] + d ELSE v[b]
  OBVIOUS
<1>4. y \in [1..l -> Int]
  BY <1>1
<1> HIDE DEF y
<1>5. ASSUME NEW b \in 1..l
      PROVE  /\ Rest(v, nx, f, b) \in Int
             /\ Rest(y, nx, f, b) = IF o[b] < o[B] THEN Rest(v, nx, f, b) + d
                                    ELSE Rest(v, nx, f, b)
  <2>1. o[b] \in Int /\ o[B] \in Int /\ nx[b] \in 1..l /\ v[nx[b]] \in Int
    BY <1>1
  <2>2. CASE nx[b] = f
    <3>1. o[B] <= o[b]
      BY <1>2, <2>2
    <3>2. ~(o[b] < o[B])
      BY <2>1, <3>1, IntOrder, Zenon
    <3>3. 0 \in Int
      OBVIOUS
    <3> QED
      BY <2>2, <3>2, <3>3, Zenon DEF Rest
  <2>3. CASE nx[b] # f
    <3>1. o[nx[b]] = o[b] + 1
      BY <1>2, <2>3
    <3>2. y[nx[b]] = IF o[nx[b]] <= o[B] THEN v[nx[b]] + d ELSE v[nx[b]]
      BY <1>3, <2>1
    <3>3. o[b] + 1 <= o[B] <=> o[b] < o[B]
      BY <2>1, IntNext, Zenon
    <3>4. o[nx[b]] <= o[B] <=> o[b] < o[B]
      BY <3>1, <3>3, Zenon
    <3> QED
      BY <2>1, <2>3, <3>2, <3>4, Zenon DEF Rest
  <2> QED
    BY <2>2, <2>3
<1>6. ASSUME NEW b \in 1..l
      PROVE  y[b] = w[b] + Rest(y, nx, f, b)
  <2>1. /\ v[b] = u[b] + Rest(v, nx, f, b) /\ u[b] \in Int /\ w[b] \in Int
        /\ y[b] = IF o[b] <= o[B] THEN v[b] + d ELSE v[b]
        /\ o[b] \in Int /\ o[B] \in Int
    BY <1>1, <1>3
  <2>2. Rest(v, nx, f, b) \in Int
    BY <1>5
  <2>3. /\ (u[b] + Rest(v, nx, f, b)) + d = (u[b] + d) + Rest(v, nx, f, b)
        /\ (u[b] + Rest(v, nx, f, b)) + d = u[b] + (Rest(v, nx, f, b) + d)
    <3>1. (u[b] + Rest(v, nx, f, b)) + d = (u[b] + d) + Rest(v, nx, f, b)
      BY <2>1, <2>2, IntSwap, ZenonT(60)
    <3>2. (u[b] + Rest(v, nx, f, b)) + d = u[b] + (Rest(v, nx, f, b) + d)
      BY <2>1, <2>2, IntShift, ZenonT(60)
    <3> QED
      BY <3>1, <3>2
  <2>4. CASE b = B
    <3>1. o[b] <= o[B] /\ ~(o[b] < o[B])
      BY <2>1, <2>4, IntOrder, Zenon
    <3>2. y[b] = v[b] + d /\ Rest(y, nx, f, b) = Rest(v, nx, f, b) /\ w[b] = u[b] + d
      BY <1>0, <1>5, <2>1, <2>4, <3>1, Zenon
    <3> QED
      BY <2>1, <2>3, <3>2, Zenon
  <2>5. CASE b # B
    <3>1. w[b] = u[b] /\ o[b] # o[B]
      BY <1>0, <1>2, <2>5
    <3>2. o[b] <= o[B] <=> o[b] < o[B]
      BY <2>1, <3>1, IntOrder, Zenon
    <3>3. CASE o[b] < o[B]
      <4>1. y[b] = v[b] + d /\ Rest(y, nx, f, b) = Rest(v, nx, f, b) + d
        BY <1>5, <2>1, <3>2, <3>3, Zenon
      <4> QED
        BY <2>1, <2>3, <3>1, <4>1, Zenon
    <3>4. CASE ~(o[b] < o[B])
      <4>1. y[b] = v[b] /\ Rest(y, nx, f, b) = Rest(v, nx, f, b)
        BY <1>5, <2>1, <3>2, <3>4, Zenon
      <4> QED
        BY <2>1, <3>1, <4>1, Zenon
    <3> QED
      BY <3>3, <3>4
  <2> QED
    BY <2>4, <2>5
<1>7. Adds(y, w, l, nx, f)
  BY <1>4, <1>6 DEF Adds
<1>8. \A b \in 1..l : y[b] = v[b] \/ y[b] = v[b] + d
  BY <1>3
<1>9. \A b \in 1..l : \/ Rest(y, nx, f, b) = Rest(v, nx, f, b)
                      \/ Rest(y, nx, f, b) = Rest(v, nx, f, b) + d
  BY <1>5
<1> QED
  BY <1>7, <1>8, <1>9, Zenon DEF ComesMore

(* A block with one element is linked behind block t.                      *)
LEMMA OneBlockMore ==
  ASSUME NEW l \in Nat, NEW nx \in [1..l -> 1..l], NEW f \in 1..l, NEW o, NEW v,
         NEW u \in [1..l -> Int], NEW t \in 1..l,
         WalkOrder(o, l, nx, f), Adds(v, u, l, nx, f),
         NEW mx, NEW w, OneMoreBlock(w, u, l, mx, nx, t)
  PROVE  ComesMore(v, l, nx, f, w, l + 1, mx, 1)
<1> USE DEF OneMoreBlock
<1> DEFINE y == [b \in 1..(l + 1) |->
                   IF b = l + 1 THEN 1 + Rest(v, nx, f, t)
                   ELSE IF o[b] <= o[t] THEN v[b] + 1 ELSE v[b]]
<1>0. /\ v \in [1..l -> Int] /\ o \in [1..l -> Int]
      /\ \A b \in 1..l : v[b] = u[b] + Rest(v, nx, f, b)
  BY DEF Adds, WalkOrder
<1>1. /\ \A b \in 1..l : nx[b] \in 1..l /\ v[b] \in Int /\ o[b] \in Int
      /\ l + 1 \in 1..(l + 1) /\ f # l + 1 /\ t # l + 1
      /\ \A b \in 1..l : b \in 1..(l + 1) /\ b # l + 1
      /\ \A b \in 1..(l + 1) : b \in 1..l \/ b = l + 1
  <2>1. /\ l + 1 \in 1..(l + 1) /\ f # l + 1 /\ t # l + 1
        /\ \A b \in 1..l : b \in 1..(l + 1) /\ b # l + 1
        /\ \A b \in 1..(l + 1) : b \in 1..l \/ b = l + 1
    BY OneMore, Zenon
  <2>2. \A b \in 1..l : nx[b] \in 1..l /\ v[b] \in Int /\ o[b] \in Int
    BY <1>0
  <2> QED
    BY <2>1, <2>2
<1>2. /\ \A a, b \in 1..l : o[a] = o[b] => a = b
      /\ \A b \in 1..l : nx[b] = f => \A a \in 1..l : o[a] <= o[b]
      /\ \A b \in 1..l : nx[b] # f => o[nx[b]] = o[b] + 1
  BY DEF WalkOrder
<1>3. \A b \in 1..l : Rest(v, nx, f, b) \in Int
  <2>1. 0 \in Int
    OBVIOUS
  <2> QED
    BY <1>1, <2>1, Zenon DEF Rest
<1>4. /\ \A b \in 1..l : y[b] = IF o[b] <= o[t] THEN v[b] + 1 ELSE v[b]
      /\ y[l + 1] = 1 + Rest(v, nx, f, t)
  BY <1>1
<1>5. y \in [1..(l + 1) -> Int]
  <2>1. ASSUME NEW b \in 1..(l + 1)
        PROVE  (IF b = l + 1 THEN 1 + Rest(v, nx, f, t)
                ELSE IF o[b] <= o[t] THEN v[b] + 1 ELSE v[b]) \in Int
    <3>1. CASE b = l + 1
      BY <1>3, <3>1
    <3>2. CASE b # l + 1
      <4>1. v[b] \in Int
        BY <1>1, <3>2
      <4>2. v[b] + 1 \in Int
        BY <4>1, IntNext, Zenon
      <4> QED
        BY <3>2, <4>1, <4>2, Zenon
    <3> QED
      BY <3>1, <3>2
  <2> QED
    BY <2>1, Zenon
<1> HIDE DEF y
<1>6. ASSUME NEW b \in 1..l
      PROVE  Rest(y, mx, f, b) = IF o[b] <= o[t] THEN Rest(v, nx, f, b) + 1
                                 ELSE Rest(v, nx, f, b)
  <2>1. o[b] \in Int /\ o[t] \in Int /\ nx[b] \in 1..l /\ v[nx[b]] \in Int
    BY <1>1
  <2>2. CASE b = t
    <3>1. o[b] <= o[t]
      <4>1. o[t] <= o[t]
        BY <2>1, IntOrder, ZenonT(60)
      <4> QED
        BY <2>2, <4>1, Zenon
    <3>2. Rest(y, mx, f, b) = y[l + 1]
      BY <1>1, <2>2, Zenon DEF Rest
    <3>3. 1 + Rest(v, nx, f, b) = Rest(v, nx, f, b) + 1
      BY <1>3
    <3> QED
      BY <1>4, <2>2, <3>1, <3>2, <3>3, Zenon
  <2>3. CASE b # t /\ nx[b] = f
    <3>1. o[t] <= o[b] /\ o[t] # o[b] /\ mx[b] = f
      BY <1>2, <2>3
    <3>2. ~(o[b] <= o[t])
      BY <2>1, <3>1, IntOrder, Zenon
    <3> QED
      BY <2>3, <3>1, <3>2, Zenon DEF Rest
  <2>4. CASE b # t /\ nx[b] # f
    <3>1. o[nx[b]] = o[b] + 1 /\ o[t] # o[b] /\ mx[b] = nx[b]
      BY <1>2, <2>4
    <3>2. y[nx[b]] = IF o[nx[b]] <= o[t] THEN v[nx[b]] + 1 ELSE v[nx[b]]
      BY <1>4, <2>1
    <3>3. o[b] + 1 <= o[t] <=> o[b] < o[t]
      BY <2>1, IntNext, Zenon
    <3>4. o[b] <= o[t] <=> o[b] < o[t]
      BY <2>1, <3>1, IntNotBelow, Zenon
    <3>5. o[nx[b]] <= o[t] <=> o[b] <= o[t]
      BY <3>1, <3>3, <3>4, Zenon
    <3> QED
      BY <2>4, <3>1, <3>2, <3>5, Zenon DEF Rest
  <2> QED
    BY <2>2, <2>3, <2>4
<1>7. ASSUME NEW b \in 1..l
      PROVE  y[b] = w[b] + Rest(y, mx, f, b)
  <2>1. /\ v[b] = u[b] + Rest(v, nx, f, b) /\ u[b] \in Int /\ w[b] = u[b]
        /\ y[b] = IF o[b] <= o[t] THEN v[b] + 1 ELSE v[b]
        /\ Rest(v, nx, f, b) \in Int
    BY <1>0, <1>3, <1>4
  <2>2. \A i, j \in Int : (i + j) + 1 = i + (j + 1)
    OBVIOUS
  <2>3. CASE o[b] <= o[t]
    <3>1. y[b] = v[b] + 1 /\ Rest(y, mx, f, b) = Rest(v, nx, f, b) + 1
      BY <1>6, <2>1, <2>3, Zenon
    <3> QED
      BY <2>1, <2>2, <3>1, Zenon
  <2>4. CASE ~(o[b] <= o[t])
    <3>1. y[b] = v[b] /\ Rest(y, mx, f, b) = Rest(v, nx, f, b)
      BY <1>6, <2>1, <2>4, Zenon
    <3> QED
      BY <2>1, <3>1, Zenon
  <2> QED
    BY <2>3, <2>4
<1>8. y[l + 1] = w[l + 1] + Rest(y, mx, f, l + 1)
  <2>1. Rest(y, mx, f, l + 1) = Rest(v, nx, f, t)
    <3>1. CASE nx[t] = f
      BY <3>1 DEF Rest
    <3>2. CASE nx[t] # f
      <4>1. o[nx[t]] = o[t] + 1 /\ nx[t] \in 1..l /\ o[t] \in Int
        BY <1>1, <1>2, <3>2
      <4>2. y[nx[t]] = v[nx[t]]
        <5>1. ~(o[t] + 1 <= o[t])
          BY <4>1, IntOrder, ZenonT(60)
        <5>2. ~(o[nx[t]] <= o[t])
          BY <4>1, <5>1, Zenon
        <5> QED
          BY <1>4, <4>1, <5>2, Zenon
      <4> QED
        BY <3>2, <4>2 DEF Rest
    <3> QED
      BY <3>1, <3>2
  <2> QED
    BY <1>4, <2>1
<1>9. Adds(y, w, l + 1, mx, f)
  BY <1>1, <1>5, <1>7, <1>8 DEF Adds
<1>10. \A b \in 1..l : y[b] = v[b] \/ y[b] = v[b] + 1
  BY <1>4
<1>11. \A b \in 1..l : \/ Rest(y, mx, f, b) = Rest(v, nx, f, b)
                       \/ Rest(y, mx, f, b) = Rest(v, nx, f, b) + 1
  BY <1>6
<1> QED
  BY <1>9, <1>10, <1>11, Zenon DEF ComesMore

LEMMA SumLess ==
  \A m, r, q, lo, hi \in Int :
    (q = r \/ q = r + (-1)) /\ lo <= m + r /\ m + r <= hi => lo - 1 <= m + q /\ m + q <= hi
  OBVIOUS

LEMMA SumMore ==
  \A m, r, q, lo, hi \in Int :
    (q = r \/ q = r + 1) /\ lo <= m + r /\ m + r <= hi => lo <= m + q /\ m + q <= hi + 1
  OBVIOUS

LEMMA RestIsInt ==
  ASSUME NEW l \in Nat, NEW nx \in [1..l -> 1..l], NEW v \in [1..l -> Int], NEW f, NEW b \in 1..l
  PROVE  Rest(v, nx, f, b) \in Int /\ v[b] \in Int
<1>1. nx[b] \in 1..l /\ 0 \in Int
  OBVIOUS
<1>2. v[b] \in Int /\ v[nx[b]] \in Int
  BY <1>1
<1> QED
  BY <1>1, <1>2, Zenon DEF Rest

(* What is to come for a caller whose x is what its block holds.           *)
LEMMA ComesFromHere ==
  \A s, v, u, l, nx :
    Adds(v, u, l, nx, s.first) /\ s.blk \in 1..l
      => ToCome(s, v, nx, u[s.blk]) = IF s.pc \in {"front", "tail"} THEN v[s.blk]
                                      ELSE Rest(v, nx, s.first, s.blk)
<1> SUFFICES ASSUME NEW s, NEW v, NEW u, NEW l, NEW nx,
                    Adds(v, u, l, nx, s.first), s.blk \in 1..l
             PROVE  ToCome(s, v, nx, u[s.blk]) = IF s.pc \in {"front", "tail"} THEN v[s.blk]
                                                 ELSE Rest(v, nx, s.first, s.blk)
  BY Zenon
<1>1. v[s.blk] = u[s.blk] + Rest(v, nx, s.first, s.blk)
  BY Zenon DEF Adds
<1>2. CASE s.pc = "front"
  BY <1>2 DEF ToCome
<1>3. CASE s.pc = "tail"
  <2>1. "tail" # "front"
    OBVIOUS
  <2> QED
    BY <1>1, <1>3, <2>1, Zenon DEF ToCome
<1>4. CASE s.pc \notin {"front", "tail"}
  <2>1. s.pc # "front" /\ s.pc # "tail"
    BY <1>4
  <2> QED
    BY <1>4, <2>1, Zenon DEF ToCome
<1> QED
  BY <1>2, <1>3, <1>4

(* While the producer walks, the consumer takes an element from block B.   *)
LEMMA BetweenTaken ==
  ASSUME NEW s, NEW v, NEW l \in Nat, NEW nx \in [1..l -> 1..l], NEW u \in [1..l -> Int],
         NEW w \in [1..l -> Int], NEW x \in Int, NEW lo \in Int, NEW hi \in Int, NEW o,
         NEW B \in 1..l, s.sum \in Int, WalkOrder(o, l, nx, s.first),
         Between(s, v, l, nx, u, x, lo, hi),
         OneChanges(w, u, l, B, -1)
  PROVE  \E y : Between(s, y, l, nx, w, x, lo - 1, hi)
<1>1. /\ Adds(v, u, l, nx, s.first) /\ s.blk \in 1..l
      /\ lo <= s.sum + ToCome(s, v, nx, x) /\ s.sum + ToCome(s, v, nx, x) <= hi
  BY DEF Between
<1>2. ComesMore(v, l, nx, s.first, w, l, nx, -1)
  <2>1. -1 \in Int
    OBVIOUS
  <2> QED
    BY <1>1, <2>1, OneBlockChanges, Zenon
<1>3. PICK y : /\ Adds(y, w, l, nx, s.first)
               /\ \A b \in 1..l : /\ y[b] = v[b] \/ y[b] = v[b] + (-1)
                                  /\ \/ Rest(y, nx, s.first, b) = Rest(v, nx, s.first, b)
                                     \/ Rest(y, nx, s.first, b) = Rest(v, nx, s.first, b) + (-1)
  BY <1>2, Zenon DEF ComesMore
<1>4. v \in [1..l -> Int] /\ y \in [1..l -> Int]
  BY <1>1, <1>3 DEF Adds
<1> DEFINE rv == Rest(v, nx, s.first, s.blk)
           ry == Rest(y, nx, s.first, s.blk)
           cv == ToCome(s, v, nx, x)
           cy == ToCome(s, y, nx, x)
<1>5. /\ rv \in Int /\ ry \in Int /\ v[s.blk] \in Int /\ y[s.blk] \in Int
      /\ ry = rv \/ ry = rv + (-1)
      /\ y[s.blk] = v[s.blk] \/ y[s.blk] = v[s.blk] + (-1)
  <2>1. rv \in Int /\ v[s.blk] \in Int
    BY <1>1, <1>4, RestIsInt
  <2>2. ry \in Int /\ y[s.blk] \in Int
    BY <1>1, <1>4, RestIsInt
  <2> QED
    BY <1>1, <1>3, <2>1, <2>2, Zenon
<1>6. /\ cv = IF s.pc = "front" THEN v[s.blk] ELSE IF s.pc = "tail" THEN x + rv ELSE rv
      /\ cy = IF s.pc = "front" THEN y[s.blk] ELSE IF s.pc = "tail" THEN x + ry ELSE ry
  BY Zenon DEF ToCome
<1> HIDE DEF rv, ry, cv, cy
<1>7. cv \in Int /\ cy \in Int /\ (cy = cv \/ cy = cv + (-1))
  <2>1. x + rv \in Int /\ x + ry \in Int /\ (x + ry = x + rv \/ x + ry = (x + rv) + (-1))
    BY <1>5
  <2> QED
    BY <1>5, <1>6, <2>1, Zenon
<1>8. lo - 1 <= s.sum + cy /\ s.sum + cy <= hi
  <2>1. lo <= s.sum + cv /\ s.sum + cv <= hi
    BY <1>1 DEF cv
  <2> QED
    BY <1>7, <2>1, SumLess, Zenon
<1> QED
  BY <1>1, <1>3, <1>8, Zenon DEF Between, cy

(* While the consumer walks, the producer adds an element to block B.      *)
LEMMA BetweenAdded ==
  ASSUME NEW s, NEW v, NEW l \in Nat, NEW nx \in [1..l -> 1..l], NEW u \in [1..l -> Int],
         NEW w \in [1..l -> Int], NEW lo \in Int, NEW hi \in Int, NEW o,
         NEW B \in 1..l, s.sum \in Int, WalkOrder(o, l, nx, s.first),
         Between(s, v, l, nx, u, u[s.blk], lo, hi),
         OneChanges(w, u, l, B, 1)
  PROVE  \E y : Between(s, y, l, nx, w, w[s.blk], lo, hi + 1)
<1>1. /\ Adds(v, u, l, nx, s.first) /\ s.blk \in 1..l
      /\ lo <= s.sum + ToCome(s, v, nx, u[s.blk]) /\ s.sum + ToCome(s, v, nx, u[s.blk]) <= hi
  BY DEF Between
<1>2. ComesMore(v, l, nx, s.first, w, l, nx, 1)
  <2>1. 1 \in Int
    OBVIOUS
  <2> QED
    BY <1>1, <2>1, OneBlockChanges, Zenon
<1>3. PICK y : /\ Adds(y, w, l, nx, s.first)
               /\ \A b \in 1..l : /\ y[b] = v[b] \/ y[b] = v[b] + 1
                                  /\ \/ Rest(y, nx, s.first, b) = Rest(v, nx, s.first, b)
                                     \/ Rest(y, nx, s.first, b) = Rest(v, nx, s.first, b) + 1
  BY <1>2, Zenon DEF ComesMore
<1>4. v \in [1..l -> Int] /\ y \in [1..l -> Int]
  BY <1>1, <1>3 DEF Adds
<1> DEFINE rv == Rest(v, nx, s.first, s.blk)
           ry == Rest(y, nx, s.first, s.blk)
           cv == ToCome(s, v, nx, u[s.blk])
           cy == ToCome(s, y, nx, w[s.blk])
<1>5. /\ rv \in Int /\ ry \in Int /\ v[s.blk] \in Int /\ y[s.blk] \in Int
      /\ ry = rv \/ ry = rv + 1
      /\ y[s.blk] = v[s.blk] \/ y[s.blk] = v[s.blk] + 1
  <2>1. rv \in Int /\ v[s.blk] \in Int
    BY <1>1, <1>4, RestIsInt
  <2>2. ry \in Int /\ y[s.blk] \in Int
    BY <1>1, <1>4, RestIsInt
  <2> QED
    BY <1>1, <1>3, <2>1, <2>2, Zenon
<1>6. /\ cv = IF s.pc \in {"front", "tail"} THEN v[s.blk] ELSE rv
      /\ cy = IF s.pc \in {"front", "tail"} THEN y[s.blk] ELSE ry
  <2>1. cv = IF s.pc \in {"front", "tail"} THEN v[s.blk] ELSE rv
    BY <1>1, ComesFromHere, ZenonT(60)
  <2>2. cy = IF s.pc \in {"front", "tail"} THEN y[s.blk] ELSE ry
    BY <1>1, <1>3, ComesFromHere, ZenonT(60)
  <2> QED
    BY <2>1, <2>2
<1> HIDE DEF rv, ry, cv, cy
<1>7. cv \in Int /\ cy \in Int /\ (cy = cv \/ cy = cv + 1)
  BY <1>5, <1>6, Zenon
<1>8. lo <= s.sum + cy /\ s.sum + cy <= hi + 1
  <2>1. lo <= s.sum + cv /\ s.sum + cv <= hi
    BY <1>1 DEF cv
  <2> QED
    BY <1>7, <2>1, SumMore, Zenon
<1> QED
  BY <1>1, <1>3, <1>8, Zenon DEF Between, cy

(* While the consumer walks, the producer links a block with one element.  *)
LEMMA BetweenLinked ==
  ASSUME NEW s, NEW v, NEW l \in Nat, NEW nx \in [1..l -> 1..l], NEW u \in [1..l -> Int],
         NEW lo \in Int, NEW hi \in Int, NEW o, NEW t \in 1..l, s.first \in 1..l, s.sum \in Int,
         WalkOrder(o, l, nx, s.first), Between(s, v, l, nx, u, u[s.blk], lo, hi),
         NEW mx \in [1..(l + 1) -> 1..(l + 1)], NEW w, OneMoreBlock(w, u, l, mx, nx, t)
  PROVE  \E y : Between(s, y, l + 1, mx, w, w[s.blk], lo, hi + 1)
<1>1. /\ Adds(v, u, l, nx, s.first) /\ s.blk \in 1..l
      /\ lo <= s.sum + ToCome(s, v, nx, u[s.blk]) /\ s.sum + ToCome(s, v, nx, u[s.blk]) <= hi
  BY DEF Between
<1>2. l + 1 \in Nat /\ s.blk \in 1..(l + 1) /\ ComesMore(v, l, nx, s.first, w, l + 1, mx, 1)
  <2>1. l + 1 \in Nat
    OBVIOUS
  <2>2. s.blk \in 1..(l + 1)
    BY <1>1, OneMore, Zenon
  <2> QED
    BY <1>1, <2>1, <2>2, OneBlockMore, Zenon
<1>3. PICK y : /\ Adds(y, w, l + 1, mx, s.first)
               /\ \A b \in 1..l : /\ y[b] = v[b] \/ y[b] = v[b] + 1
                                  /\ \/ Rest(y, mx, s.first, b) = Rest(v, nx, s.first, b)
                                     \/ Rest(y, mx, s.first, b) = Rest(v, nx, s.first, b) + 1
  BY <1>2, Zenon DEF ComesMore
<1>4. v \in [1..l -> Int] /\ y \in [1..(l + 1) -> Int]
  BY <1>1, <1>3 DEF Adds
<1> DEFINE rv == Rest(v, nx, s.first, s.blk)
           ry == Rest(y, mx, s.first, s.blk)
           cv == ToCome(s, v, nx, u[s.blk])
           cy == ToCome(s, y, mx, w[s.blk])
<1>5. /\ rv \in Int /\ ry \in Int /\ v[s.blk] \in Int /\ y[s.blk] \in Int
      /\ ry = rv \/ ry = rv + 1
      /\ y[s.blk] = v[s.blk] \/ y[s.blk] = v[s.blk] + 1
  <2>1. rv \in Int /\ v[s.blk] \in Int
    BY <1>1, <1>4, RestIsInt
  <2>2. ry \in Int /\ y[s.blk] \in Int
    BY <1>2, <1>4, RestIsInt
  <2> QED
    BY <1>1, <1>3, <2>1, <2>2, Zenon
<1>6. /\ cv = IF s.pc \in {"front", "tail"} THEN v[s.blk] ELSE rv
      /\ cy = IF s.pc \in {"front", "tail"} THEN y[s.blk] ELSE ry
  <2>1. cv = IF s.pc \in {"front", "tail"} THEN v[s.blk] ELSE rv
    BY <1>1, ComesFromHere, ZenonT(60)
  <2>2. cy = IF s.pc \in {"front", "tail"} THEN y[s.blk] ELSE ry
    BY <1>2, <1>3, ComesFromHere, ZenonT(60)
  <2> QED
    BY <2>1, <2>2
<1> HIDE DEF rv, ry, cv, cy
<1>7. cv \in Int /\ cy \in Int /\ (cy = cv \/ cy = cv + 1)
  BY <1>5, <1>6, Zenon
<1>8. lo <= s.sum + cy /\ s.sum + cy <= hi + 1
  <2>1. lo <= s.sum + cv /\ s.sum + cv <= hi
    BY <1>1 DEF cv
  <2> QED
    BY <1>7, <2>1, SumMore, Zenon
<1> QED
  BY <1>2, <1>3, <1>8, Zenon DEF Between, cy

-----------------------------------------------------------------------------
(* What a walk around the whole ring has to come.                          *)

(* S[k] is e[0] + ... + e[k].                                              *)
Running(S, e, n) ==
  /\ S \in [0..n -> Int] /\ e \in [0..n -> Int]
  /\ S[0] = e[0]
  /\ \A k \in 1..n : S[k] = S[k - 1] + e[k]

LEMMA CatRunning ==
  ASSUME NEW n \in Nat, NEW it, AreSeqs(it, n)
  PROVE  Running([k \in 0..n |-> Len(Cat(it, k))], [k \in 0..n |-> Len(it[k])], n)
<1> DEFINE S == [k \in 0..n |-> Len(Cat(it, k))]
           e == [k \in 0..n |-> Len(it[k])]
<1>1. /\ Cat(it, 0) = it[0]
      /\ \A k \in 1..n : Cat(it, k) = Cat(it, k - 1) \o it[k]
      /\ \A k \in 0..n : Cat(it, k) \in Seq(Nat)
  BY CatSteps, CatType, Zenon
<1>2. \A k \in 0..n : it[k] \in Seq(Nat)
  BY DEF AreSeqs
<1>3. ASSUME NEW k \in 0..n PROVE Len(Cat(it, k)) \in Int /\ Len(it[k]) \in Int
  <2>1. Len(Cat(it, k)) \in Nat /\ Len(it[k]) \in Nat
    BY <1>1, <1>2, LenProperties, Zenon
  <2> QED
    BY <2>1
<1>4. S \in [0..n -> Int] /\ e \in [0..n -> Int]
  BY <1>3, Zenon
<1>5. \A k \in 0..n : S[k] = Len(Cat(it, k)) /\ e[k] = Len(it[k])
  BY Zenon
<1> HIDE DEF S, e
<1>6. S[0] = e[0]
  <2>1. 0 \in 0..n
    OBVIOUS
  <2> QED
    BY <1>1, <1>5, <2>1, Zenon
<1>7. ASSUME NEW k \in 1..n PROVE S[k] = S[k - 1] + e[k]
  <2>1. k \in 0..n /\ k - 1 \in 0..n
    OBVIOUS
  <2>2. Cat(it, k - 1) \in Seq(Nat) /\ it[k] \in Seq(Nat) /\ Cat(it, k) = Cat(it, k - 1) \o it[k]
    BY <1>1, <1>2, <2>1, Zenon
  <2>3. Len(Cat(it, k)) = Len(Cat(it, k - 1)) + Len(it[k])
    BY <2>2, ConcatProperties, Zenon
  <2> QED
    BY <1>5, <2>1, <2>3, Zenon
<1>8. Running(S, e, n)
  BY <1>4, <1>6, <1>7, Zenon DEF Running
<1> QED
  BY <1>8 DEF S, e

(* Behind place m only the next one adds something.                        *)
OnlyNext(e, m, n, d) ==
  /\ \A k \in (m + 1)..n : e[k] = IF k = m + 1 THEN d ELSE 0
  /\ d = 0 \/ m < n
EndsWith(S, m, n, d) == S[n] = S[m] + d

LEMMA RunningEnd ==
  ASSUME NEW n \in Nat, NEW m \in 0..n, NEW S, NEW e, Running(S, e, n), NEW d \in Int,
         OnlyNext(e, m, n, d)
  PROVE  EndsWith(S, m, n, d)
<1> USE DEF OnlyNext, EndsWith
<1> DEFINE T == {k \in 0..n : k > m => S[k] = S[m] + d}
<1>1. /\ \A k \in 0..n : S[k] \in Int
      /\ \A k \in 1..n : S[k] = S[k - 1] + e[k]
  BY DEF Running
<1>2. 0 \in T
  OBVIOUS
<1>3. ASSUME NEW k \in 1..n, k - 1 \in T PROVE k \in T
  <2> SUFFICES ASSUME k > m PROVE S[k] = S[m] + d
    OBVIOUS
  <2>1. S[k] = S[k - 1] + e[k] /\ S[k - 1] \in Int /\ S[m] \in Int
    BY <1>1
  <2>2. e[k] = IF k = m + 1 THEN d ELSE 0
    OBVIOUS
  <2>3. CASE k = m + 1
    <3>1. k - 1 = m
      BY <2>3
    <3> QED
      BY <2>1, <2>2, <2>3, <3>1, Zenon
  <2>4. CASE k # m + 1
    <3>1. k - 1 > m
      BY <2>4
    <3>2. S[k - 1] = S[m] + d
      BY <1>3, <3>1
    <3>3. \A i \in Int : i + 0 = i
      OBVIOUS
    <3> QED
      BY <2>1, <2>2, <2>4, <3>2, <3>3, Zenon
  <2> QED
    BY <2>3, <2>4
<1>4. \A k \in 0..n : k \in T
  <2> HIDE DEF T
  <2> QED
    BY <1>2, <1>3, UpTo
<1>5. CASE m < n
  BY <1>4, <1>5
<1>6. CASE m = n
  BY <1>1, <1>6
<1> QED
  BY <1>5, <1>6

LEMMA IntSuffix ==
  \A t, a, x \in Int : (t - x) + x = t /\ t - a \in Int /\ (t - a) + x \in Int
  OBVIOUS

LEMMA IntNone ==
  \A t, x \in Int : (t - t) + x = x + 0
  OBVIOUS

LEMMA IntCancel ==
  \A t, a, x \in Int : (t - (a + x)) + x = t - a
  OBVIOUS

LEMMA IntFlip ==
  \A t, a, x \in Int : (t - a) + x = x + (t - a)
  OBVIOUS

(* u[b] is what is at the place of block b, and a walk around the ring     *)
(* adds up to the last sum.                                                *)
Places(u, e, l, pos) == \A b \in 1..l : u[b] = e[pos[b]]
AddsUp(u, l, nx, f, S) == \E v : Adds(v, u, l, nx, f) /\ v[f] = S[l - 1]

LEMMA RingSums ==
  ASSUME NEW l \in Nat, l >= 1, NEW S, NEW e, Running(S, e, l - 1), NEW pos, NEW f, NEW nx,
         IsRing(pos, l, f, nx), NEW u, Places(u, e, l, pos)
  PROVE  AddsUp(u, l, nx, f, S)
<1> DEFINE v == [b \in 1..l |-> (S[l - 1] - S[pos[b]]) + e[pos[b]]]
<1>1. /\ f \in 1..l /\ pos[f] = 0
      /\ \A b \in 1..l : pos[b] \in 0..(l - 1)
      /\ \A a, b \in 1..l : pos[a] = pos[b] => a = b
      /\ \A b \in 1..l : nx[b] \in 1..l
      /\ \A b \in 1..l : pos[nx[b]] = IF pos[b] = l - 1 THEN 0 ELSE pos[b] + 1
  BY DEF IsRing
<1>2. /\ \A k \in 0..(l - 1) : S[k] \in Int /\ e[k] \in Int
      /\ S[0] = e[0] /\ \A k \in 1..(l - 1) : S[k] = S[k - 1] + e[k]
  BY DEF Running
<1>3. S[l - 1] \in Int
  BY <1>2
<1>4. \A b \in 1..l : S[pos[b]] \in Int /\ e[pos[b]] \in Int
  BY <1>1, <1>2, Zenon
<1>5. v \in [1..l -> Int]
  <2>1. \A b \in 1..l : (S[l - 1] - S[pos[b]]) + e[pos[b]] \in Int
    BY <1>3, <1>4, IntSuffix, Zenon
  <2> QED
    BY <2>1, Zenon
<1>6. \A b \in 1..l : v[b] = (S[l - 1] - S[pos[b]]) + e[pos[b]]
  BY Zenon
<1> HIDE DEF v
<1>7. v[f] = S[l - 1]
  <2>1. S[pos[f]] = e[pos[f]] /\ e[pos[f]] \in Int
    BY <1>1, <1>2, <1>4, Zenon
  <2>2. v[f] = (S[l - 1] - e[pos[f]]) + e[pos[f]]
    BY <1>1, <1>6, <2>1, Zenon
  <2> QED
    BY <1>3, <2>1, <2>2, IntSuffix, Zenon
<1>8. ASSUME NEW b \in 1..l PROVE v[b] = u[b] + Rest(v, nx, f, b)
  <2>0. u[b] = e[pos[b]] /\ nx[b] \in 1..l /\ pos[b] \in 0..(l - 1)
    BY <1>1 DEF Places
  <2>1. CASE pos[b] = l - 1
    <3>1. nx[b] = f
      BY <1>1, <2>0, <2>1, Zenon
    <3>2. v[b] = (S[l - 1] - S[l - 1]) + u[b]
      BY <1>6, <2>0, <2>1, Zenon
    <3>3. u[b] \in Int
      BY <1>4, <2>0, Zenon
    <3>4. v[b] = u[b] + 0
      BY <1>3, <3>2, <3>3, IntNone, Zenon
    <3> QED
      BY <3>1, <3>4, Zenon DEF Rest
  <2>2. CASE pos[b] # l - 1
    <3>1. pos[nx[b]] = pos[b] + 1
      BY <1>1, <2>0, <2>2, Zenon
    <3>2. pos[b] + 1 \in 1..(l - 1) /\ (pos[b] + 1) - 1 = pos[b] /\ pos[b] + 1 # 0
      BY <2>0, <2>2
    <3>3. nx[b] # f
      BY <1>1, <3>1, <3>2, Zenon
    <3>4. S[pos[b] + 1] = S[pos[b]] + e[pos[b] + 1]
      BY <1>2, <3>2, Zenon
    <3>5. e[pos[b] + 1] \in Int /\ S[pos[b]] \in Int /\ u[b] \in Int
      BY <1>4, <2>0, <3>1, Zenon
    <3>6. v[nx[b]] = (S[l - 1] - (S[pos[b]] + e[pos[b] + 1])) + e[pos[b] + 1]
      BY <1>6, <2>0, <3>1, <3>4, Zenon
    <3>7. v[nx[b]] = S[l - 1] - S[pos[b]]
      BY <1>3, <3>5, <3>6, IntCancel, Zenon
    <3>8. v[b] = (S[l - 1] - S[pos[b]]) + u[b]
      BY <1>6, <2>0, Zenon
    <3>9. (S[l - 1] - S[pos[b]]) + u[b] = u[b] + (S[l - 1] - S[pos[b]])
      BY <1>3, <3>5, IntFlip, Zenon
    <3>10. v[b] = u[b] + v[nx[b]]
      BY <3>7, <3>8, <3>9, Zenon
    <3> QED
      BY <3>3, <3>10, Zenon DEF Rest
  <2> QED
    BY <2>1, <2>2
<1>9. Adds(v, u, l, nx, f)
  BY <1>5, <1>8, Zenon DEF Adds
<1> QED
  BY <1>7, <1>9, Zenon DEF AddsUp

-----------------------------------------------------------------------------
(* The walks of the two threads.                                           *)

UsedOf == [b \in 1..Linked |-> Used(b)]
Pending == IF p.pc = "advance" THEN 1 ELSE 0

LEMMA ItemsCount ==
  ASSUME Shape, NEW b \in 1..N
  PROVE  Used(b) \in Nat /\ Items(b) \in Seq(Nat) /\ Len(Items(b)) = Used(b)
<1>1. /\ blocks[b].size \in Nat \ {0} /\ blocks[b].front \in 0..(blocks[b].size - 1)
      /\ blocks[b].tail \in 0..(blocks[b].size - 1)
  BY BlockFacts
<1>2. Used(b) = HowMany(blocks[b].size, blocks[b].front, blocks[b].tail)
  BY <1>1, UsedIs DEF HowMany
<1>3. IsBuffer(blocks[b].size, blocks[b].front, blocks[b].tail, blocks[b].data)
  BY BlockIsBuffer
<1>4. /\ HowMany(blocks[b].size, blocks[b].front, blocks[b].tail) \in 0..(blocks[b].size - 1)
      /\ Items(b) \in Seq(Nat)
      /\ Len(Items(b)) = HowMany(blocks[b].size, blocks[b].front, blocks[b].tail)
  BY <1>3, ElemsAre, ItemsAre
<1>5. \A d \in Nat \ {0} : \A i \in 0..(d - 1) : i \in Nat
  OBVIOUS
<1> QED
  BY <1>1, <1>2, <1>4, <1>5, Zenon

LEMMA CountIsNat ==
  ASSUME IInv
  PROVE  Count \in Nat
<1>1. PICK pos, r, n : PathAt(pos, r, n)
  BY PathExists
<1>2. Path(r, n) /\ n \in Nat /\ (\A k \in 0..n : r[k] \in 1..N)
  BY <1>1 DEF PathAt, Path
<1>3. AreSeqs(ItemsOn(r, n), n) /\ Contents = Cat(ItemsOn(r, n), n)
  BY <1>2, ContentsOfPath, ItemsAreSeqs, LocalFacts
<1> QED
  BY <1>2, <1>3, CatLen DEF Count

(* The types of what a walk is about.                                      *)
LEMMA WalkFacts ==
  ASSUME IInv
  PROVE  /\ Linked \in Nat /\ Linked >= 1 /\ Linked \in 1..N
         /\ NextOf \in [1..Linked -> 1..Linked] /\ UsedOf \in [1..Linked -> Int]
         /\ frontBlock \in 1..Linked /\ tailBlock \in 1..Linked
         /\ Count \in Int /\ Pending \in Int
         /\ \A b \in 1..Linked : b \in 1..N
<1>1. PICK pos \in [1..Linked -> 0..(Linked - 1)] : RingAt(pos)
  BY DEF IInv
<1>2. Shape /\ Ordered(pos)
  BY <1>1 DEF IInv, RingAt
<1>3. /\ N \in Nat /\ Linked \in 1..N
      /\ frontBlock \in 1..Linked /\ tailBlock \in 1..Linked
      /\ \A b \in 1..Linked : b \in 1..N /\ blocks[b].next \in 1..Linked
  BY <1>2, LinkedFacts
<1>4. NextOf \in [1..Linked -> 1..Linked]
  BY <1>3 DEF NextOf
<1>5. UsedOf \in [1..Linked -> Int]
  <2>1. \A b \in 1..Linked : Used(b) \in Nat
    BY <1>2, <1>3, ItemsCount
  <2>2. \A i \in Nat : i \in Int
    OBVIOUS
  <2> QED
    BY <2>1, <2>2, Zenon DEF UsedOf
<1>6. Count \in Int /\ Pending \in Int
  BY CountIsNat DEF Pending
<1>7. Linked \in Nat /\ Linked >= 1
  BY <1>3
<1> QED
  BY <1>3, <1>4, <1>5, <1>6, <1>7

(* From the front block on, a walk meets the blocks in the order of pos.   *)
LEMMA RingIsWalk ==
  ASSUME IInv
  PROVE  \E o : WalkOrder(o, Linked, NextOf, frontBlock)
<1>1. PICK pos \in [1..Linked -> 0..(Linked - 1)] : RingAt(pos)
  BY DEF IInv
<1>2. IsRing(pos, Linked, frontBlock, NextOf)
  BY <1>1, OrderedIsRing DEF RingAt
<1> DEFINE L == Linked
           nx == NextOf
           f == frontBlock
<1>3. L \in Nat /\ L >= 1
  BY WalkFacts
<1>4. /\ pos \in [1..L -> 0..(L - 1)] /\ f \in 1..L /\ pos[f] = 0
      /\ \A a, b \in 1..L : pos[a] = pos[b] => a = b
      /\ \A b \in 1..L : /\ nx[b] \in 1..L
                         /\ pos[nx[b]] = IF pos[b] = L - 1 THEN 0 ELSE pos[b] + 1
  BY <1>2 DEF IsRing
<1> HIDE DEF L, nx, f
<1>5. pos \in [1..L -> Int]
  BY <1>4
<1>6. ASSUME NEW b \in 1..L
      PROVE  IF nx[b] = f THEN \A a \in 1..L : pos[a] <= pos[b] ELSE pos[nx[b]] = pos[b] + 1
  <2>1. pos[b] \in 0..(L - 1) /\ nx[b] \in 1..L
    BY <1>4
  <2>2. CASE nx[b] = f
    <3>1. pos[b] = L - 1
      BY <1>3, <1>4, <2>1, <2>2
    <3>2. \A a \in 1..L : pos[a] <= L - 1
      <4>1. \A i \in 0..(L - 1) : i <= L - 1
        BY <1>3
      <4>2. \A a \in 1..L : pos[a] \in 0..(L - 1)
        BY <1>4
      <4> QED
        BY <4>1, <4>2, Zenon
    <3> QED
      BY <2>2, <3>1, <3>2
  <2>3. CASE nx[b] # f
    BY <1>4, <2>1, <2>3
  <2> QED
    BY <2>2, <2>3
<1>7. WalkOrder(pos, L, nx, f)
  BY <1>4, <1>5, <1>6 DEF WalkOrder
<1> QED
  BY <1>7 DEF L, nx, f

(* Of the blocks behind the tail block only the one that the producer is   *)
(* about to advance to holds something.                                    *)
LEMMA BehindTail ==
  ASSUME IInv, DataInv, NEW pos, RingAt(pos), NEW b \in 1..Linked, pos[b] > pos[tailBlock]
  PROVE  Len(Items(b)) = IF pos[b] = pos[tailBlock] + 1 THEN Pending ELSE 0
<1>1. Shape /\ Ordered(pos) /\ Filled(pos)
  BY DEF IInv, RingAt
<1>2. b \in 1..N
  BY WalkFacts
<1>3. Empty(b) \/ (p.pc = "advance" /\ b = p.blk)
  BY <1>1 DEF Filled
<1>4. Empty(b) => Len(Items(b)) = 0
  <2>1. Empty(b) => Items(b) = <<>>
    BY <1>1, <1>2, EmptyItems
  <2>2. Len(<<>>) = 0
    OBVIOUS
  <2> QED
    BY <2>1, <2>2, Zenon
<1>5. CASE p.pc = "advance"
  <2>1. Pending = 1 /\ pos[p.blk] = pos[tailBlock] + 1 /\ p.blk \in 1..N /\ Linked = N
    BY <1>5, ProducerApart DEF Pending
  <2>2. CASE b = p.blk
    <3>1. Items(b) = <<sent + 1>>
      BY <1>2, <1>5, <2>2, AdvanceItems
    <3>2. Len(<<sent + 1>>) = 1
      OBVIOUS
    <3> QED
      BY <2>1, <2>2, <3>1, <3>2, Zenon
  <2>3. CASE b # p.blk
    <3>1. pos[b] # pos[tailBlock] + 1
      BY <1>1, <2>1, <2>3 DEF Ordered
    <3> QED
      BY <1>3, <1>4, <2>3, <3>1, Zenon
  <2> QED
    BY <2>2, <2>3
<1>6. CASE p.pc # "advance"
  <2>1. Pending = 0
    BY <1>6 DEF Pending
  <2> QED
    BY <1>3, <1>4, <1>6, <2>1, Zenon
<1> QED
  BY <1>5, <1>6

(* Once around the ring are all elements, and the pending one.             *)
LEMMA WholeRing ==
  ASSUME IInv, DataInv
  PROVE  \E v : /\ Adds(v, UsedOf, Linked, NextOf, frontBlock)
                /\ v[frontBlock] = Count + Pending
<1>1. PICK pos, r, n : PathAt(pos, r, n)
  BY PathExists
<1>2. /\ RingAt(pos) /\ Path(r, n) /\ n = pos[tailBlock]
      /\ \A k \in 0..n : r[k] \in 1..Linked /\ pos[r[k]] = k
  BY <1>1 DEF PathAt
<1>3. Shape /\ Ordered(pos)
  BY <1>2 DEF IInv, RingAt
<1> DEFINE L == Linked
           m == L - 1
           q == [k \in 0..m |-> Ring[k]]
           it == ItemsOn(q, m)
           S == [k \in 0..m |-> Len(Cat(it, k))]
           e == [k \in 0..m |-> Len(it[k])]
<1>4. /\ L \in Nat /\ L >= 1 /\ m \in Nat /\ n \in 0..m /\ n \in Nat /\ m = L - 1
      /\ tailBlock \in 1..L
      /\ \A b \in 1..L : b \in 1..N /\ pos[b] \in 0..m
      /\ \A a, b \in 1..L : pos[a] = pos[b] => a = b
  <2>1. L \in Nat /\ L >= 1 /\ tailBlock \in 1..L /\ \A b \in 1..L : b \in 1..N
    BY WalkFacts
  <2>2. /\ \A b \in 1..L : pos[b] \in 0..(L - 1)
        /\ \A a, b \in 1..L : pos[a] = pos[b] => a = b
    BY <1>3 DEF Ordered
  <2>3. n \in 0..m
    BY <1>2, <2>1, <2>2
  <2>4. m \in Nat /\ n \in Nat
    BY <2>1, <2>3
  <2> QED
    BY <2>1, <2>2, <2>3, <2>4
<1>5. \A k \in 0..m : q[k] \in 1..L /\ pos[q[k]] = k
  BY <1>3, RingCounts
<1>6. \A k \in 0..m : it[k] = Items(q[k])
  BY DEF ItemsOn
<1>7. AreSeqs(it, m)
  BY <1>3, <1>4, <1>5, ItemsAreSeqs
<1>8. \A k \in 0..m : S[k] = Len(Cat(it, k)) /\ e[k] = Len(it[k])
  BY Zenon
<1>9. Running(S, e, m)
  BY <1>4, <1>7, CatRunning
<1> HIDE DEF L, m, q, it, S, e
<1>10. Places(UsedOf, e, L, pos)
  <2> SUFFICES ASSUME NEW b \in 1..L PROVE UsedOf[b] = e[pos[b]]
    BY DEF Places
  <2>1. pos[b] \in 0..m /\ b \in 1..N
    BY <1>4
  <2>2. q[pos[b]] = b
    BY <1>4, <1>5, <2>1, Zenon
  <2>3. e[pos[b]] = Len(Items(b))
    BY <1>6, <1>8, <2>1, <2>2, Zenon
  <2>4. UsedOf[b] = Used(b)
    BY DEF UsedOf, L
  <2>5. Len(Items(b)) = Used(b)
    BY <1>3, <2>1, ItemsCount
  <2> QED
    BY <2>3, <2>4, <2>5, Zenon
<1>11. \E v : Adds(v, UsedOf, L, NextOf, frontBlock) /\ v[frontBlock] = S[m]
  <2>1. IsRing(pos, L, frontBlock, NextOf)
    BY <1>3, OrderedIsRing DEF L
  <2>2. Running(S, e, L - 1)
    BY <1>4, <1>9, Zenon
  <2>3. AddsUp(UsedOf, L, NextOf, frontBlock, S)
    BY <1>4, <1>10, <2>1, <2>2, RingSums, Zenon
  <2> QED
    BY <1>4, <2>3, Zenon DEF AddsUp
<1>12. S[n] = Count
  <2>1. ASSUME NEW k \in 0..n PROVE it[k] = ItemsOn(r, n)[k]
    <3>1. k \in 0..m
      BY <1>4
    <3>2. q[k] = r[k]
      <4>1. r[k] \in 1..L /\ pos[r[k]] = k
        BY <1>2 DEF L
      <4> QED
        BY <1>4, <1>5, <3>1, <4>1, Zenon
    <3>3. ItemsOn(r, n)[k] = Items(r[k])
      BY DEF ItemsOn
    <3> QED
      BY <1>6, <3>1, <3>2, <3>3, Zenon
  <2>2. Cat(it, n) = Cat(ItemsOn(r, n), n)
    BY <1>4, <2>1, SameCat, Zenon
  <2>3. Contents = Cat(ItemsOn(r, n), n)
    BY <1>2, ContentsOfPath, Zenon
  <2> QED
    BY <1>4, <1>8, <2>2, <2>3, Zenon DEF Count
<1>13. S[m] = S[n] + Pending
  <2>1. ASSUME NEW k \in (n + 1)..m PROVE e[k] = IF k = n + 1 THEN Pending ELSE 0
    <3>1. k \in 0..m /\ k > n
      BY <1>4
    <3>2. q[k] \in 1..L /\ pos[q[k]] = k /\ e[k] = Len(Items(q[k]))
      BY <1>5, <1>6, <1>8, <3>1, Zenon
    <3>3. q[k] \in 1..Linked /\ pos[q[k]] > pos[tailBlock]
      BY <1>2, <3>1, <3>2 DEF L
    <3>4. Len(Items(q[k])) = IF pos[q[k]] = pos[tailBlock] + 1 THEN Pending ELSE 0
      BY <1>2, <3>3, BehindTail, Zenon
    <3> QED
      BY <1>2, <3>2, <3>4, Zenon
  <2>2. Pending = 0 \/ n < m
    <3>1. CASE p.pc = "advance"
      <4>1. pos[p.blk] = n + 1 /\ p.blk \in 1..L
        BY <1>2, <3>1, ProducerApart DEF L
      <4>2. n + 1 \in 0..m
        BY <1>4, <4>1, Zenon
      <4> QED
        BY <1>4, <4>2
    <3>2. CASE p.pc # "advance"
      BY <3>2 DEF Pending
    <3> QED
      BY <3>1, <3>2
  <2>3. Pending \in Int
    BY WalkFacts
  <2>4. OnlyNext(e, n, m, Pending)
    BY <2>1, <2>2, Zenon DEF OnlyNext
  <2>5. EndsWith(S, n, m, Pending)
    BY <1>4, <1>9, <2>3, <2>4, RunningEnd, Zenon
  <2> QED
    BY <2>5 DEF EndsWith
<1> QED
  BY <1>11, <1>12, <1>13, Zenon DEF L

LEMMA ContentsAreSeq ==
  ASSUME IInv
  PROVE  Contents \in Seq(Nat)
<1>1. PICK pos, r, n : PathAt(pos, r, n)
  BY PathExists
<1>2. Path(r, n) /\ n \in Nat /\ (\A k \in 0..n : r[k] \in 1..N)
  BY <1>1 DEF PathAt, Path
<1>3. AreSeqs(ItemsOn(r, n), n) /\ Contents = Cat(ItemsOn(r, n), n)
  BY <1>2, ContentsOfPath, ItemsAreSeqs, LocalFacts
<1>4. n \in 0..n
  BY <1>2
<1> QED
  BY <1>2, <1>3, <1>4, CatType, Zenon

LEMMA AppendCount ==
  ASSUME IInv, Contents' = Append(Contents, sent + 1)
  PROVE  Count' = Count + 1
<1>1. Contents \in Seq(Nat) /\ sent + 1 \in Nat
  BY ContentsAreSeq, LocalFacts
<1>2. Len(Append(Contents, sent + 1)) = Len(Contents) + 1
  BY <1>1, AppendProperties
<1> QED
  BY <1>2 DEF Count

(* What the caller of size_approx adds for the block whose front it has    *)
(* loaded.                                                                 *)
Loaded(s) == (blocks[s.blk].tail - s.front) % blocks[s.blk].size

SizeType == [pc : {"idle", "front", "tail", "next"}, first : Nat, blk : Nat, front : Nat,
             sum : Int, seen : Int]

(* The producer sees blocks that only lose elements: what it has added and *)
(* what is to come lies between the count now and the count at the call.   *)
ProducerWalks ==
  LET s == size["producer"] IN
  s.pc # "idle" =>
    /\ p.pc = "idle"
    /\ \E o : WalkOrder(o, Linked, NextOf, s.first)
    /\ \E v : Between(s, v, Linked, NextOf, UsedOf, Loaded(s), Count, s.seen)

(* The consumer sees blocks that only gain elements, and one that is       *)
(* linked; its front block stays where it is.                              *)
ConsumerWalks ==
  LET s == size["consumer"] IN
  s.pc # "idle" =>
    /\ c.pc = "idle" /\ s.first = frontBlock
    /\ s.pc = "tail" => s.front = blocks[s.blk].front
    /\ \E v : Between(s, v, Linked, NextOf, UsedOf, UsedOf[s.blk], s.seen, Count + Pending)

SizeInv ==
  /\ size \in [{"producer", "consumer"} -> SizeType]
  /\ ProducerWalks
  /\ ConsumerWalks

LEMMA InitSize == Init => SizeInv
<1> SUFFICES ASSUME Init PROVE SizeInv
  OBVIOUS
<1>1. size = [t \in {"producer", "consumer"} |-> NotSizing]
  BY DEF Init
<1>2. NotSizing \in SizeType /\ NotSizing.pc = "idle"
  BY DEF NotSizing, SizeType
<1>3. size["producer"].pc = "idle" /\ size["consumer"].pc = "idle"
  BY <1>1, <1>2
<1> QED
  BY <1>1, <1>2, <1>3 DEF SizeInv, ProducerWalks, ConsumerWalks

(* A step that keeps the linked blocks and what they hold.                 *)
SameBlocks == Linked' = Linked /\ NextOf' = NextOf /\ UsedOf' = UsedOf

LEMMA BlocksStay ==
  ASSUME Linked' = Linked,
         \A b \in 1..Linked : /\ blocks'[b].next = blocks[b].next
                              /\ blocks'[b].front = blocks[b].front
                              /\ blocks'[b].tail = blocks[b].tail
                              /\ blocks'[b].size = blocks[b].size
  PROVE  SameBlocks
<1>1. \A b \in 1..Linked : Used(b)' = Used(b)
  BY DEF Used
<1>2. NextOf' = [b \in 1..Linked |-> blocks'[b].next]
  BY DEF NextOf
<1>3. UsedOf' = [b \in 1..Linked |-> Used(b)']
  BY DEF UsedOf
<1>4. NextOf' = NextOf
  BY <1>2, Zenon DEF NextOf
<1>5. UsedOf' = UsedOf
  BY <1>1, <1>3, Zenon DEF UsedOf
<1> QED
  BY <1>4, <1>5 DEF SameBlocks

(* The steps of the producer, as the consumer's walk sees them.            *)
ProducerDoes ==
  \/ SameBlocks /\ Count' + Pending' = Count + Pending
  \/ /\ Linked' = Linked /\ NextOf' = NextOf /\ Count' + Pending' = (Count + Pending) + 1
     /\ \E B \in 1..Linked : OneChanges(UsedOf', UsedOf, Linked, B, 1)
  \/ /\ Linked' = Linked + 1 /\ Count' + Pending' = (Count + Pending) + 1
     /\ OneMoreBlock(UsedOf', UsedOf, Linked, NextOf', NextOf, tailBlock)

LEMMA QuietDoes ==
  ASSUME IInv, IInv', UNCHANGED <<blocks, frontBlock, tailBlock>>, p.pc # "link", p'.pc # "link",
         p.pc # "advance", p'.pc # "advance"
  PROVE  SameBlocks /\ Count' = Count /\ Pending' = Pending
<1>1. Linked' = Linked /\ Pending' = Pending
  BY DEF Linked, N, Pending
<1>2. SameBlocks
  BY <1>1, BlocksStay
<1>3. Count' = Count
  BY QuietContents DEF Count
<1> QED
  BY <1>1, <1>2, <1>3

LEMMA ConstructDoes ==
  ASSUME IInv, IInv', Construct
  PROVE  SameBlocks /\ Count' = Count /\ Pending' = Pending
<1>1. p.pc = "construct" /\ p'.pc = "publish" /\ p \in PType
  BY LocalFacts DEF Construct, PType
<1>2. /\ N' = N /\ \A b \in 1..N : blocks'[b].next = blocks[b].next
      /\ \A b \in 1..N : b # p.blk => Keeps(b)
      /\ blocks'[p.blk].front = blocks[p.blk].front
      /\ blocks'[p.blk].tail = blocks[p.blk].tail
      /\ blocks'[p.blk].size = blocks[p.blk].size
  BY ConstructStores
<1>3. Linked = N /\ Linked' = Linked /\ Pending' = Pending
  BY <1>1, <1>2 DEF Linked, Pending
<1>4. SameBlocks
  BY <1>2, <1>3, BlocksStay DEF Keeps
<1>5. Count' = Count
  BY ConstructContents DEF Count
<1> QED
  BY <1>3, <1>4, <1>5

LEMMA AllocDoes ==
  ASSUME IInv, IInv', Alloc
  PROVE  SameBlocks /\ Count' = Count /\ Pending' = Pending
<1>1. p.pc = "alloc" /\ p'.pc = "link"
  BY AllocStores DEF Alloc
<1>2. N' = N + 1 /\ N \in Nat /\ \A b \in 1..N : blocks'[b] = blocks[b]
  BY AllocStores
<1>3. Linked = N /\ Linked' = N /\ Pending' = Pending
  BY <1>1, <1>2 DEF Linked, Pending
<1>4. SameBlocks
  BY <1>2, <1>3, BlocksStay
<1>5. Count' = Count
  BY AllocContents DEF Count
<1> QED
  BY <1>3, <1>4, <1>5

LEMMA AdvanceDoes ==
  ASSUME IInv, IInv', DataInv, AdvanceTail
  PROVE  SameBlocks /\ Count' = Count + 1 /\ Pending = 1 /\ Pending' = 0
<1>1. p.pc = "advance" /\ p'.pc = "idle" /\ blocks' = blocks
  BY DEF AdvanceTail, NotIn
<1>2. Linked' = Linked /\ Pending = 1 /\ Pending' = 0
  BY <1>1 DEF Linked, N, Pending
<1>3. SameBlocks
  BY <1>1, <1>2, BlocksStay
<1>4. Contents' = Append(Contents, sent + 1)
  BY AdvanceContents
<1> QED
  BY <1>2, <1>3, <1>4, AppendCount

LEMMA EveryItemsCount ==
  \A b : Shape /\ b \in 1..N => Used(b) \in Nat /\ Items(b) \in Seq(Nat) /\ Len(Items(b)) = Used(b)
  BY ItemsCount

LEMMA EveryItemsCountNext ==
  (\A b : Shape /\ b \in 1..N =>
            Used(b) \in Nat /\ Items(b) \in Seq(Nat) /\ Len(Items(b)) = Used(b))'
  BY EveryItemsCount, PTL

LEMMA UsedOfNext ==
  ASSUME Linked' = Linked
  PROVE  \A b \in 1..Linked : UsedOf'[b] = Used(b)' /\ UsedOf[b] = Used(b)
<1>1. UsedOf' = [b \in 1..Linked |-> Used(b)']
  BY DEF UsedOf
<1> QED
  BY <1>1, Zenon DEF UsedOf

(* One block changes what it holds, and the links stay.                    *)
LEMMA OtherBlocksStay ==
  ASSUME Linked' = Linked, NEW B,
         \A b \in 1..Linked : /\ blocks'[b].next = blocks[b].next
                              /\ b # B => Keeps(b)
  PROVE  NextOf' = NextOf /\ \A b \in 1..Linked : b # B => UsedOf'[b] = UsedOf[b]
<1>1. NextOf' = [b \in 1..Linked |-> blocks'[b].next]
  BY DEF NextOf
<1>2. NextOf' = NextOf
  BY <1>1, Zenon DEF NextOf
<1>3. \A b \in 1..Linked : b # B => Used(b)' = Used(b)
  BY DEF Used, Keeps
<1> QED
  BY <1>2, <1>3, UsedOfNext, Zenon

LEMMA PublishDoes ==
  ASSUME IInv, IInv', DataInv, Publish
  PROVE  /\ Linked' = Linked /\ NextOf' = NextOf /\ Count' + Pending' = (Count + Pending) + 1
         /\ \E B \in 1..Linked : OneChanges(UsedOf', UsedOf, Linked, B, 1)
<1>0. PICK B : B = p.blk
  OBVIOUS
<1>1. /\ p.pc = "publish"
      /\ B = tailBlock => p'.pc = "idle"
      /\ B # tailBlock => p'.pc = "advance"
  <2>1. p \in PType
    BY LocalFacts
  <2> QED
    BY <1>0, <2>1 DEF Publish, PType, NotIn
<1>2. /\ N' = N /\ B \in 1..N /\ \A b \in 1..N : blocks'[b].next = blocks[b].next
      /\ \A b \in 1..N : b # B => Keeps(b)
  BY <1>0, PublishStores
<1>3. Linked = N /\ Linked' = Linked
  BY <1>1, <1>2 DEF Linked
<1>4. NextOf' = NextOf /\ \A b \in 1..Linked : b # B => UsedOf'[b] = UsedOf[b]
  BY <1>2, <1>3, OtherBlocksStay
<1>5. UsedOf'[B] = UsedOf[B] + 1
  <2>1. Items(B)' = Append(Items(B), sent + 1)
    BY <1>0, PublishItems
  <2>2. Items(B) \in Seq(Nat) /\ Len(Items(B)) = Used(B) /\ sent + 1 \in Nat
    BY <1>2, ItemsCount, LocalFacts
  <2>3. Len(Items(B)') = Used(B)'
    <3>1. Shape' /\ B \in 1..N'
      BY <1>2 DEF IInv
    <3> QED
      BY <3>1, EveryItemsCountNext
  <2>4. Len(Append(Items(B), sent + 1)) = Len(Items(B)) + 1
    BY <2>2, AppendProperties
  <2>5. UsedOf'[B] = Used(B)' /\ UsedOf[B] = Used(B)
    BY <1>2, <1>3, UsedOfNext
  <2> QED
    BY <2>1, <2>2, <2>3, <2>4, <2>5
<1>6. OneChanges(UsedOf', UsedOf, Linked, B, 1)
  BY <1>4, <1>5, Zenon DEF OneChanges
<1>7. Count' + Pending' = (Count + Pending) + 1
  <2>1. Count \in Nat
    BY CountIsNat
  <2>2. CASE B = tailBlock
    <3>1. Count' = Count + 1
      BY <1>0, <2>2, PublishTail, AppendCount
    <3>2. Pending = 0 /\ Pending' = 0
      BY <1>1, <2>2 DEF Pending
    <3> QED
      BY <2>1, <3>1, <3>2
  <2>3. CASE B # tailBlock
    <3>1. Count' = Count
      BY <1>0, <2>3, PublishAhead DEF Count
    <3>2. Pending = 0 /\ Pending' = 1
      BY <1>1, <2>3 DEF Pending
    <3> QED
      BY <2>1, <3>1, <3>2
  <2> QED
    BY <2>2, <2>3
<1> QED
  BY <1>2, <1>3, <1>4, <1>6, <1>7

LEMMA LinkDoes ==
  ASSUME IInv, IInv', DataInv, Link
  PROVE  /\ Linked' = Linked + 1 /\ Count' + Pending' = (Count + Pending) + 1
         /\ OneMoreBlock(UsedOf', UsedOf, Linked, NextOf', NextOf, tailBlock)
<1>1. p.pc = "link" /\ p'.pc = "advance" /\ Shape
  <2>1. p \in PType /\ Shape
    BY LocalFacts
  <2> QED
    BY <2>1 DEF Link, PType
<1>2. /\ N' = N /\ p.blk = N /\ tailBlock # N /\ N \in 1..N
      /\ \A b \in 1..N : b # tailBlock => blocks'[b].next = blocks[b].next
      /\ \A b \in 1..N : Keeps(b)
  BY LinkStores
<1>3. /\ Linked = N - 1 /\ Linked' = N /\ Pending = 0 /\ Pending' = 1
      /\ N \in Nat /\ Linked \in Nat /\ Linked + 1 = N /\ tailBlock \in 1..Linked
  <2>1. Linked = N - 1 /\ Linked' = N /\ Pending = 0 /\ Pending' = 1
    BY <1>1, <1>2 DEF Linked, Pending
  <2>2. N \in Nat /\ Linked \in Nat /\ tailBlock \in 1..Linked
    BY WalkFacts, LocalFacts
  <2> QED
    BY <2>1, <2>2
<1>4. blocks'[tailBlock].next = N
  <2>1. blocks \in [1..N -> BlockRec] /\ tailBlock \in 1..N
    BY <1>1 DEF Shape
  <2>2. blocks' = [blocks EXCEPT ![tailBlock].next = p.blk]
    BY DEF Link
  <2> QED
    BY <1>2, <2>1, <2>2 DEF BlockRec
<1>5. blocks[N].next = blocks[tailBlock].next
  <2>1. PICK pos \in [1..Linked -> 0..(Linked - 1)] : RingAt(pos)
    BY DEF IInv
  <2> QED
    BY <1>1, <2>1 DEF RingAt, ProducerAt
<1>6. Used(N) = 1
  <2>1. /\ blocks[N].tail = Follower(blocks[N].size, blocks[N].front)
        /\ IsBuffer(blocks[N].size, blocks[N].front, blocks[N].tail, blocks[N].data)
    BY <1>1, <1>2, BlockIsBuffer DEF DataInv, Succ, Follower
  <2>2. Items(N) = <<blocks[N].data[blocks[N].front + 1]>>
    BY <2>1, ElemsOne, ItemsAre
  <2>3. Len(Items(N)) = 1
    BY <2>2
  <2> QED
    BY <1>1, <1>2, <2>3, ItemsCount
<1>7. \A b \in 1..N : Used(b)' = Used(b)
  BY <1>2 DEF Keeps, Used
<1>8. /\ \A b \in 1..Linked : b \in 1..N /\ b # N
      /\ NextOf' = [b \in 1..N |-> blocks'[b].next] /\ UsedOf' = [b \in 1..N |-> Used(b)']
  <2>1. \A b \in 1..Linked : b \in 1..N /\ b # N
    BY <1>3
  <2> QED
    BY <1>3, <2>1 DEF NextOf, UsedOf
<1>9. /\ \A b \in 1..N : NextOf'[b] = blocks'[b].next /\ UsedOf'[b] = Used(b)'
      /\ \A b \in 1..Linked : NextOf[b] = blocks[b].next /\ UsedOf[b] = Used(b)
  BY <1>8, Zenon DEF NextOf, UsedOf
<1>10. UsedOf'[N] = 1 /\ NextOf'[N] = NextOf[tailBlock] /\ NextOf'[tailBlock] = N
  <2>1. N # tailBlock /\ tailBlock \in 1..N
    BY <1>2, <1>3, <1>8
  <2>2. blocks'[N].next = blocks[tailBlock].next
    BY <1>2, <1>5, <2>1
  <2> QED
    BY <1>2, <1>3, <1>4, <1>6, <1>7, <1>9, <2>1, <2>2, Zenon
<1>11. \A b \in 1..Linked : UsedOf'[b] = UsedOf[b] /\ (b # tailBlock => NextOf'[b] = NextOf[b])
  BY <1>2, <1>7, <1>8, <1>9, Zenon
<1>12. OneMoreBlock(UsedOf', UsedOf, Linked, NextOf', NextOf, tailBlock)
  BY <1>3, <1>10, <1>11, Zenon DEF OneMoreBlock
<1>13. Count' + Pending' = (Count + Pending) + 1
  <2>1. Count \in Nat /\ Count' = Count
    BY CountIsNat, LinkContents DEF Count
  <2> QED
    BY <1>3, <2>1
<1> QED
  BY <1>3, <1>12, <1>13

LEMMA ReleaseDoes ==
  ASSUME IInv, IInv', DataInv, Release
  PROVE  /\ Linked' = Linked /\ NextOf' = NextOf /\ Count' = Count - 1
         /\ \E B \in 1..Linked : OneChanges(UsedOf', UsedOf, Linked, B, -1)
         /\ \A b \in 1..N : blocks'[b].tail = blocks[b].tail /\ blocks'[b].size = blocks[b].size
<1>0. PICK B : B = frontBlock
  OBVIOUS
<1>1. p' = p
  BY DEF Release
<1>2. /\ N' = N /\ c.blk = B /\ B \in 1..N
      /\ \A b \in 1..N : blocks'[b].next = blocks[b].next
      /\ \A b \in 1..N : b # B => Keeps(b)
      /\ blocks'[B].tail = blocks[B].tail /\ blocks'[B].size = blocks[B].size
  BY <1>0, ReleaseStores
<1>3. Linked' = Linked /\ B \in 1..Linked /\ \A b \in 1..Linked : b \in 1..N
  BY <1>0, <1>1, <1>2, WalkFacts DEF Linked
<1>4. NextOf' = NextOf /\ \A b \in 1..Linked : b # B => UsedOf'[b] = UsedOf[b]
  BY <1>2, <1>3, OtherBlocksStay
<1>5. ASSUME NEW s \in Seq(Nat), s # <<>>
      PROVE  Len(Tail(s)) = Len(s) - 1 /\ Len(s) \in Nat
  BY <1>5
<1>6. UsedOf'[B] = UsedOf[B] + (-1)
  <2>1. Items(B)' = Tail(Items(B)) /\ Items(B) # <<>>
    BY <1>0, ReleaseItems
  <2>2. Items(B) \in Seq(Nat) /\ Len(Items(B)) = Used(B)
    BY <1>2, ItemsCount, LocalFacts
  <2>3. Len(Items(B)') = Used(B)'
    <3>1. Shape' /\ B \in 1..N'
      BY <1>2 DEF IInv
    <3> QED
      BY <3>1, EveryItemsCountNext
  <2>4. Len(Tail(Items(B))) = Len(Items(B)) - 1 /\ Len(Items(B)) \in Nat
    BY <1>5, <2>1, <2>2
  <2>5. UsedOf'[B] = Used(B)' /\ UsedOf[B] = Used(B)
    BY <1>3, UsedOfNext
  <2>6. \A i \in Nat : i - 1 = i + (-1)
    OBVIOUS
  <2> QED
    BY <2>1, <2>2, <2>3, <2>4, <2>5, <2>6, Zenon
<1>7. OneChanges(UsedOf', UsedOf, Linked, B, -1)
  BY <1>4, <1>6, Zenon DEF OneChanges
<1>8. Count' = Count - 1
  <2>1. Contents # <<>> /\ Contents' = Tail(Contents) /\ Contents \in Seq(Nat)
    BY ReleaseContents, ContentsAreSeq
  <2> QED
    BY <1>5, <2>1 DEF Count
<1>9. \A b \in 1..N : blocks'[b].tail = blocks[b].tail /\ blocks'[b].size = blocks[b].size
  BY <1>2 DEF Keeps
<1> QED
  BY <1>3, <1>4, <1>7, <1>8, <1>9

LEMMA WalkFactsAll ==
  IInv => NextOf \in [1..Linked -> 1..Linked] /\ UsedOf \in [1..Linked -> Int]
  BY WalkFacts

LEMMA WalkFactsNext ==
  (IInv => NextOf \in [1..Linked -> 1..Linked] /\ UsedOf \in [1..Linked -> Int])'
  BY WalkFactsAll, PTL

LEMMA ProducerDoesIt ==
  ASSUME IInv, IInv', DataInv, Producer
  PROVE  ProducerDoes
<1>1. Count \in Int /\ Pending \in Int
  BY WalkFacts
<1>2. CASE (\E op \in EnqOps : LoadTailBlock(op)) \/ CheckNext \/ ReuseNext \/ AllocFails
  <2>1. p \in PType
    BY LocalFacts
  <2>2. UNCHANGED <<blocks, frontBlock, tailBlock>> /\ p.pc \notin {"link", "advance"}
    BY <1>2 DEF LoadTailBlock, CheckNext, ReuseNext, AllocFails
  <2>3. p'.pc \notin {"link", "advance"}
    <3>1. CASE \E op \in EnqOps : LoadTailBlock(op)
      BY <3>1 DEF LoadTailBlock
    <3>2. CASE CheckNext
      BY <2>1, <3>2 DEF CheckNext, PType, NotIn
    <3>3. CASE ReuseNext
      BY <2>1, <3>3 DEF ReuseNext, PType
    <3>4. CASE AllocFails
      BY <3>4 DEF AllocFails, NotIn
    <3> QED
      BY <1>2, <3>1, <3>2, <3>3, <3>4
  <2>4. SameBlocks /\ Count' = Count /\ Pending' = Pending
    BY <2>2, <2>3, QuietDoes
  <2> QED
    BY <2>4 DEF ProducerDoes
<1>3. CASE Construct
  <2>1. SameBlocks /\ Count' = Count /\ Pending' = Pending
    BY <1>3, ConstructDoes
  <2> QED
    BY <2>1 DEF ProducerDoes
<1>4. CASE Alloc
  <2>1. SameBlocks /\ Count' = Count /\ Pending' = Pending
    BY <1>4, AllocDoes
  <2> QED
    BY <2>1 DEF ProducerDoes
<1>5. CASE AdvanceTail
  <2>1. SameBlocks /\ Count' = Count + 1 /\ Pending = 1 /\ Pending' = 0
    BY <1>5, AdvanceDoes
  <2>2. Count' + Pending' = Count + Pending
    BY <1>1, <2>1
  <2> QED
    BY <2>1, <2>2 DEF ProducerDoes
<1>6. CASE Publish
  BY <1>6, PublishDoes DEF ProducerDoes
<1>7. CASE Link
  BY <1>7, LinkDoes DEF ProducerDoes
<1> QED
  BY <1>2, <1>3, <1>4, <1>5, <1>6, <1>7 DEF Producer

LEMMA ProducerKeepsFronts ==
  ASSUME IInv, Producer
  PROVE  \A b \in 1..N : blocks'[b].front = blocks[b].front
<1>1. CASE UNCHANGED blocks
  BY <1>1
<1>2. CASE Construct
  BY <1>2, ConstructStores DEF Keeps
<1>3. CASE Alloc
  BY <1>3, AllocStores
<1>4. CASE Publish
  BY <1>4, PublishStores DEF Keeps
<1>5. CASE Link
  BY <1>5, LinkStores DEF Keeps
<1> QED
  BY <1>1, <1>2, <1>3, <1>4, <1>5 DEF Producer, LoadTailBlock, CheckNext, ReuseNext, AllocFails,
     AdvanceTail

(* While it is in size_approx a thread makes no other call.                *)
LEMMA ProducerSize ==
  ASSUME IInv, IInv', DataInv, SizeInv, Producer
  PROVE  SizeInv'
<1>1. UNCHANGED <<size, c, frontBlock>>
  BY DEF Producer, LoadTailBlock, Construct, Publish, CheckNext, ReuseNext, Alloc, AllocFails,
         Link, AdvanceTail
<1>2. size["producer"].pc = "idle"
  <2>1. p.pc # "idle" \/ size["producer"].pc = "idle"
    BY DEF Producer, LoadTailBlock, Construct, Publish, CheckNext, ReuseNext, Alloc, AllocFails,
           Link, AdvanceTail
  <2> QED
    BY <2>1 DEF SizeInv, ProducerWalks
<1>3. ProducerWalks'
  BY <1>1, <1>2 DEF ProducerWalks
<1>4. ConsumerWalks'
  <2>1. PICK s : s = size["consumer"]
    OBVIOUS
  <2> SUFFICES ASSUME s.pc # "idle"
               PROVE  /\ c'.pc = "idle" /\ s.first = frontBlock'
                      /\ s.pc = "tail" => s.front = blocks'[s.blk].front
                      /\ \E v : Between(s, v, Linked', NextOf', UsedOf', UsedOf'[s.blk], s.seen,
                                        Count' + Pending')
    BY <1>1, <2>1 DEF ConsumerWalks
  <2>2. /\ c.pc = "idle" /\ s.first = frontBlock
        /\ s.pc = "tail" => s.front = blocks[s.blk].front
        /\ \E v : Between(s, v, Linked, NextOf, UsedOf, UsedOf[s.blk], s.seen, Count + Pending)
    BY <2>1 DEF SizeInv, ConsumerWalks
  <2>3. PICK v : Between(s, v, Linked, NextOf, UsedOf, UsedOf[s.blk], s.seen, Count + Pending)
    BY <2>2
  <2>4. s.blk \in 1..Linked /\ s.sum \in Int /\ s.seen \in Int
    BY <2>1, <2>3 DEF Between, SizeInv, SizeType
  <2>5. /\ Linked \in Nat /\ NextOf \in [1..Linked -> 1..Linked] /\ UsedOf \in [1..Linked -> Int]
        /\ Count + Pending \in Int /\ tailBlock \in 1..Linked /\ s.first \in 1..Linked
        /\ s.blk \in 1..N
    BY <2>2, <2>4, WalkFacts, SMTT(30)
  <2>6. s.pc = "tail" => s.front = blocks'[s.blk].front
    BY <2>2, <2>5, ProducerKeepsFronts
  <2>7. PICK o : WalkOrder(o, Linked, NextOf, s.first)
    BY <2>2, RingIsWalk
  <2>8. NextOf' \in [1..Linked' -> 1..Linked'] /\ UsedOf' \in [1..Linked' -> Int]
    BY WalkFactsNext
  <2>9. \E y : Between(s, y, Linked', NextOf', UsedOf', UsedOf'[s.blk], s.seen, Count' + Pending')
    <3>1. CASE SameBlocks /\ Count' + Pending' = Count + Pending
      BY <2>3, <3>1, Zenon DEF SameBlocks
    <3>2. CASE /\ Linked' = Linked /\ NextOf' = NextOf
               /\ Count' + Pending' = (Count + Pending) + 1
               /\ \E B \in 1..Linked : OneChanges(UsedOf', UsedOf, Linked, B, 1)
      <4>1. PICK B \in 1..Linked : OneChanges(UsedOf', UsedOf, Linked, B, 1)
        BY <3>2
      <4>2. UsedOf' \in [1..Linked -> Int]
        BY <2>8, <3>2
      <4>3. \E y : Between(s, y, Linked, NextOf, UsedOf', UsedOf'[s.blk], s.seen,
                           (Count + Pending) + 1)
        BY <2>3, <2>4, <2>5, <2>7, <4>1, <4>2, BetweenAdded, Zenon
      <4> QED
        BY <3>2, <4>3, Zenon
    <3>3. CASE /\ Linked' = Linked + 1 /\ Count' + Pending' = (Count + Pending) + 1
               /\ OneMoreBlock(UsedOf', UsedOf, Linked, NextOf', NextOf, tailBlock)
      <4>1. NextOf' \in [1..(Linked + 1) -> 1..(Linked + 1)]
        BY <2>8, <3>3
      <4>2. \E y : Between(s, y, Linked + 1, NextOf', UsedOf', UsedOf'[s.blk], s.seen,
                           (Count + Pending) + 1)
        BY <2>3, <2>4, <2>5, <2>7, <3>3, <4>1, BetweenLinked, Zenon
      <4> QED
        BY <3>3, <4>2, Zenon
    <3> QED
      BY <3>1, <3>2, <3>3, ProducerDoesIt DEF ProducerDoes
  <2> QED
    BY <1>1, <2>2, <2>6, <2>9
<1> QED
  BY <1>1, <1>3, <1>4 DEF SizeInv

(* The steps of the consumer, as the producer's walk sees them.            *)
ConsumerDoes ==
  /\ Linked' = Linked /\ NextOf' = NextOf
  /\ \A b \in 1..N : blocks'[b].tail = blocks[b].tail /\ blocks'[b].size = blocks[b].size
  /\ \/ UsedOf' = UsedOf /\ Count' = Count
     \/ /\ Count' = Count - 1
        /\ \E B \in 1..Linked : OneChanges(UsedOf', UsedOf, Linked, B, -1)

LEMMA ConsumerDoesIt ==
  ASSUME IInv, IInv', DataInv, Consumer
  PROVE  ConsumerDoes
<1>1. p' = p
  BY DEF Consumer, RememberTail, LoadFrontBlock, CompareTail, LoadNext, MoveFront, Take, Release
<1>2. CASE UNCHANGED blocks /\ Count' = Count
  <2>1. Linked' = Linked
    BY <1>1, <1>2 DEF Linked, N
  <2>2. SameBlocks
    BY <1>2, <2>1, BlocksStay
  <2> QED
    BY <1>2, <2>2 DEF SameBlocks, ConsumerDoes
<1>3. CASE \/ \E op \in DeqOps : RememberTail(op)
           \/ LoadFrontBlock \/ CompareTail \/ LoadNext \/ Take
  <2>1. UNCHANGED <<blocks, frontBlock, tailBlock>>
    BY <1>3 DEF RememberTail, LoadFrontBlock, CompareTail, LoadNext, Take
  <2> QED
    BY <1>2, <2>1, QuietContents DEF Count
<1>4. CASE MoveFront
  <2>1. UNCHANGED blocks
    BY <1>4 DEF MoveFront
  <2> QED
    BY <1>2, <1>4, <2>1, MoveFrontContents DEF Count
<1>5. CASE Release
  BY <1>5, ReleaseDoes DEF ConsumerDoes
<1> QED
  BY <1>3, <1>4, <1>5 DEF Consumer

LEMMA LoadedIsInt ==
  ASSUME Shape, NEW s, s.blk \in 1..N, s.front \in Nat
  PROVE  Loaded(s) \in Int
<1>1. blocks[s.blk].size \in Nat \ {0} /\ blocks[s.blk].tail \in Nat
  BY BlockFacts
<1>2. blocks[s.blk].tail - s.front \in Int
  BY <1>1
<1> DEFINE d == blocks[s.blk].size
           i == blocks[s.blk].tail - s.front
<1>3. d \in Nat \ {0} /\ i \in Int
  BY <1>1, <1>2
<1> HIDE DEF d, i
<1>4. i % d \in Int
  BY <1>3, DivMod
<1> QED
  BY <1>4 DEF Loaded, d, i

LEMMA ConsumerSize ==
  ASSUME IInv, IInv', DataInv, SizeInv, Consumer
  PROVE  SizeInv'
<1>1. UNCHANGED <<size, p>>
  BY DEF Consumer, RememberTail, LoadFrontBlock, CompareTail, LoadNext, MoveFront, Take, Release
<1>2. size["consumer"].pc = "idle"
  <2>1. c.pc # "idle" \/ size["consumer"].pc = "idle"
    BY DEF Consumer, RememberTail, LoadFrontBlock, CompareTail, LoadNext, MoveFront, Take, Release
  <2> QED
    BY <2>1 DEF SizeInv, ConsumerWalks
<1>3. ConsumerWalks'
  BY <1>1, <1>2 DEF ConsumerWalks
<1>4. ProducerWalks'
  <2>1. PICK s : s = size["producer"]
    OBVIOUS
  <2>2. PICK x : x = Loaded(s)
    OBVIOUS
  <2>3. /\ Linked' = Linked /\ NextOf' = NextOf
        /\ \A b \in 1..N : blocks'[b].tail = blocks[b].tail /\ blocks'[b].size = blocks[b].size
        /\ \/ UsedOf' = UsedOf /\ Count' = Count
           \/ /\ Count' = Count - 1
              /\ \E B \in 1..Linked : OneChanges(UsedOf', UsedOf, Linked, B, -1)
    BY ConsumerDoesIt DEF ConsumerDoes
  <2> SUFFICES ASSUME s.pc # "idle"
               PROVE  /\ p'.pc = "idle"
                      /\ \E o : WalkOrder(o, Linked', NextOf', s.first)
                      /\ \E v : Between(s, v, Linked', NextOf', UsedOf', Loaded(s)', Count', s.seen)
    BY <1>1, <2>1 DEF ProducerWalks
  <2>4. /\ p.pc = "idle"
        /\ \E o : WalkOrder(o, Linked, NextOf, s.first)
        /\ \E v : Between(s, v, Linked, NextOf, UsedOf, x, Count, s.seen)
    BY <2>1, <2>2 DEF SizeInv, ProducerWalks
  <2>5. PICK o : WalkOrder(o, Linked, NextOf, s.first)
    BY <2>4
  <2>6. PICK v : Between(s, v, Linked, NextOf, UsedOf, x, Count, s.seen)
    BY <2>4
  <2>7. s.blk \in 1..Linked /\ s.sum \in Int /\ s.seen \in Int /\ s.front \in Nat
    BY <2>1, <2>6 DEF Between, SizeInv, SizeType
  <2>8. /\ Linked \in Nat /\ NextOf \in [1..Linked -> 1..Linked] /\ UsedOf \in [1..Linked -> Int]
        /\ Count \in Int /\ s.blk \in 1..N
    BY <2>7, WalkFacts
  <2>9. x \in Int /\ Loaded(s)' = x
    <3>1. x \in Int
      BY <2>2, <2>7, <2>8, LoadedIsInt, LocalFacts
    <3> QED
      BY <2>2, <2>3, <2>8, <3>1 DEF Loaded
  <2>10. UsedOf' \in [1..Linked -> Int]
    BY <2>3, WalkFactsNext
  <2>11. \E y : Between(s, y, Linked, NextOf, UsedOf', x, Count', s.seen)
    <3>1. CASE UsedOf' = UsedOf /\ Count' = Count
      BY <2>6, <3>1, Zenon
    <3>2. CASE /\ Count' = Count - 1
               /\ \E B \in 1..Linked : OneChanges(UsedOf', UsedOf, Linked, B, -1)
      <4>1. PICK B \in 1..Linked : OneChanges(UsedOf', UsedOf, Linked, B, -1)
        BY <3>2
      <4>2. \E y : Between(s, y, Linked, NextOf, UsedOf', x, Count - 1, s.seen)
        BY <2>5, <2>6, <2>7, <2>8, <2>9, <2>10, <4>1, BetweenTaken, Zenon
      <4> QED
        BY <3>2, <4>2, Zenon
    <3> QED
      BY <2>3, <3>1, <3>2
  <2> QED
    BY <1>1, <2>3, <2>4, <2>5, <2>9, <2>11, Zenon
<1> QED
  BY <1>1, <1>3, <1>4 DEF SizeInv

-----------------------------------------------------------------------------
(* The steps of size_approx.                                               *)

(* The caller's locals before and after a step, other than the first and   *)
(* the last; x is what it adds for the block.                              *)
Walks(s, z, front, x, next) ==
  /\ z.first = s.first /\ z.seen = s.seen
  /\ \/ /\ s.pc = "front" /\ z.pc = "tail"
        /\ z.blk = s.blk /\ z.sum = s.sum /\ z.front = front
     \/ /\ s.pc = "tail" /\ z.pc = "next"
        /\ z.blk = s.blk /\ z.sum = s.sum + x /\ z.front = s.front
     \/ /\ s.pc = "next" /\ z.pc = "front" /\ next # s.first
        /\ z.blk = next /\ z.sum = s.sum /\ z.front = s.front
Begins(s, z, f, n) ==
  /\ s.pc = "idle"
  /\ z = [pc |-> "front", first |-> f, blk |-> f, front |-> 0, sum |-> 0, seen |-> n]
Ends(s, z, next) == s.pc = "next" /\ next = s.first /\ z = NotSizing

(* What has been added and what is to come stay the same.                  *)
LEMMA BetweenMoves ==
  ASSUME NEW s, NEW z, NEW front, NEW x \in Int, NEW v, NEW l \in Nat,
         NEW nx \in [1..l -> 1..l], NEW u, NEW lo, NEW hi, NEW y, s.sum \in Int,
         Between(s, v, l, nx, u, x, lo, hi), Walks(s, z, front, x, nx[s.blk]),
         z.pc = "tail" => y = u[s.blk]
  PROVE  Between(z, v, l, nx, u, y, lo, hi)
<1>1. /\ Adds(v, u, l, nx, s.first) /\ s.blk \in 1..l
      /\ lo <= s.sum + ToCome(s, v, nx, x) /\ s.sum + ToCome(s, v, nx, x) <= hi
  BY DEF Between
<1>2. nx[s.blk] \in 1..l /\ z.first = s.first
  BY <1>1 DEF Walks
<1>3. "front" # "tail" /\ "next" # "tail" /\ "next" # "front"
  OBVIOUS
<1>4. v[s.blk] = u[s.blk] + Rest(v, nx, s.first, s.blk)
  BY <1>1, Zenon DEF Adds
<1>5. Rest(v, nx, s.first, s.blk) \in Int
  <2>1. v \in [1..l -> Int]
    BY <1>1 DEF Adds
  <2> QED
    BY <1>1, <2>1, RestIsInt, Zenon
<1>6. z.blk \in 1..l /\ z.sum + ToCome(z, v, nx, y) = s.sum + ToCome(s, v, nx, x)
  <2>1. CASE s.pc = "front" /\ z.pc = "tail" /\ z.blk = s.blk /\ z.sum = s.sum
    <3>1. ToCome(s, v, nx, x) = v[s.blk]
      BY <2>1, Zenon DEF ToCome
    <3>2. ToCome(z, v, nx, y) = u[s.blk] + Rest(v, nx, s.first, s.blk)
      BY <1>2, <1>3, <2>1, Zenon DEF ToCome
    <3> QED
      BY <1>1, <1>4, <2>1, <3>1, <3>2, Zenon
  <2>2. CASE s.pc = "tail" /\ z.pc = "next" /\ z.blk = s.blk /\ z.sum = s.sum + x
    <3>1. ToCome(s, v, nx, x) = x + Rest(v, nx, s.first, s.blk)
      BY <1>3, <2>2, Zenon DEF ToCome
    <3>2. ToCome(z, v, nx, y) = Rest(v, nx, s.first, s.blk)
      BY <1>2, <1>3, <2>2, Zenon DEF ToCome
    <3>3. (s.sum + x) + Rest(v, nx, s.first, s.blk) = s.sum + (x + Rest(v, nx, s.first, s.blk))
      BY <1>5, IntShift, Zenon
    <3> QED
      BY <1>1, <2>2, <3>1, <3>2, <3>3, Zenon
  <2>3. CASE /\ s.pc = "next" /\ z.pc = "front" /\ nx[s.blk] # s.first
             /\ z.blk = nx[s.blk] /\ z.sum = s.sum
    <3>1. ToCome(s, v, nx, x) = Rest(v, nx, s.first, s.blk)
      BY <1>3, <2>3, Zenon DEF ToCome
    <3>2. ToCome(z, v, nx, y) = v[nx[s.blk]]
      BY <2>3, Zenon DEF ToCome
    <3>3. Rest(v, nx, s.first, s.blk) = v[nx[s.blk]]
      BY <2>3, Zenon DEF Rest
    <3> QED
      BY <1>2, <2>3, <3>1, <3>2, <3>3, Zenon
  <2> QED
    BY <2>1, <2>2, <2>3, Zenon DEF Walks
<1> QED
  BY <1>1, <1>2, <1>6, Zenon DEF Between

(* A caller that walks is in a linked block.                               *)
LEMMA InBlock ==
  ASSUME IInv, SizeInv, NEW t \in {"producer", "consumer"}, size[t].pc # "idle"
  PROVE  size[t].blk \in 1..Linked /\ size[t].blk \in 1..N
<1>1. size[t].blk \in 1..Linked
  <2>1. CASE t = "producer"
    BY <2>1 DEF SizeInv, ProducerWalks, Between
  <2>2. CASE t = "consumer"
    BY <2>2 DEF SizeInv, ConsumerWalks, Between
  <2> QED
    BY <2>1, <2>2
<1> QED
  BY <1>1, WalkFacts

LEMMA SizingDoes ==
  ASSUME IInv, SizeInv, NEW t \in {"producer", "consumer"}, Sizing(t)
  PROVE  /\ UNCHANGED <<blocks, frontBlock, tailBlock, p, c>>
         /\ size' = [size EXCEPT ![t] = size'[t]]
         /\ size'[t] \in SizeType
         /\ \/ /\ Begins(size[t], size'[t], frontBlock, Count)
               /\ t = "producer" => p.pc = "idle"
               /\ t = "consumer" => c.pc = "idle"
            \/ /\ size[t].pc # "idle"
               /\ Walks(size[t], size'[t], blocks[size[t].blk].front, Loaded(size[t]),
                        blocks[size[t].blk].next)
            \/ Ends(size[t], size'[t], blocks[size[t].blk].next)
<1>1. UNCHANGED <<blocks, frontBlock, tailBlock, p, c>>
  BY DEF Sizing, SizeBegin, SizeFront, SizeTail, SizeNext
<1>2. /\ size \in [{"producer", "consumer"} -> SizeType]
      /\ size[t] \in SizeType /\ DOMAIN size = {"producer", "consumer"}
  BY DEF SizeInv
<1> DEFINE s == size[t]
<1>3. CASE SizeBegin(t)
  <2> DEFINE z == [pc |-> "front", first |-> frontBlock, blk |-> frontBlock,
                   front |-> 0, sum |-> 0, seen |-> Count]
  <2>1. /\ s.pc = "idle" /\ size' = [size EXCEPT ![t] = z]
        /\ t = "producer" => p.pc = "idle"
        /\ t = "consumer" => c.pc = "idle"
    BY <1>3 DEF SizeBegin
  <2>2. z \in SizeType
    BY WalkFacts, LocalFacts DEF SizeType
  <2> HIDE DEF z
  <2>3. size'[t] = z
    BY <1>2, <2>1
  <2> QED
    BY <1>1, <2>1, <2>2, <2>3 DEF Begins, z
<1>4. CASE SizeFront(t)
  <2> DEFINE z == [s EXCEPT !.pc = "tail", !.front = blocks[s.blk].front]
  <2>1. s.pc = "front" /\ size' = [size EXCEPT ![t] = z]
    BY <1>2, <1>4 DEF SizeFront
  <2>2. blocks[s.blk].front \in Nat
    BY <2>1, InBlock, BlockFacts, LocalFacts
  <2>3. /\ z \in SizeType /\ z.pc = "tail" /\ z.first = s.first /\ z.seen = s.seen
        /\ z.blk = s.blk /\ z.sum = s.sum /\ z.front = blocks[s.blk].front
    BY <1>2, <2>2 DEF SizeType
  <2> HIDE DEF z
  <2>4. size'[t] = z
    BY <1>2, <2>1
  <2> QED
    BY <1>1, <2>1, <2>3, <2>4 DEF Walks
<1>5. CASE SizeTail(t)
  <2> DEFINE i == s.sum + Loaded(s)
             z == [s EXCEPT !.pc = "next", !.sum = i]
  <2>1. s.pc = "tail" /\ size' = [size EXCEPT ![t] = z]
    BY <1>2, <1>5 DEF SizeTail, Loaded
  <2>2. Loaded(s) \in Int
    <3>1. s.blk \in 1..N /\ s.front \in Nat
      BY <1>2, <2>1, InBlock DEF SizeType
    <3> QED
      BY <3>1, LoadedIsInt, LocalFacts
  <2>3. /\ z \in SizeType /\ z.pc = "next" /\ z.first = s.first /\ z.seen = s.seen
        /\ z.blk = s.blk /\ z.sum = i /\ z.front = s.front
    <3>1. s.sum \in Int
      BY <1>2 DEF SizeType
    <3>2. i \in Int
      BY <2>2, <3>1
    <3> HIDE DEF i
    <3> QED
      BY <1>2, <3>2 DEF SizeType
  <2> HIDE DEF z
  <2>4. size'[t] = z
    BY <1>2, <2>1
  <2> QED
    BY <1>1, <2>1, <2>3, <2>4 DEF Walks
<1>6. CASE SizeNext(t)
  <2> DEFINE b == blocks[s.blk].next
             z == IF b = s.first THEN NotSizing ELSE [s EXCEPT !.pc = "front", !.blk = b]
  <2>1. s.pc = "next" /\ size' = [size EXCEPT ![t] = z]
    BY <1>6 DEF SizeNext
  <2>2. b \in Nat
    BY <2>1, InBlock, BlockFacts, LocalFacts
  <2>3. CASE b = s.first
    <3>1. NotSizing \in SizeType
      BY DEF NotSizing, SizeType
    <3>2. size'[t] = NotSizing /\ size' = [size EXCEPT ![t] = NotSizing]
      BY <1>2, <2>1, <2>3
    <3> QED
      BY <1>1, <2>1, <2>3, <3>1, <3>2 DEF Ends
  <2>4. CASE b # s.first
    <3> DEFINE y == [s EXCEPT !.pc = "front", !.blk = b]
    <3>1. size' = [size EXCEPT ![t] = y]
      BY <2>1, <2>4
    <3>2. /\ y \in SizeType /\ y.pc = "front" /\ y.first = s.first /\ y.seen = s.seen
          /\ y.blk = b /\ y.sum = s.sum /\ y.front = s.front
      BY <1>2, <2>2 DEF SizeType
    <3> HIDE DEF y
    <3>3. size'[t] = y
      BY <1>2, <3>1
    <3> QED
      BY <1>1, <2>1, <2>4, <3>1, <3>2, <3>3 DEF Walks
  <2> QED
    BY <2>3, <2>4
<1> QED
  BY <1>3, <1>4, <1>5, <1>6 DEF Sizing

(* A step that only changes the locals of a caller of size_approx.         *)
LEMMA SizingKeeps ==
  ASSUME IInv, IInv', UNCHANGED <<blocks, frontBlock, tailBlock, p>>
  PROVE  Linked' = Linked /\ NextOf' = NextOf /\ UsedOf' = UsedOf
         /\ Count' = Count /\ Pending' = Pending
<1>1. Linked' = Linked /\ Pending' = Pending
  BY DEF Linked, N, Pending
<1>2. SameBlocks
  BY <1>1, BlocksStay
<1>3. Count' = Count
  BY QuietContents DEF Count
<1> QED
  BY <1>1, <1>2, <1>3 DEF SameBlocks

(* A caller that begins has everything to come.                            *)
LEMMA BeginsBetween ==
  ASSUME IInv, DataInv, NEW s, NEW z, Begins(s, z, frontBlock, Count), NEW x
  PROVE  /\ \E v : Between(z, v, Linked, NextOf, UsedOf, x, Count, Count + Pending)
         /\ z.pc = "front" /\ z.first = frontBlock /\ z.seen = Count
<1>1. PICK v : /\ Adds(v, UsedOf, Linked, NextOf, frontBlock)
               /\ v[frontBlock] = Count + Pending
  BY WholeRing
<1>2. /\ z.pc = "front" /\ z.first = frontBlock /\ z.blk = frontBlock /\ z.sum = 0
      /\ z.seen = Count
  BY DEF Begins
<1>3. ToCome(z, v, NextOf, x) = Count + Pending
  BY <1>1, <1>2, Zenon DEF ToCome
<1>4. Count \in Int /\ Pending \in {0, 1} /\ frontBlock \in 1..Linked
  BY WalkFacts DEF Pending
<1>5. \A n \in Int : \A m \in {0, 1} : n <= 0 + (n + m) /\ 0 + (n + m) <= n + m
  OBVIOUS
<1>6. Count <= z.sum + ToCome(z, v, NextOf, x) /\ z.sum + ToCome(z, v, NextOf, x) <= Count + Pending
  BY <1>2, <1>3, <1>4, <1>5, Zenon
<1>7. Between(z, v, Linked, NextOf, UsedOf, x, Count, Count + Pending)
  BY <1>1, <1>2, <1>4, <1>6, Zenon DEF Between
<1> QED
  BY <1>2, <1>7

LEMMA ProducerSizing ==
  ASSUME IInv, IInv', DataInv, SizeInv, Sizing("producer")
  PROVE  ProducerWalks'
<1>1. PICK s : s = size["producer"]
  OBVIOUS
<1>2. PICK z : z = size'["producer"]
  OBVIOUS
<1>3. PICK x : x = Loaded(s)
  OBVIOUS
<1>4. /\ UNCHANGED <<blocks, frontBlock, tailBlock, p, c>>
      /\ z \in SizeType
      /\ \/ Begins(s, z, frontBlock, Count) /\ p.pc = "idle"
         \/ s.pc # "idle" /\ Walks(s, z, blocks[s.blk].front, x, blocks[s.blk].next)
         \/ Ends(s, z, blocks[s.blk].next)
  BY <1>1, <1>2, <1>3, SizingDoes
<1>5. Linked' = Linked /\ NextOf' = NextOf /\ UsedOf' = UsedOf /\ Count' = Count
  BY <1>4, SizingKeeps
<1>6. Loaded(z)' = Loaded(z)
  BY <1>4 DEF Loaded
<1> SUFFICES ASSUME z.pc # "idle"
             PROVE  /\ p.pc = "idle"
                    /\ \E o : WalkOrder(o, Linked, NextOf, z.first)
                    /\ \E v : Between(z, v, Linked, NextOf, UsedOf, Loaded(z), Count, z.seen)
  BY <1>2, <1>4, <1>5, <1>6 DEF ProducerWalks
<1>7. CASE Begins(s, z, frontBlock, Count) /\ p.pc = "idle"
  <2>1. /\ \E v : Between(z, v, Linked, NextOf, UsedOf, Loaded(z), Count, Count + Pending)
        /\ z.first = frontBlock /\ z.seen = Count
    BY <1>7, BeginsBetween
  <2>2. Count + Pending = Count
    BY <1>7, WalkFacts DEF Pending
  <2> QED
    BY <1>7, <2>1, <2>2, RingIsWalk
<1>8. CASE s.pc # "idle" /\ Walks(s, z, blocks[s.blk].front, x, blocks[s.blk].next)
  <2>1. /\ p.pc = "idle"
        /\ \E o : WalkOrder(o, Linked, NextOf, s.first)
        /\ \E v : Between(s, v, Linked, NextOf, UsedOf, x, Count, s.seen)
    BY <1>1, <1>3, <1>8 DEF SizeInv, ProducerWalks
  <2>2. PICK v : Between(s, v, Linked, NextOf, UsedOf, x, Count, s.seen)
    BY <2>1
  <2>3. s.blk \in 1..Linked /\ s.blk \in 1..N
    BY <1>1, <1>8, InBlock
  <2>4. s.sum \in Int /\ s.front \in Nat
    BY <1>1 DEF SizeInv, SizeType
  <2>5. x \in Int
    BY <1>3, <2>3, <2>4, LoadedIsInt, LocalFacts
  <2>6. /\ NextOf[s.blk] = blocks[s.blk].next /\ UsedOf[s.blk] = Used(s.blk)
        /\ Linked \in Nat /\ NextOf \in [1..Linked -> 1..Linked]
    BY <2>3, WalkFacts DEF NextOf, UsedOf
  <2>7. z.first = s.first /\ z.seen = s.seen
    BY <1>8 DEF Walks
  <2>8. z.pc = "tail" => Loaded(z) = UsedOf[s.blk]
    <3>1. z.pc = "tail" => z.blk = s.blk /\ z.front = blocks[s.blk].front
      BY <1>8 DEF Walks
    <3> QED
      BY <2>6, <3>1 DEF Loaded, Used
  <2>9. Walks(s, z, blocks[s.blk].front, x, NextOf[s.blk])
    BY <1>8, <2>6, Zenon
  <2>10. Between(z, v, Linked, NextOf, UsedOf, Loaded(z), Count, s.seen)
    BY <2>2, <2>4, <2>5, <2>6, <2>8, <2>9, BetweenMoves, Zenon
  <2> QED
    BY <2>1, <2>7, <2>10, Zenon
<1>9. CASE Ends(s, z, blocks[s.blk].next)
  BY <1>9 DEF Ends, NotSizing
<1> QED
  BY <1>4, <1>7, <1>8, <1>9

LEMMA ConsumerSizing ==
  ASSUME IInv, IInv', DataInv, SizeInv, Sizing("consumer")
  PROVE  ConsumerWalks'
<1>1. PICK s : s = size["consumer"]
  OBVIOUS
<1>2. PICK z : z = size'["consumer"]
  OBVIOUS
<1>3. PICK x : x = Loaded(s)
  OBVIOUS
<1>4. /\ UNCHANGED <<blocks, frontBlock, tailBlock, p, c>>
      /\ z \in SizeType
      /\ \/ Begins(s, z, frontBlock, Count) /\ c.pc = "idle"
         \/ s.pc # "idle" /\ Walks(s, z, blocks[s.blk].front, x, blocks[s.blk].next)
         \/ Ends(s, z, blocks[s.blk].next)
  BY <1>1, <1>2, <1>3, SizingDoes
<1>5. Linked' = Linked /\ NextOf' = NextOf /\ UsedOf' = UsedOf /\ Count' = Count
      /\ Pending' = Pending
  BY <1>4, SizingKeeps
<1> SUFFICES ASSUME z.pc # "idle"
             PROVE  /\ c.pc = "idle" /\ z.first = frontBlock
                    /\ z.pc = "tail" => z.front = blocks[z.blk].front
                    /\ \E v : Between(z, v, Linked, NextOf, UsedOf, UsedOf[z.blk], z.seen,
                                      Count + Pending)
  BY <1>2, <1>4, <1>5 DEF ConsumerWalks
<1>6. CASE Begins(s, z, frontBlock, Count) /\ c.pc = "idle"
  <2>1. /\ \E v : Between(z, v, Linked, NextOf, UsedOf, UsedOf[z.blk], Count, Count + Pending)
        /\ z.pc = "front" /\ z.first = frontBlock /\ z.seen = Count
    BY <1>6, BeginsBetween
  <2> QED
    BY <1>6, <2>1
<1>7. CASE s.pc # "idle" /\ Walks(s, z, blocks[s.blk].front, x, blocks[s.blk].next)
  <2>1. /\ c.pc = "idle" /\ s.first = frontBlock
        /\ s.pc = "tail" => s.front = blocks[s.blk].front
        /\ \E v : Between(s, v, Linked, NextOf, UsedOf, UsedOf[s.blk], s.seen, Count + Pending)
    BY <1>1, <1>7 DEF SizeInv, ConsumerWalks
  <2>2. PICK v : Between(s, v, Linked, NextOf, UsedOf, UsedOf[s.blk], s.seen, Count + Pending)
    BY <2>1
  <2>3. s.blk \in 1..Linked
    BY <1>1, <1>7, InBlock
  <2>4. s.sum \in Int
    BY <1>1 DEF SizeInv, SizeType
  <2>5. /\ NextOf[s.blk] = blocks[s.blk].next /\ UsedOf[s.blk] = Used(s.blk)
        /\ Linked \in Nat /\ NextOf \in [1..Linked -> 1..Linked] /\ UsedOf[s.blk] \in Int
    BY <2>3, WalkFacts DEF NextOf, UsedOf
  <2>6. /\ z.first = s.first /\ z.seen = s.seen
        /\ z.pc = "tail" => z.blk = s.blk /\ z.front = blocks[s.blk].front
    BY <1>7 DEF Walks
  <2>7. s.pc = "tail" => x = UsedOf[s.blk]
    BY <1>3, <2>1, <2>5 DEF Loaded, Used
  <2>8. Walks(s, z, blocks[s.blk].front, UsedOf[s.blk], NextOf[s.blk])
    BY <1>7, <2>5, <2>7, Zenon DEF Walks
  <2>9. z.pc = "tail" => UsedOf[z.blk] = UsedOf[s.blk]
    BY <2>6
  <2>10. Between(z, v, Linked, NextOf, UsedOf, UsedOf[z.blk], s.seen, Count + Pending)
    BY <2>2, <2>4, <2>5, <2>8, <2>9, BetweenMoves, Zenon
  <2> QED
    BY <2>1, <2>6, <2>10, Zenon
<1>8. CASE Ends(s, z, blocks[s.blk].next)
  BY <1>8 DEF Ends, NotSizing
<1> QED
  BY <1>4, <1>6, <1>7, <1>8

LEMMA SizeStep == IInv /\ IInv' /\ DataInv /\ SizeInv /\ [Next]_vars => SizeInv'
<1> SUFFICES ASSUME IInv, IInv', DataInv, SizeInv, [Next]_vars PROVE SizeInv'
  OBVIOUS
<1>1. size \in [{"producer", "consumer"} -> SizeType] /\ DOMAIN size = {"producer", "consumer"}
  BY DEF SizeInv
<1>2. CASE Producer
  BY <1>2, ProducerSize
<1>3. CASE Consumer
  BY <1>3, ConsumerSize
(* What holds of a thread that does not move.                              *)
<1>4. ASSUME UNCHANGED <<blocks, frontBlock, tailBlock, p, c>>
      PROVE  /\ size'["producer"] = size["producer"] => ProducerWalks'
             /\ size'["consumer"] = size["consumer"] => ConsumerWalks'
  <2>1. /\ Linked' = Linked /\ NextOf' = NextOf /\ UsedOf' = UsedOf
        /\ Count' = Count /\ Pending' = Pending
    BY <1>4, SizingKeeps
  <2>2. size'["producer"] = size["producer"] =>
          Loaded(size["producer"])' = Loaded(size["producer"])
    BY <1>4 DEF Loaded
  <2>3. size'["producer"] = size["producer"] => ProducerWalks'
    BY <1>4, <2>1, <2>2 DEF SizeInv, ProducerWalks
  <2>4. size'["consumer"] = size["consumer"] => ConsumerWalks'
    BY <1>4, <2>1 DEF SizeInv, ConsumerWalks
  <2> QED
    BY <2>3, <2>4
<1>5. ASSUME NEW t \in {"producer", "consumer"}, Sizing(t) PROVE SizeInv'
  <2>1. /\ UNCHANGED <<blocks, frontBlock, tailBlock, p, c>>
        /\ size' = [size EXCEPT ![t] = size'[t]] /\ size'[t] \in SizeType
    BY <1>5, SizingDoes
  <2>2. /\ size' \in [{"producer", "consumer"} -> SizeType]
        /\ \A u \in {"producer", "consumer"} : u # t => size'[u] = size[u]
    BY <1>1, <2>1
  <2>3. CASE t = "producer"
    <3>1. size'["consumer"] = size["consumer"]
      BY <2>2, <2>3
    <3> QED
      BY <1>4, <1>5, <2>1, <2>2, <2>3, <3>1, ProducerSizing DEF SizeInv
  <2>4. CASE t = "consumer"
    <3>1. size'["producer"] = size["producer"]
      BY <2>2, <2>4
    <3> QED
      BY <1>4, <1>5, <2>1, <2>2, <2>4, <3>1, ConsumerSizing DEF SizeInv
  <2> QED
    BY <2>3, <2>4
<1>6. CASE Destroy \/ UNCHANGED vars
  <2>1. UNCHANGED <<blocks, frontBlock, tailBlock, p, c, size>>
    BY <1>6 DEF Destroy, DestroyTo, vars
  <2> QED
    BY <1>1, <1>4, <2>1 DEF SizeInv
<1> QED
  BY <1>1, <1>2, <1>3, <1>5, <1>6 DEF Next

LEMMA SizeInvariance == Spec => [](IInv /\ DataInv /\ SizeInv)
<1>1. Init => IInv /\ DataInv /\ SizeInv
  BY InitInv, InitData, InitSize
<1>2. IInv /\ DataInv /\ SizeInv /\ [Next]_vars => IInv' /\ DataInv' /\ SizeInv'
  BY NextInv, DataStep, SizeStep
<1> QED
  BY <1>1, <1>2, PTL DEF Spec

(* Back at the first block nothing is to come.                             *)
LEMMA EndsBetween ==
  ASSUME NEW s, NEW v, NEW l, NEW nx, NEW u, NEW x, NEW lo, NEW hi,
         Between(s, v, l, nx, u, x, lo, hi), s.pc = "next", nx[s.blk] = s.first, s.sum \in Int
  PROVE  lo <= s.sum /\ s.sum <= hi
<1>1. lo <= s.sum + ToCome(s, v, nx, x) /\ s.sum + ToCome(s, v, nx, x) <= hi
  BY DEF Between
<1>2. "next" # "front" /\ "next" # "tail"
  OBVIOUS
<1>3. ToCome(s, v, nx, x) = 0
  BY <1>2, Zenon DEF ToCome, Rest
<1>4. s.sum + 0 = s.sum
  OBVIOUS
<1> QED
  BY <1>1, <1>3, <1>4, Zenon

(* Only its last step takes a thread out of size_approx.                   *)
LEMMA OnlyEnds ==
  ASSUME IInv, SizeInv, [Next]_vars, NEW t \in {"producer", "consumer"},
         size[t].pc # "idle", size'[t].pc = "idle"
  PROVE  size[t].pc = "next" /\ blocks[size[t].blk].next = size[t].first
<1>1. DOMAIN size = {"producer", "consumer"} /\ size \in [{"producer", "consumer"} -> SizeType]
  BY DEF SizeInv
<1>2. CASE UNCHANGED size
  BY <1>2
<1>3. ASSUME NEW w \in {"producer", "consumer"}, Sizing(w)
      PROVE  size[t].pc = "next" /\ blocks[size[t].blk].next = size[t].first
  <2>1. size' = [size EXCEPT ![w] = size'[w]]
    BY <1>3, SizingDoes
  <2>2. w = t
    BY <1>1, <2>1
  <2>3. \/ Begins(size[t], size'[t], frontBlock, Count)
        \/ Walks(size[t], size'[t], blocks[size[t].blk].front, Loaded(size[t]),
                 blocks[size[t].blk].next)
        \/ Ends(size[t], size'[t], blocks[size[t].blk].next)
    BY <1>3, <2>2, SizingDoes
  <2>4. Ends(size[t], size'[t], blocks[size[t].blk].next)
    BY <2>3 DEF Begins, Walks
  <2> QED
    BY <2>4 DEF Ends
<1>4. CASE Producer
  <2>1. UNCHANGED size
    BY <1>4 DEF Producer, LoadTailBlock, Construct, Publish, CheckNext, ReuseNext, Alloc,
       AllocFails, Link, AdvanceTail
  <2> QED
    BY <2>1
<1>5. CASE Consumer
  <2>1. UNCHANGED size
    BY <1>5 DEF Consumer, RememberTail, LoadFrontBlock, CompareTail, LoadNext, MoveFront, Take,
       Release
  <2> QED
    BY <2>1
<1>6. CASE Destroy \/ UNCHANGED vars
  <2>1. UNCHANGED size
    BY <1>6 DEF Destroy, DestroyTo, vars
  <2> QED
    BY <2>1
<1> QED
  BY <1>1, <1>3, <1>4, <1>5, <1>6 DEF Next

(* SizeIsBetween: size_approx loads the front and the tail of one block    *)
(* after another while the other thread enqueues, links blocks or          *)
(* dequeues, and is still never wrong: what it returns lies between the    *)
(* number of elements at its call and the number at its return, but for    *)
(* the one element whose enqueue is about to complete.                     *)
THEOREM SizeIsApprox == Spec => SizeIsBetween
<1> DEFINE Good(t) ==
      size[t].pc # "idle" /\ size'[t].pc = "idle" =>
        LET pending == IF p.pc = "advance" THEN 1 ELSE 0 IN
        IF t = "producer" THEN Count <= size[t].sum /\ size[t].sum <= size[t].seen
        ELSE size[t].seen <= size[t].sum /\ size[t].sum <= Count + pending
<1>1. ASSUME IInv, SizeInv, [Next]_vars, NEW t \in DOMAIN size PROVE Good(t)
  <2> SUFFICES ASSUME size[t].pc # "idle", size'[t].pc = "idle"
               PROVE  IF t = "producer" THEN Count <= size[t].sum /\ size[t].sum <= size[t].seen
                      ELSE size[t].seen <= size[t].sum /\ size[t].sum <= Count + Pending
    BY DEF Pending
  <2>1. t \in {"producer", "consumer"} /\ size[t] \in SizeType
    BY <1>1 DEF SizeInv
  <2>2. PICK s : s = size[t]
    OBVIOUS
  <2>3. s.pc = "next" /\ blocks[s.blk].next = s.first /\ s.sum \in Int
    BY <1>1, <2>1, <2>2, OnlyEnds DEF SizeType
  <2>4. NextOf[s.blk] = s.first
    <3>1. s.blk \in 1..Linked
      BY <1>1, <2>1, <2>2, InBlock
    <3> QED
      BY <2>3, <3>1 DEF NextOf
  <2>5. CASE t = "producer"
    <3>1. PICK v : Between(s, v, Linked, NextOf, UsedOf, Loaded(s), Count, s.seen)
      BY <1>1, <2>2, <2>5 DEF SizeInv, ProducerWalks
    <3>2. Count <= s.sum /\ s.sum <= s.seen
      BY <2>3, <2>4, <3>1, EndsBetween, Zenon
    <3> QED
      BY <2>2, <2>5, <3>2, Zenon
  <2>6. CASE t # "producer"
    <3>1. t = "consumer"
      BY <2>1, <2>6
    <3>2. PICK v : Between(s, v, Linked, NextOf, UsedOf, UsedOf[s.blk], s.seen, Count + Pending)
      BY <1>1, <2>2, <3>1 DEF SizeInv, ConsumerWalks
    <3>3. s.seen <= s.sum /\ s.sum <= Count + Pending
      BY <2>3, <2>4, <3>2, EndsBetween, Zenon
    <3> QED
      BY <2>2, <2>6, <3>3, Zenon
  <2> QED
    BY <2>5, <2>6
<1>2. IInv /\ SizeInv /\ [Next]_vars => [\A t \in DOMAIN size : Good(t)]_vars
  <2> HIDE DEF Good
  <2> QED
    BY <1>1
<1> QED
  BY <1>2, SizeInvariance, PTL DEF Spec, SizeIsBetween
=============================================================================
