---------------------------- MODULE Base64Proofs ----------------------------
(***************************************************************************)
(* Proofs about Base64, for inputs of every length: encode64 follows       *)
(* RFC 3548, and decode64 gives the input back from a text that is whole   *)
(* or cut off anywhere.                                                    *)
(***************************************************************************)
EXTENDS Base64, SequenceTheorems, TLAPS

-----------------------------------------------------------------------------
(* Bits.                                                                   *)

B(x, w) == (x \div w) % 2

(* The pieces of a byte that the shifts and masks of encode64 cut out.     *)
LEMMA ByteBits ==
  ASSUME NEW x \in Bytes
  PROVE  /\ x \div 4 = 32 * B(x, 128) + 16 * B(x, 64) + 8 * B(x, 32)
                         + 4 * B(x, 16) + 2 * B(x, 8) + B(x, 4)
         /\ (x * 16) % 64 = 32 * B(x, 2) + 16 * B(x, 1)
         /\ x \div 16 = 8 * B(x, 128) + 4 * B(x, 64) + 2 * B(x, 32) + B(x, 16)
         /\ (x * 4) % 64 = 32 * B(x, 8) + 16 * B(x, 4) + 8 * B(x, 2) + 4 * B(x, 1)
         /\ x \div 64 = 2 * B(x, 128) + B(x, 64)
         /\ x % 64 = 32 * B(x, 32) + 16 * B(x, 16) + 8 * B(x, 8) + 4 * B(x, 4)
                       + 2 * B(x, 2) + B(x, 1)
  BY SMTT(30) DEF Bytes, B

LEMMA BitOf ==
  ASSUME NEW s, NEW k \in Nat, NEW n, n = 8 * k, NEW m \in 0..7
  PROVE  Bit(s, n + m) = IF k < Len(s) THEN B(s[k + 1], Weight[m + 1]) ELSE 0
<1>1. (n + m) \div 8 = k /\ (n + m) % 8 = m
  OBVIOUS
<1> QED
  BY <1>1 DEF Bit, B

LEMMA WeightsAre ==
  /\ Weight[0 + 1] = 128 /\ Weight[1 + 1] = 64 /\ Weight[2 + 1] = 32 /\ Weight[3 + 1] = 16
  /\ Weight[4 + 1] = 8 /\ Weight[5 + 1] = 4 /\ Weight[6 + 1] = 2 /\ Weight[7 + 1] = 1
  BY DEF Weight

-----------------------------------------------------------------------------
(* The alphabet and its inverse.                                           *)

LEMMA AlphabetIs ==
  ASSUME NEW v \in 0..63
  PROVE  alphabet64[v] = IF v <= 25 THEN 65 + v ELSE IF v <= 51 THEN 71 + v
                         ELSE IF v <= 61 THEN v - 4 ELSE IF v = 62 THEN 43 ELSE 47
  BY DEF alphabet64

LEMMA AlphabetType ==
  ASSUME NEW v \in 0..63
  PROVE  alphabet64[v] \in Nat
  BY AlphabetIs

LEMMA TableIs ==
  /\ \A v \in 0..25 : table64vals[v + 23] = v
  /\ \A v \in 26..51 : table64vals[v + 29] = v
  /\ \A v \in 52..61 : table64vals[v - 46] = v
  /\ table64vals[1] = 62
  /\ table64vals[5] = 63
  BY DEF table64vals

LEMMA TableInverts ==
  ASSUME NEW v \in 0..63
  PROVE  table64(alphabet64[v]) = v /\ alphabet64[v] # pad
<1>1. CASE v <= 25
  BY <1>1, AlphabetIs, TableIs DEF table64, pad
<1>2. CASE v > 25 /\ v <= 51
  BY <1>2, AlphabetIs, TableIs DEF table64, pad
<1>3. CASE v > 51 /\ v <= 61
  BY <1>3, AlphabetIs, TableIs DEF table64, pad
<1>4. CASE v = 62 \/ v = 63
  BY <1>4, AlphabetIs, TableIs DEF table64, pad
<1> QED
  BY <1>1, <1>2, <1>3, <1>4

-----------------------------------------------------------------------------
(* A turn of encode64's loop.                                              *)

(* The byte at index k, or the zeros that the bits are filled up with.     *)
ByteAt(s, k) == IF k < Len(s) THEN s[k + 1] ELSE 0

LEMMA ByteAtType ==
  ASSUME NEW s \in Seq(Bytes), NEW k \in Nat
  PROVE  ByteAt(s, k) \in Bytes
<1>1. CASE k < Len(s)
  <2>1. k + 1 \in 1..Len(s)
    BY <1>1
  <2> QED
    BY <1>1, <2>1, ElementOfSeq DEF ByteAt
<1>2. CASE ~(k < Len(s))
  BY <1>2 DEF ByteAt, Bytes
<1> QED
  BY <1>1, <1>2

LEMMA BitsOfByte ==
  ASSUME NEW s, NEW k \in Nat, NEW n, n = 8 * k
  PROVE  LET x == ByteAt(s, k) IN
         /\ Bit(s, n) = B(x, 128) /\ Bit(s, n + 1) = B(x, 64)
         /\ Bit(s, n + 2) = B(x, 32) /\ Bit(s, n + 3) = B(x, 16)
         /\ Bit(s, n + 4) = B(x, 8) /\ Bit(s, n + 5) = B(x, 4)
         /\ Bit(s, n + 6) = B(x, 2) /\ Bit(s, n + 7) = B(x, 1)
<1>1. \A m \in 0..7 :
        Bit(s, n + m) = IF k < Len(s) THEN B(s[k + 1], Weight[m + 1]) ELSE 0
  BY BitOf
<1>2. /\ B(0, 128) = 0 /\ B(0, 64) = 0 /\ B(0, 32) = 0 /\ B(0, 16) = 0
      /\ B(0, 8) = 0 /\ B(0, 4) = 0 /\ B(0, 2) = 0 /\ B(0, 1) = 0
  BY DEF B
<1>3. n + 0 = n
  OBVIOUS
<1>4. ASSUME NEW m \in 0..7, NEW w, Weight[m + 1] = w, B(0, w) = 0
      PROVE  Bit(s, n + m) = B(ByteAt(s, k), w)
  BY <1>1, <1>4 DEF ByteAt
<1>5. 0 \in 0..7 /\ 1 \in 0..7 /\ 2 \in 0..7 /\ 3 \in 0..7 /\ 4 \in 0..7 /\ 5 \in 0..7
      /\ 6 \in 0..7 /\ 7 \in 0..7
  OBVIOUS
<1> QED
  BY <1>2, <1>3, <1>4, <1>5, WeightsAre

(* Three bytes make four pieces of six bits.                               *)
LEMMA SextetsOf ==
  ASSUME NEW s \in Seq(Bytes), NEW g \in Nat
  PROVE  LET x == ByteAt(s, 3 * g)
             y == ByteAt(s, 3 * g + 1)
             z == ByteAt(s, 3 * g + 2)
         IN /\ Sextet(s, 4 * g) = x \div 4
            /\ Sextet(s, 4 * g + 1) = ((x * 16) % 64) + (y \div 16)
            /\ Sextet(s, 4 * g + 2) = ((y * 4) % 64) + (z \div 64)
            /\ Sextet(s, 4 * g + 3) = z % 64
<1> DEFINE x == ByteAt(s, 3 * g)
           y == ByteAt(s, 3 * g + 1)
           z == ByteAt(s, 3 * g + 2)
<1>1. 3 * g \in Nat /\ 3 * g + 1 \in Nat /\ 3 * g + 2 \in Nat
  OBVIOUS
<1>2. x \in Bytes /\ y \in Bytes /\ z \in Bytes
  BY <1>1, ByteAtType
<1>3. /\ 6 * (4 * g) = 8 * (3 * g) /\ 6 * (4 * g + 1) = 8 * (3 * g) + 6
      /\ 6 * (4 * g + 2) = 8 * (3 * g + 1) + 4 /\ 6 * (4 * g + 3) = 8 * (3 * g + 2) + 2
      /\ 8 * (3 * g + 1) = 8 * (3 * g) + 8 /\ 8 * (3 * g + 2) = 8 * (3 * g) + 16
      /\ 8 * (3 * g) \in Nat
  OBVIOUS
<1> DEFINE e == 8 * (3 * g)
<1>4. /\ Bit(s, e) = B(x, 128) /\ Bit(s, e + 1) = B(x, 64)
      /\ Bit(s, e + 2) = B(x, 32) /\ Bit(s, e + 3) = B(x, 16)
      /\ Bit(s, e + 4) = B(x, 8) /\ Bit(s, e + 5) = B(x, 4)
      /\ Bit(s, e + 6) = B(x, 2) /\ Bit(s, e + 7) = B(x, 1)
  BY <1>1, BitsOfByte, ZenonT(60)
<1>5. /\ Bit(s, e + 8) = B(y, 128) /\ Bit(s, (e + 8) + 1) = B(y, 64)
      /\ Bit(s, (e + 8) + 2) = B(y, 32) /\ Bit(s, (e + 8) + 3) = B(y, 16)
      /\ Bit(s, (e + 8) + 4) = B(y, 8) /\ Bit(s, (e + 8) + 5) = B(y, 4)
      /\ Bit(s, (e + 8) + 6) = B(y, 2) /\ Bit(s, (e + 8) + 7) = B(y, 1)
  <2>1. e + 8 = 8 * (3 * g + 1)
    BY <1>3
  <2> HIDE DEF e
  <2> QED
    BY <1>1, <2>1, BitsOfByte, ZenonT(60)
<1>6. /\ Bit(s, e + 16) = B(z, 128) /\ Bit(s, (e + 16) + 1) = B(z, 64)
      /\ Bit(s, (e + 16) + 2) = B(z, 32) /\ Bit(s, (e + 16) + 3) = B(z, 16)
      /\ Bit(s, (e + 16) + 4) = B(z, 8) /\ Bit(s, (e + 16) + 5) = B(z, 4)
      /\ Bit(s, (e + 16) + 6) = B(z, 2) /\ Bit(s, (e + 16) + 7) = B(z, 1)
  <2> DEFINE k == 3 * g + 2
             f == e + 16
  <2>1. k \in Nat /\ f = 8 * k
    BY <1>3
  <2> HIDE DEF e, f, k
  <2>2. /\ Bit(s, f) = B(ByteAt(s, k), 128) /\ Bit(s, f + 1) = B(ByteAt(s, k), 64)
        /\ Bit(s, f + 2) = B(ByteAt(s, k), 32) /\ Bit(s, f + 3) = B(ByteAt(s, k), 16)
        /\ Bit(s, f + 4) = B(ByteAt(s, k), 8) /\ Bit(s, f + 5) = B(ByteAt(s, k), 4)
        /\ Bit(s, f + 6) = B(ByteAt(s, k), 2) /\ Bit(s, f + 7) = B(ByteAt(s, k), 1)
    BY <2>1, BitsOfByte
  <2> QED
    BY <2>2 DEF f, k
<1> HIDE DEF x, y, z
<1>7. Sextet(s, 4 * g) = x \div 4
  <2>1. Sextet(s, 4 * g) = 32 * Bit(s, e) + 16 * Bit(s, e + 1) + 8 * Bit(s, e + 2)
                             + 4 * Bit(s, e + 3) + 2 * Bit(s, e + 4) + Bit(s, e + 5)
    BY <1>3, Zenon DEF Sextet
  <2> QED
    BY <1>2, <1>4, <2>1, ByteBits, ZenonT(60)
<1>8. Sextet(s, 4 * g + 1) = ((x * 16) % 64) + (y \div 16)
  <2>1. Sextet(s, 4 * g + 1) =
          32 * Bit(s, e + 6) + 16 * Bit(s, (e + 6) + 1) + 8 * Bit(s, (e + 6) + 2)
            + 4 * Bit(s, (e + 6) + 3) + 2 * Bit(s, (e + 6) + 4) + Bit(s, (e + 6) + 5)
    BY <1>3, Zenon DEF Sextet
  <2>2. /\ (e + 6) + 1 = e + 7 /\ (e + 6) + 2 = e + 8 /\ (e + 6) + 3 = (e + 8) + 1
        /\ (e + 6) + 4 = (e + 8) + 2 /\ (e + 6) + 5 = (e + 8) + 3
    BY <1>3
  <2>3. Sextet(s, 4 * g + 1) = 32 * B(x, 2) + 16 * B(x, 1) + 8 * B(y, 128)
                                 + 4 * B(y, 64) + 2 * B(y, 32) + B(y, 16)
    BY <1>4, <1>5, <2>1, <2>2, ZenonT(60)
  <2>4. /\ (x * 16) % 64 = 32 * B(x, 2) + 16 * B(x, 1)
        /\ y \div 16 = 8 * B(y, 128) + 4 * B(y, 64) + 2 * B(y, 32) + B(y, 16)
    BY <1>2, ByteBits, Zenon
  <2> QED
    BY <1>2, <2>3, <2>4, SMTT(30) DEF B, Bytes
<1>9. Sextet(s, 4 * g + 2) = ((y * 4) % 64) + (z \div 64)
  <2>1. Sextet(s, 4 * g + 2) =
          32 * Bit(s, (e + 8) + 4) + 16 * Bit(s, ((e + 8) + 4) + 1)
            + 8 * Bit(s, ((e + 8) + 4) + 2) + 4 * Bit(s, ((e + 8) + 4) + 3)
            + 2 * Bit(s, ((e + 8) + 4) + 4) + Bit(s, ((e + 8) + 4) + 5)
    BY <1>3, Zenon DEF Sextet
  <2>2. /\ ((e + 8) + 4) + 1 = (e + 8) + 5 /\ ((e + 8) + 4) + 2 = (e + 8) + 6
        /\ ((e + 8) + 4) + 3 = (e + 8) + 7 /\ ((e + 8) + 4) + 4 = e + 16
        /\ ((e + 8) + 4) + 5 = (e + 16) + 1
    BY <1>3
  <2>3. Sextet(s, 4 * g + 2) = 32 * B(y, 8) + 16 * B(y, 4) + 8 * B(y, 2)
                                 + 4 * B(y, 1) + 2 * B(z, 128) + B(z, 64)
    <3>1. /\ Bit(s, ((e + 8) + 4) + 1) = B(y, 4) /\ Bit(s, ((e + 8) + 4) + 2) = B(y, 2)
          /\ Bit(s, ((e + 8) + 4) + 3) = B(y, 1) /\ Bit(s, ((e + 8) + 4) + 4) = B(z, 128)
          /\ Bit(s, ((e + 8) + 4) + 5) = B(z, 64) /\ Bit(s, (e + 8) + 4) = B(y, 8)
      BY <1>5, <1>6, <2>2, Zenon
    <3> HIDE DEF e
    <3> QED
      BY <2>1, <3>1, Zenon
  <2>4. /\ (y * 4) % 64 = 32 * B(y, 8) + 16 * B(y, 4) + 8 * B(y, 2) + 4 * B(y, 1)
        /\ z \div 64 = 2 * B(z, 128) + B(z, 64)
    BY <1>2, ByteBits, Zenon
  <2> QED
    BY <1>2, <2>3, <2>4 DEF B, Bytes
<1>10. Sextet(s, 4 * g + 3) = z % 64
  <2>1. Sextet(s, 4 * g + 3) =
          32 * Bit(s, (e + 16) + 2) + 16 * Bit(s, ((e + 16) + 2) + 1)
            + 8 * Bit(s, ((e + 16) + 2) + 2) + 4 * Bit(s, ((e + 16) + 2) + 3)
            + 2 * Bit(s, ((e + 16) + 2) + 4) + Bit(s, ((e + 16) + 2) + 5)
    BY <1>3, Zenon DEF Sextet
  <2>2. /\ ((e + 16) + 2) + 1 = (e + 16) + 3 /\ ((e + 16) + 2) + 2 = (e + 16) + 4
        /\ ((e + 16) + 2) + 3 = (e + 16) + 5 /\ ((e + 16) + 2) + 4 = (e + 16) + 6
        /\ ((e + 16) + 2) + 5 = (e + 16) + 7
    BY <1>3
  <2>3. /\ Bit(s, ((e + 16) + 2) + 1) = B(z, 16) /\ Bit(s, ((e + 16) + 2) + 2) = B(z, 8)
        /\ Bit(s, ((e + 16) + 2) + 3) = B(z, 4) /\ Bit(s, ((e + 16) + 2) + 4) = B(z, 2)
        /\ Bit(s, ((e + 16) + 2) + 5) = B(z, 1) /\ Bit(s, (e + 16) + 2) = B(z, 32)
    BY <1>6, <2>2, Zenon
  <2>4. z % 64 = 32 * B(z, 32) + 16 * B(z, 16) + 8 * B(z, 8) + 4 * B(z, 4)
                   + 2 * B(z, 2) + B(z, 1)
    BY <1>2, ByteBits, Zenon
  <2> HIDE DEF e
  <2> QED
    BY <2>1, <2>3, <2>4, Zenon
<1> QED
  BY <1>7, <1>8, <1>9, <1>10 DEF x, y, z

(* The four characters of a turn, in terms of the three bytes.             *)
LEMMA GroupIs ==
  ASSUME NEW s \in Seq(Bytes), NEW k \in Nat, k < Len(s)
  PROVE  LET x == ByteAt(s, k)
             y == ByteAt(s, k + 1)
             z == ByteAt(s, k + 2)
         IN Group(s, k) =
              << alphabet64[x \div 4], alphabet64[((x * 16) % 64) + (y \div 16)],
                 IF k + 1 < Len(s) THEN alphabet64[((y * 4) % 64) + (z \div 64)] ELSE pad,
                 IF k + 2 < Len(s) THEN alphabet64[z % 64] ELSE pad >>
<1>1. k + 1 \in Nat /\ k + 2 \in Nat /\ Len(s) \in Nat
  OBVIOUS
<1>2. \A j \in Nat : j < Len(s) => At(s, j) = ByteAt(s, j)
  BY <1>1 DEF At, ByteAt
<1>3. 0 \div 16 = 0 /\ 0 \div 64 = 0
  OBVIOUS
<1>4. \A j \in Nat : Carry(s, j, 16) = ByteAt(s, j) \div 16
  BY <1>2, <1>3 DEF Carry, ByteAt
<1>5. \A j \in Nat : Carry(s, j, 64) = ByteAt(s, j) \div 64
  BY <1>2, <1>3 DEF Carry, ByteAt
<1>6. CASE k + 1 < Len(s) /\ k + 2 < Len(s)
  BY <1>1, <1>2, <1>4, <1>5, <1>6, Zenon DEF Group
<1>7. CASE k + 1 < Len(s) /\ ~(k + 2 < Len(s))
  BY <1>1, <1>2, <1>4, <1>5, <1>7, Zenon DEF Group
<1>8. CASE ~(k + 1 < Len(s)) /\ ~(k + 2 < Len(s))
  BY <1>1, <1>2, <1>4, <1>5, <1>8, Zenon DEF Group
<1>9. k + 2 < Len(s) => k + 1 < Len(s)
  BY <1>1
<1> QED
  BY <1>6, <1>7, <1>8, <1>9, Zenon

LEMMA PiecesAreIndices ==
  ASSUME NEW x \in Bytes, NEW y \in Bytes
  PROVE  /\ x \div 4 \in 0..63
         /\ ((x * 16) % 64) + (y \div 16) \in 0..63
         /\ ((x * 4) % 64) + (y \div 64) \in 0..63
         /\ x % 64 \in 0..63
  BY DEF Bytes

LEMMA Quad ==
  ASSUME NEW a \in Nat, NEW b \in Nat, NEW c \in Nat, NEW d \in Nat,
         NEW t, t = <<a, b, c, d>>
  PROVE  /\ t \in Seq(Nat) /\ Len(t) = 4
         /\ t[1] = a /\ t[2] = b /\ t[3] = c /\ t[4] = d
  OBVIOUS

(* The character at j of the reference.                                    *)
RefChar(s, j) == IF 6 * (j - 1) < 8 * Len(s) THEN alphabet64[Sextet(s, j - 1)] ELSE pad

(* A turn of encode64's loop appends the next four characters.             *)
LEMMA GroupIsRef ==
  ASSUME NEW s \in Seq(Bytes), NEW g \in Nat, 3 * g < Len(s)
  PROVE  /\ Group(s, 3 * g) \in Seq(Nat) /\ Len(Group(s, 3 * g)) = 4
         /\ \A q \in 1..4 : Group(s, 3 * g)[q] = RefChar(s, 4 * g + q)
<1> DEFINE x == ByteAt(s, 3 * g)
           y == ByteAt(s, 3 * g + 1)
           z == ByteAt(s, 3 * g + 2)
           c1 == alphabet64[x \div 4]
           c2 == alphabet64[((x * 16) % 64) + (y \div 16)]
           c3 == IF 3 * g + 1 < Len(s) THEN alphabet64[((y * 4) % 64) + (z \div 64)] ELSE pad
           c4 == IF 3 * g + 2 < Len(s) THEN alphabet64[z % 64] ELSE pad
<1>1. 3 * g \in Nat /\ 3 * g + 1 \in Nat /\ 3 * g + 2 \in Nat /\ Len(s) \in Nat
  OBVIOUS
<1>2. x \in Bytes /\ y \in Bytes /\ z \in Bytes
  BY <1>1, ByteAtType
<1>3. Group(s, 3 * g) = <<c1, c2, c3, c4>>
  BY <1>1, GroupIs, Zenon
<1>4. /\ Sextet(s, 4 * g) = x \div 4
      /\ Sextet(s, 4 * g + 1) = ((x * 16) % 64) + (y \div 16)
      /\ Sextet(s, 4 * g + 2) = ((y * 4) % 64) + (z \div 64)
      /\ Sextet(s, 4 * g + 3) = z % 64
  BY SextetsOf, Zenon
<1>5. /\ (4 * g + 1) - 1 = 4 * g /\ (4 * g + 2) - 1 = 4 * g + 1
      /\ (4 * g + 3) - 1 = 4 * g + 2 /\ (4 * g + 4) - 1 = 4 * g + 3
      /\ 6 * (4 * g) < 8 * Len(s) /\ 6 * (4 * g + 1) < 8 * Len(s)
      /\ 6 * (4 * g + 2) < 8 * Len(s) <=> 3 * g + 1 < Len(s)
      /\ 6 * (4 * g + 3) < 8 * Len(s) <=> 3 * g + 2 < Len(s)
  BY <1>1
<1>6. \A v \in 0..63 : alphabet64[v] \in Nat
  BY AlphabetType
<1>7. pad \in Nat
  BY DEF pad
<1>8. /\ x \div 4 \in 0..63 /\ ((x * 16) % 64) + (y \div 16) \in 0..63
      /\ ((y * 4) % 64) + (z \div 64) \in 0..63 /\ z % 64 \in 0..63
  BY <1>2, PiecesAreIndices, Zenon
<1>9. c1 \in Nat /\ c2 \in Nat /\ c3 \in Nat /\ c4 \in Nat
  BY <1>6, <1>7, <1>8, Zenon
<1>10. /\ c1 = RefChar(s, 4 * g + 1) /\ c2 = RefChar(s, 4 * g + 2)
       /\ c3 = RefChar(s, 4 * g + 3) /\ c4 = RefChar(s, 4 * g + 4)
  BY <1>4, <1>5, Zenon DEF RefChar
<1> HIDE DEF c1, c2, c3, c4
<1>11. /\ Group(s, 3 * g) \in Seq(Nat) /\ Len(Group(s, 3 * g)) = 4
       /\ Group(s, 3 * g)[1] = c1 /\ Group(s, 3 * g)[2] = c2
       /\ Group(s, 3 * g)[3] = c3 /\ Group(s, 3 * g)[4] = c4
  BY <1>3, <1>9, Quad
<1>12. \A q \in 1..4 : q = 1 \/ q = 2 \/ q = 3 \/ q = 4
  OBVIOUS
<1> QED
  BY <1>10, <1>11, <1>12, Zenon

-----------------------------------------------------------------------------
(* The invariant.                                                          *)

Turns(s) == (Len(s) + 2) \div 3

(* Between two turns of encode64's loop, g of them made.                   *)
Encoding(g) ==
  /\ i = 3 * g
  /\ Len(encoded) = 4 * g
  /\ \A j \in 1..(4 * g) : encoded[j] = RefChar(input, j)
  /\ decoded = <<>> /\ text = <<>>

(* What decode64 is given is a first part of the reference.                *)
Handed ==
  /\ encoded = Reference(input)
  /\ Len(text) <= 4 * Turns(input)
  /\ \A j \in 1..Len(text) : text[j] = RefChar(input, j)

(* The bytes that the text holds completely, and the byte too many.        *)
Whole ==
  LET bytes == (6 * Len(text)) \div 8
  IN IF bytes < Len(input) THEN bytes ELSE Len(input)
Extra == IF Len(text) % 4 = 1 THEN 1 ELSE 0

(* Between two turns of decode64's loop, h of them made.                   *)
Decoding(h) ==
  /\ 4 * h <= Len(text) /\ 3 * h <= Len(input)
  /\ Len(decoded) = 3 * h
  /\ \A k \in 1..(3 * h) : decoded[k] = input[k]

(* Behind the last turn.                                                   *)
Decoded ==
  /\ Len(decoded) = Whole + Extra
  /\ \A k \in 1..Whole : decoded[k] = input[k]

CodecInv ==
  /\ pc \in {"encode", "decode", "done"}
  /\ input \in Seq(Bytes)
  /\ encoded \in Seq(Nat) /\ text \in Seq(Nat) /\ decoded \in Seq(Nat)
  /\ pc = "encode" => \E g \in 0..Turns(input) : Encoding(g)
  /\ pc # "encode" => Handed
  /\ pc = "decode" => \E h \in 0..i : /\ i = 4 * h
                                      /\ Decoding(h) \/ (Len(text) < i /\ Decoded)
  /\ pc = "done" => Decoded

LEMMA CodecInit == Init => CodecInv
<1> SUFFICES ASSUME Init PROVE CodecInv
  OBVIOUS
<1>1. input \in Seq(Bytes)
  BY InputsAssumption DEF Init
<1>2. Turns(input) \in Nat /\ 0 \in 0..Turns(input)
  BY <1>1 DEF Turns
<1>3. Encoding(0)
  BY DEF Encoding, Init
<1>4. /\ pc = "encode" /\ encoded \in Seq(Nat) /\ text \in Seq(Nat) /\ decoded \in Seq(Nat)
  BY DEF Init
<1> QED
  BY <1>1, <1>2, <1>3, <1>4 DEF CodecInv

(* A turn of encode64's loop.                                              *)
LEMMA EncodeStep == CodecInv /\ Encode => CodecInv'
<1> SUFFICES ASSUME CodecInv, Encode PROVE CodecInv'
  OBVIOUS
<1>1. PICK g \in 0..Turns(input) : Encoding(g)
  BY DEF CodecInv, Encode
<1>2. input \in Seq(Bytes) /\ encoded \in Seq(Nat) /\ Len(input) \in Nat
  BY DEF CodecInv
<1>3. g \in Nat /\ 3 * g < Len(input) /\ g + 1 \in 0..Turns(input)
  <2>1. 3 * g < Len(input)
    BY <1>1 DEF Encoding, Encode
  <2>2. Turns(input) \in Nat /\ g \in Nat
    BY <1>2 DEF Turns
  <2> QED
    BY <1>2, <2>1, <2>2 DEF Turns
<1> DEFINE G == Group(input, 3 * g)
<1>4. /\ G \in Seq(Nat) /\ Len(G) = 4
      /\ \A q \in 1..4 : G[q] = RefChar(input, 4 * g + q)
  BY <1>2, <1>3, GroupIsRef, Zenon
<1>5. encoded' = encoded \o G
  BY <1>1, Zenon DEF Encoding, Encode
<1> HIDE DEF G
<1>6. /\ encoded' \in Seq(Nat)
      /\ Len(encoded') = Len(encoded) + Len(G)
      /\ \A j \in 1..(Len(encoded) + Len(G)) :
           encoded'[j] = IF j <= Len(encoded) THEN encoded[j] ELSE G[j - Len(encoded)]
  BY <1>2, <1>4, <1>5, ConcatProperties
<1>7. Len(encoded) = 4 * g
  BY <1>1 DEF Encoding
<1>8. Len(encoded') = 4 * (g + 1)
  BY <1>3, <1>4, <1>6, <1>7
<1>9. ASSUME NEW j \in 1..(4 * (g + 1))
      PROVE  encoded'[j] = RefChar(input, j)
  <2>1. CASE j <= 4 * g
    <3>1. j \in 1..(4 * g) /\ j \in 1..(Len(encoded) + Len(G)) /\ j <= Len(encoded)
      BY <1>3, <1>4, <1>7, <2>1
    <3> QED
      BY <1>1, <1>6, <3>1, Zenon DEF Encoding
  <2>2. CASE ~(j <= 4 * g)
    <3>1. /\ j \in 1..(Len(encoded) + Len(G)) /\ ~(j <= Len(encoded))
          /\ j - Len(encoded) \in 1..4 /\ 4 * g + (j - Len(encoded)) = j
      BY <1>3, <1>4, <1>7, <2>2
    <3> QED
      BY <1>4, <1>6, <3>1, Zenon
  <2> QED
    BY <2>1, <2>2
<1>10. /\ pc' = pc /\ pc = "encode" /\ input' = input /\ text' = text /\ decoded' = decoded
       /\ i' = 3 * (g + 1)
  BY <1>1, <1>3 DEF Encoding, Encode
<1>11. text = <<>> /\ decoded = <<>>
  BY <1>1 DEF Encoding
<1>12. Encoding(g + 1)'
  BY <1>8, <1>9, <1>10, <1>11, Zenon DEF Encoding
<1>13. Turns(input)' = Turns(input)
  BY <1>10 DEF Turns
<1> QED
  BY <1>3, <1>6, <1>10, <1>12, <1>13, Zenon DEF CodecInv

(* encode64 returns.                                                       *)
LEMMA HandStep == CodecInv /\ Hand => CodecInv'
<1> SUFFICES ASSUME CodecInv, Hand PROVE CodecInv'
  OBVIOUS
<1>1. PICK g \in 0..Turns(input) : Encoding(g)
  BY DEF CodecInv, Hand
<1>2. input \in Seq(Bytes) /\ encoded \in Seq(Nat) /\ Len(input) \in Nat
  BY DEF CodecInv
<1>3. g \in Nat /\ g = Turns(input) /\ Turns(input) \in Nat
  <2>1. 3 * g >= Len(input)
    BY <1>1 DEF Encoding, Hand
  <2>2. Turns(input) \in Nat
    BY <1>2 DEF Turns
  <2>3. g \in Nat /\ g <= Turns(input)
    BY <2>2
  <2> QED
    BY <1>2, <2>1, <2>3 DEF Turns
<1>4. /\ Len(encoded) = 4 * Turns(input)
      /\ \A j \in 1..(4 * Turns(input)) : encoded[j] = RefChar(input, j)
      /\ decoded = <<>>
  BY <1>1, <1>3, Zenon DEF Encoding
<1>5. encoded = Reference(input)
  <2>1. encoded = [j \in 1..(4 * Turns(input)) |-> encoded[j]]
    BY <1>2, <1>4
  <2>2. encoded = [j \in 1..(4 * Turns(input)) |-> RefChar(input, j)]
    BY <1>4, <2>1
  <2> QED
    BY <2>2, Zenon DEF Reference, RefChar, Turns
<1>6. PICK m \in 0..Len(encoded) : text' = SubSeq(encoded, 1, m)
  BY DEF Hand
<1>7. /\ text' \in Seq(Nat) /\ Len(text') = m
      /\ \A j \in 1..m : text'[j] = encoded[j]
  BY <1>2, <1>6
<1>8. /\ input' = input /\ encoded' = encoded /\ decoded' = decoded /\ pc' = "decode"
      /\ i' = 0
  BY DEF Hand
<1>9. Len(text') <= 4 * Turns(input) /\ 0 <= Len(text') /\ m \in Nat /\ 0 <= Len(input)
  BY <1>2, <1>3, <1>4, <1>7
<1>10. ASSUME NEW j \in 1..m
       PROVE  text'[j] = RefChar(input, j)
  <2>1. j \in 1..(4 * Turns(input))
    BY <1>3, <1>7, <1>9
  <2> QED
    BY <1>4, <1>7, <2>1, Zenon
<1>11. Turns(input)' = Turns(input)
  BY <1>8 DEF Turns
<1>12. Handed'
  <2>1. Reference(input') = Reference(input)
    BY <1>8
  <2>2. \A j \in 1..m : text'[j] = RefChar(input', j)
    BY <1>8, <1>10, Zenon
  <2> QED
    BY <1>5, <1>7, <1>8, <1>9, <1>11, <2>1, <2>2, Zenon DEF Handed
<1>13. Decoding(0)'
  BY <1>4, <1>8, <1>9 DEF Decoding
<1>14. \E h \in 0..i' : i' = 4 * h /\ Decoding(h)'
  BY <1>8, <1>13
<1>15. \E h \in 0..i' : i' = 4 * h /\ (Decoding(h)' \/ (Len(text') < i' /\ Decoded'))
  BY <1>14, Zenon
<1>16. decoded' \in Seq(Nat)
  BY <1>4, <1>8
<1> QED
  BY <1>2, <1>7, <1>8, <1>12, <1>15, <1>16 DEF CodecInv

-----------------------------------------------------------------------------
(* A turn of decode64's loop.                                              *)

(* The shifts and masks of decode64 put the bytes together again.          *)
LEMMA PiecesJoin ==
  ASSUME NEW x \in Bytes, NEW y \in Bytes, NEW z \in Bytes
  PROVE  LET b == ((x * 16) % 64) + (y \div 16)
             c == ((y * 4) % 64) + (z \div 64)
         IN /\ (((x \div 4) * 4) % 256) + ((b \div 16) % 4) = x
            /\ ((b * 16) % 256) + ((c \div 4) % 16) = y
            /\ ((c * 64) % 256) + (z % 64) = z
<1>1. (((x * 16) % 64) + (y \div 16)) \div 16 = x % 4
  BY DEF Bytes
<1>2. (((y * 4) % 64) + (z \div 64)) \div 4 = y % 16
  BY DEF Bytes
<1>3. ((((x * 16) % 64) + (y \div 16)) * 16) % 256 = (y \div 16) * 16
  BY DEF Bytes
<1>4. ((((y * 4) % 64) + (z \div 64)) * 64) % 256 = (z \div 64) * 64
  BY DEF Bytes
<1>5. /\ (((x \div 4) * 4) % 256) + ((x % 4) % 4) = x
      /\ (y \div 16) * 16 + ((y % 16) % 16) = y
      /\ (z \div 64) * 64 + (z % 64) = z
  BY DEF Bytes
<1> QED
  BY <1>1, <1>2, <1>3, <1>4, <1>5, Zenon

(* What a turn reads is what a turn of encode64 wrote.                     *)
LEMMA TurnReads ==
  ASSUME NEW s \in Seq(Bytes), NEW t \in Seq(Nat), NEW h \in Nat, 4 * h < Len(t),
         Len(t) <= 4 * Turns(s), \A j \in 1..Len(t) : t[j] = RefChar(s, j)
  PROVE  /\ 3 * h < Len(s)
         /\ At(t, 4 * h) = Group(s, 3 * h)[1]
         /\ 4 * h + 1 < Len(t) => At(t, 4 * h + 1) = Group(s, 3 * h)[2]
         /\ 4 * h + 2 < Len(t) => At(t, 4 * h + 2) = Group(s, 3 * h)[3]
         /\ 4 * h + 3 < Len(t) => At(t, 4 * h + 3) = Group(s, 3 * h)[4]
<1>1. Len(s) \in Nat /\ Len(t) \in Nat
  OBVIOUS
<1>2. 3 * h < Len(s)
  BY <1>1 DEF Turns
<1>3. \A q \in 1..4 : Group(s, 3 * h)[q] = RefChar(s, 4 * h + q)
  BY <1>2, GroupIsRef
<1>4. ASSUME NEW k \in Nat, k < Len(t)
      PROVE  At(t, k) = RefChar(s, k + 1)
  <2>1. k # Len(t) /\ k + 1 \in 1..Len(t)
    BY <1>1, <1>4
  <2> QED
    BY <2>1, Zenon DEF At
<1>5. /\ 4 * h \in Nat /\ 4 * h + 1 \in Nat /\ 4 * h + 2 \in Nat /\ 4 * h + 3 \in Nat
      /\ (4 * h + 1) + 1 = 4 * h + 2 /\ (4 * h + 2) + 1 = 4 * h + 3
      /\ (4 * h + 3) + 1 = 4 * h + 4
      /\ 1 \in 1..4 /\ 2 \in 1..4 /\ 3 \in 1..4 /\ 4 \in 1..4
  OBVIOUS
<1> QED
  BY <1>2, <1>3, <1>4, <1>5, Zenon

LEMMA Joined ==
  ASSUME NEW a, NEW b, NEW c
  PROVE  /\ <<a>> \o <<>> \o <<>> = <<a>>
         /\ <<a>> \o <<b>> \o <<>> = <<a, b>>
         /\ <<a>> \o <<b>> \o <<c>> = <<a, b, c>>
<1> DEFINE S == {a, b, c}
<1>1. <<a>> \in Seq(S) /\ <<b>> \in Seq(S) /\ <<c>> \in Seq(S) /\ <<a, b>> \in Seq(S)
      /\ <<a, b, c>> \in Seq(S) /\ <<>> \in Seq(S)
  OBVIOUS
<1>2. <<a>> \o <<>> = <<a>> /\ <<a, b>> \o <<>> = <<a, b>>
  BY <1>1, ConcatEmptySeq, Zenon
<1> HIDE DEF S
<1>3. <<a>> \o <<b>> = <<a, b>>
  <2>1. /\ <<a>> \o <<b>> \in Seq(S) /\ Len(<<a>> \o <<b>>) = 2
        /\ (<<a>> \o <<b>>)[1] = a /\ (<<a>> \o <<b>>)[2] = b
    BY <1>1, ConcatProperties
  <2>2. \A j \in 1..2 : (<<a>> \o <<b>>)[j] = <<a, b>>[j]
    BY <2>1
  <2> QED
    BY <1>1, <2>1, <2>2, SeqEqual
<1>4. <<a, b>> \o <<c>> = <<a, b, c>>
  <2>1. /\ <<a, b>> \o <<c>> \in Seq(S) /\ Len(<<a, b>> \o <<c>>) = 3
        /\ (<<a, b>> \o <<c>>)[1] = a /\ (<<a, b>> \o <<c>>)[2] = b
        /\ (<<a, b>> \o <<c>>)[3] = c
    BY <1>1, ConcatProperties
  <2>2. \A j \in 1..3 : (<<a, b>> \o <<c>>)[j] = <<a, b, c>>[j]
    BY <2>1
  <2> QED
    BY <1>1, <2>1, <2>2, SeqEqual
<1> QED
  BY <1>2, <1>3, <1>4, Zenon

(* The bytes of a turn, by what it reads.                                  *)
LEMMA UnitsAre ==
  ASSUME NEW t, NEW k \in Nat, Len(t) \in Nat
  PROVE  /\ ~(k + 2 < Len(t)) => ~MeetsPad(t, k) /\ Units(t, k) = <<First(t, k)>>
         /\ k + 2 < Len(t) /\ At(t, k + 2) = pad =>
              MeetsPad(t, k) /\ Units(t, k) = <<First(t, k)>>
         /\ k + 2 < Len(t) /\ ~(k + 3 < Len(t)) /\ At(t, k + 2) # pad =>
              ~MeetsPad(t, k) /\ Units(t, k) = <<First(t, k), Second(t, k)>>
         /\ k + 3 < Len(t) /\ At(t, k + 2) # pad /\ At(t, k + 3) = pad =>
              MeetsPad(t, k) /\ Units(t, k) = <<First(t, k), Second(t, k)>>
         /\ k + 3 < Len(t) /\ At(t, k + 2) # pad /\ At(t, k + 3) # pad =>
              /\ ~MeetsPad(t, k)
              /\ Units(t, k) = <<First(t, k), Second(t, k), Third(t, k)>>
<1> DEFINE two == k + 2 < Len(t) /\ At(t, k + 2) # pad
           three == k + 3 < Len(t) /\ At(t, k + 2) # pad /\ At(t, k + 3) # pad
<1>1. (\A m \in 2..2 : At(t, k + m) # pad) <=> At(t, k + 2) # pad
  OBVIOUS
<1>2. (\A m \in 2..3 : At(t, k + m) # pad) <=> At(t, k + 2) # pad /\ At(t, k + 3) # pad
  OBVIOUS
<1>3. Units(t, k) = <<First(t, k)>> \o (IF two THEN <<Second(t, k)>> ELSE <<>>)
                      \o (IF three THEN <<Third(t, k)>> ELSE <<>>)
  BY <1>1, <1>2, Zenon DEF Units
<1>4. \A a, b, c : /\ <<a>> \o <<>> \o <<>> = <<a>>
                   /\ <<a>> \o <<b>> \o <<>> = <<a, b>>
                   /\ <<a>> \o <<b>> \o <<c>> = <<a, b, c>>
  BY Joined, Zenon
<1>5. k + 3 < Len(t) => k + 2 < Len(t)
  OBVIOUS
<1>6. /\ ~two /\ ~three => Units(t, k) = <<First(t, k)>>
      /\ two /\ ~three => Units(t, k) = <<First(t, k), Second(t, k)>>
      /\ two /\ three => Units(t, k) = <<First(t, k), Second(t, k), Third(t, k)>>
  BY <1>3, <1>4, Zenon
<1> QED
  BY <1>5, <1>6, Zenon DEF MeetsPad

(* The bytes that a turn of decode64's loop appends are the ones that the  *)
(* turn of encode64's loop read, as many as the text and the input have;   *)
(* it ends the loop at the pad behind the last byte of the input.          *)
LEMMA TurnDecodes ==
  ASSUME NEW s \in Seq(Bytes), NEW t \in Seq(Nat), NEW h \in Nat, 4 * h < Len(t),
         Len(t) <= 4 * Turns(s), \A j \in 1..Len(t) : t[j] = RefChar(s, j)
  PROVE  LET x == ByteAt(s, 3 * h)
             y == ByteAt(s, 3 * h + 1)
             z == ByteAt(s, 3 * h + 2)
             u == Units(t, 4 * h)
         IN /\ 3 * h < Len(s)
            /\ ~(4 * h + 1 < Len(t)) =>
                 \E a \in Nat : u = <<a>> /\ ~MeetsPad(t, 4 * h)
            /\ 4 * h + 1 < Len(t) /\ ~(4 * h + 2 < Len(t)) =>
                 u = <<x>> /\ ~MeetsPad(t, 4 * h)
            /\ 4 * h + 2 < Len(t) /\ ~(3 * h + 1 < Len(s)) =>
                 u = <<x>> /\ MeetsPad(t, 4 * h)
            /\ 4 * h + 2 < Len(t) /\ ~(4 * h + 3 < Len(t)) /\ 3 * h + 1 < Len(s) =>
                 u = <<x, y>> /\ ~MeetsPad(t, 4 * h)
            /\ 4 * h + 3 < Len(t) /\ 3 * h + 1 < Len(s) /\ ~(3 * h + 2 < Len(s)) =>
                 u = <<x, y>> /\ MeetsPad(t, 4 * h)
            /\ 4 * h + 3 < Len(t) /\ 3 * h + 2 < Len(s) =>
                 u = <<x, y, z>> /\ ~MeetsPad(t, 4 * h)
<1> DEFINE k == 4 * h
           x == ByteAt(s, 3 * h)
           y == ByteAt(s, 3 * h + 1)
           z == ByteAt(s, 3 * h + 2)
           a == x \div 4
           b == ((x * 16) % 64) + (y \div 16)
           c == ((y * 4) % 64) + (z \div 64)
           d == z % 64
           two == 3 * h + 1 < Len(s)
           three == 3 * h + 2 < Len(s)
<1>1. /\ 3 * h \in Nat /\ 3 * h + 1 \in Nat /\ 3 * h + 2 \in Nat /\ k \in Nat
      /\ Len(s) \in Nat /\ Len(t) \in Nat
      /\ k + 3 < Len(t) => k + 2 < Len(t)
      /\ k + 2 < Len(t) => k + 1 < Len(t)
      /\ three => two
  OBVIOUS
<1>2. x \in Bytes /\ y \in Bytes /\ z \in Bytes
  BY <1>1, ByteAtType, Zenon
<1>3. a \in 0..63 /\ b \in 0..63 /\ c \in 0..63 /\ d \in 0..63
  BY <1>2, PiecesAreIndices, Zenon
<1>4. /\ ((a * 4) % 256) + ((b \div 16) % 4) = x
      /\ ((b * 16) % 256) + ((c \div 4) % 16) = y
      /\ ((c * 64) % 256) + d = z
  <2> HIDE DEF x, y, z
  <2> QED
    BY <1>2, PiecesJoin
<1>5. /\ 3 * h < Len(s)
      /\ At(t, k) = Group(s, 3 * h)[1]
      /\ k + 1 < Len(t) => At(t, k + 1) = Group(s, 3 * h)[2]
      /\ k + 2 < Len(t) => At(t, k + 2) = Group(s, 3 * h)[3]
      /\ k + 3 < Len(t) => At(t, k + 3) = Group(s, 3 * h)[4]
  BY TurnReads, Zenon
<1>6. Group(s, 3 * h) = << alphabet64[a], alphabet64[b],
                           IF two THEN alphabet64[c] ELSE pad,
                           IF three THEN alphabet64[d] ELSE pad >>
  BY <1>1, <1>5, GroupIs, Zenon
<1> HIDE DEF a, b, c, d, x, y, z, k, two, three
<1>7. /\ Group(s, 3 * h)[1] = alphabet64[a] /\ Group(s, 3 * h)[2] = alphabet64[b]
      /\ Group(s, 3 * h)[3] = IF two THEN alphabet64[c] ELSE pad
      /\ Group(s, 3 * h)[4] = IF three THEN alphabet64[d] ELSE pad
  BY <1>6
<1>8. /\ table64(alphabet64[a]) = a /\ table64(alphabet64[b]) = b
      /\ table64(alphabet64[c]) = c /\ table64(alphabet64[d]) = d
      /\ alphabet64[c] # pad /\ alphabet64[d] # pad
  BY <1>3, TableInverts
<1>9. k + 1 < Len(t) => First(t, k) = x
  BY <1>4, <1>5, <1>7, <1>8, Zenon DEF First
<1>10. k + 2 < Len(t) /\ two => Second(t, k) = y
  BY <1>1, <1>4, <1>5, <1>7, <1>8, Zenon DEF Second
<1>11. k + 3 < Len(t) /\ three => Third(t, k) = z
  <2>1. d # np
    BY <1>3 DEF np
  <2> QED
    BY <1>1, <1>4, <1>5, <1>7, <1>8, <2>1, Zenon DEF Third
<1>12. First(t, k) \in Nat
  <2>1. table64(At(t, k)) = a
    BY <1>5, <1>7, <1>8, Zenon
  <2>2. CASE k + 1 < Len(t)
    BY <1>2, <1>9, <2>2 DEF Bytes
  <2>3. CASE ~(k + 1 < Len(t))
    <3>1. k + 1 = Len(t)
      BY <1>1, <2>3 DEF k
    <3>2. table64(At(t, k + 1)) = 255
      BY <3>1 DEF At, table64, np
    <3>3. ((a * 4) % 256) + ((255 \div 16) % 4) \in Nat
      BY <1>3
    <3> QED
      BY <2>1, <3>2, <3>3 DEF First
  <2> QED
    BY <2>2, <2>3
<1>13. /\ k + 2 < Len(t) /\ two => At(t, k + 2) # pad
       /\ k + 2 < Len(t) /\ ~two => At(t, k + 2) = pad
       /\ k + 3 < Len(t) /\ three => At(t, k + 3) # pad
       /\ k + 3 < Len(t) /\ ~three => At(t, k + 3) = pad
  BY <1>5, <1>7, <1>8, Zenon
<1> DEFINE u == Units(t, k)
           P == MeetsPad(t, k)
<1>14. CASE ~(k + 2 < Len(t))
  <2>1. ~P /\ u = <<First(t, k)>>
    BY <1>1, <1>14, UnitsAre, Zenon
  <2>2. \E q \in Nat : u = <<q>> /\ ~P
    BY <1>12, <2>1, Zenon
  <2>3. k + 1 < Len(t) => u = <<x>> /\ ~P
    BY <1>9, <2>1, Zenon
  <2> HIDE DEF u, P
  <2> QED
    BY <1>1, <1>5, <1>14, <2>2, <2>3, Zenon DEF k, x, y, z, u, P, two, three
<1>15. CASE k + 2 < Len(t) /\ ~two
  <2>1. P /\ u = <<x>>
    BY <1>1, <1>9, <1>13, <1>15, UnitsAre, Zenon
  <2> HIDE DEF u, P
  <2> QED
    BY <1>1, <1>5, <1>15, <2>1, Zenon DEF k, x, y, z, u, P, two, three
<1>16. CASE k + 2 < Len(t) /\ ~(k + 3 < Len(t)) /\ two
  <2>1. ~P /\ u = <<x, y>>
    BY <1>1, <1>9, <1>10, <1>13, <1>16, UnitsAre, Zenon
  <2> HIDE DEF u, P
  <2> QED
    BY <1>1, <1>5, <1>16, <2>1, Zenon DEF k, x, y, z, u, P, two, three
<1>17. CASE k + 3 < Len(t) /\ two /\ ~three
  <2>1. P /\ u = <<x, y>>
    BY <1>1, <1>9, <1>10, <1>13, <1>17, UnitsAre, Zenon
  <2> HIDE DEF u, P
  <2> QED
    BY <1>1, <1>5, <1>17, <2>1, Zenon DEF k, x, y, z, u, P, two, three
<1>18. CASE k + 3 < Len(t) /\ three
  <2>1. ~P /\ u = <<x, y, z>>
    BY <1>1, <1>9, <1>10, <1>11, <1>13, <1>18, UnitsAre, Zenon
  <2> HIDE DEF u, P
  <2> QED
    BY <1>1, <1>5, <1>18, <2>1, Zenon DEF k, x, y, z, u, P, two, three
<1> QED
  BY <1>1, <1>14, <1>15, <1>16, <1>17, <1>18, Zenon

(* The first l bytes of d, and the first v of e as the next ones, are s's. *)
Right(d, s, l) == \A k \in 1..l : d[k] = s[k]
Follow(e, s, l, v) == \A q \in 1..v : q <= Len(e) /\ e[q] = s[l + q]

Appended(d, e, s, l, v) ==
  /\ d \o e \in Seq(Nat) /\ Len(d \o e) = l + Len(e)
  /\ Right(d \o e, s, l + v)

(* A result that is right so far stays right when right bytes follow.      *)
LEMMA AppendRight ==
  ASSUME NEW s, NEW d \in Seq(Nat), NEW e \in Seq(Nat), NEW l \in Nat, NEW v \in Nat,
         Len(d) = l, Right(d, s, l), Follow(e, s, l, v)
  PROVE  Appended(d, e, s, l, v)
<1> USE DEF Right, Follow, Appended
<1>0. Len(e) \in Nat
  OBVIOUS
<1>1. /\ d \o e \in Seq(Nat) /\ Len(d \o e) = Len(d) + Len(e) /\ Len(e) \in Nat
      /\ \A k \in 1..(Len(d) + Len(e)) :
           (d \o e)[k] = IF k <= Len(d) THEN d[k] ELSE e[k - Len(d)]
  BY <1>0, ConcatProperties, ZenonT(60)
<1>2. ASSUME NEW k \in 1..(l + v)
      PROVE  (d \o e)[k] = s[k]
  <2>1. CASE k <= l
    <3>1. k \in 1..l /\ k \in 1..(Len(d) + Len(e)) /\ k <= Len(d)
      BY <1>1, <2>1
    <3> QED
      BY <1>1, <3>1, Zenon
  <2>2. CASE ~(k <= l)
    <3>1. k - l \in 1..v /\ l + (k - l) = k
      BY <2>2
    <3>2. k - l <= Len(e) /\ e[k - l] = s[k]
      BY <3>1, Zenon
    <3>3. k \in 1..(Len(d) + Len(e)) /\ ~(k <= Len(d)) /\ k - Len(d) = k - l
      BY <1>1, <2>2, <3>2
    <3> QED
      BY <1>1, <3>2, <3>3, Zenon
  <2> QED
    BY <2>1, <2>2
<1> QED
  BY <1>1, <1>2

LEMMA RightBytes ==
  ASSUME NEW s \in Seq(Bytes), NEW h \in Nat
  PROVE  LET x == ByteAt(s, 3 * h)
             y == ByteAt(s, 3 * h + 1)
             z == ByteAt(s, 3 * h + 2)
         IN /\ x \in Nat /\ y \in Nat /\ z \in Nat
            /\ 3 * h < Len(s) => x = s[3 * h + 1]
            /\ 3 * h + 1 < Len(s) => y = s[3 * h + 2]
            /\ 3 * h + 2 < Len(s) => z = s[3 * h + 3]
<1>1. 3 * h \in Nat /\ 3 * h + 1 \in Nat /\ 3 * h + 2 \in Nat
      /\ (3 * h + 1) + 1 = 3 * h + 2 /\ (3 * h + 2) + 1 = 3 * h + 3
  OBVIOUS
<1>2. ByteAt(s, 3 * h) \in Nat /\ ByteAt(s, 3 * h + 1) \in Nat /\ ByteAt(s, 3 * h + 2) \in Nat
  <2>1. \A v \in Bytes : v \in Nat
    BY DEF Bytes
  <2> QED
    BY <1>1, <2>1, ByteAtType, Zenon
<1> QED
  BY <1>1, <1>2, Zenon DEF ByteAt

(* What the text holds, by where it is cut off.                            *)
LEMMA WholeIs ==
  ASSUME NEW h \in Nat, NEW l \in Nat, NEW m \in Nat, 3 * h < l, 4 * h < m,
         m <= 4 * ((l + 2) \div 3)
  PROVE  LET bytes == (6 * m) \div 8
             whole == IF bytes < l THEN bytes ELSE l
             extra == IF m % 4 = 1 THEN 1 ELSE 0
         IN /\ m = 4 * h + 1 => whole = 3 * h /\ extra = 1
            /\ m = 4 * h + 2 => whole = 3 * h + 1 /\ extra = 0
            /\ m = 4 * h + 3 /\ l > 3 * h + 1 => whole = 3 * h + 2 /\ extra = 0
            /\ m >= 4 * h + 3 /\ l = 3 * h + 1 => whole = 3 * h + 1 /\ extra = 0
            /\ m >= 4 * h + 4 /\ l = 3 * h + 2 => whole = 3 * h + 2 /\ extra = 0
<1>1. CASE m = 4 * h + 1
  BY <1>1
<1>2. CASE m = 4 * h + 2
  BY <1>2
<1>3. CASE m = 4 * h + 3
  BY <1>3
<1>4. CASE m >= 4 * h + 4 /\ (l = 3 * h + 1 \/ l = 3 * h + 2)
  <2>1. m = 4 * h + 4
    BY <1>4
  <2> QED
    BY <1>4, <2>1
<1> QED
  BY <1>1, <1>2, <1>3, <1>4

(* A turn of decode64's loop.                                              *)
LEMMA DecodeStep == CodecInv /\ Decode => CodecInv'
<1> SUFFICES ASSUME CodecInv, Decode PROVE CodecInv'
  OBVIOUS
<1>1. /\ input \in Seq(Bytes) /\ encoded \in Seq(Nat) /\ text \in Seq(Nat)
      /\ decoded \in Seq(Nat) /\ Len(input) \in Nat /\ Len(text) \in Nat
      /\ pc = "decode" /\ Handed
  BY DEF CodecInv, Decode
<1>2. PICK h \in 0..i : i = 4 * h /\ (Decoding(h) \/ (Len(text) < i /\ Decoded))
  BY <1>1, Zenon DEF CodecInv
<1>3. i < Len(text)
  BY DEF Decode
<1>4. h \in Nat /\ 4 * h < Len(text)
  <2>1. i \in Int
    BY <1>2
  <2> QED
    BY <1>2, <1>3
<1>5. Decoding(h)
  BY <1>1, <1>2, <1>4
<1>6. /\ Len(text) <= 4 * Turns(input)
      /\ \A j \in 1..Len(text) : text[j] = RefChar(input, j)
  BY <1>1 DEF Handed
<1> DEFINE k == 4 * h
           n == 3 * h
           x == ByteAt(input, n)
           y == ByteAt(input, n + 1)
           z == ByteAt(input, n + 2)
           u == Units(text, k)
           P == MeetsPad(text, k)
<1>7. /\ n < Len(input)
      /\ ~(k + 1 < Len(text)) => \E a \in Nat : u = <<a>> /\ ~P
      /\ k + 1 < Len(text) /\ ~(k + 2 < Len(text)) => u = <<x>> /\ ~P
      /\ k + 2 < Len(text) /\ ~(n + 1 < Len(input)) => u = <<x>> /\ P
      /\ k + 2 < Len(text) /\ ~(k + 3 < Len(text)) /\ n + 1 < Len(input) =>
           u = <<x, y>> /\ ~P
      /\ k + 3 < Len(text) /\ n + 1 < Len(input) /\ ~(n + 2 < Len(input)) =>
           u = <<x, y>> /\ P
      /\ k + 3 < Len(text) /\ n + 2 < Len(input) => u = <<x, y, z>> /\ ~P
  BY <1>1, <1>4, <1>6, TurnDecodes
<1>8. /\ x \in Nat /\ y \in Nat /\ z \in Nat
      /\ n < Len(input) => x = input[n + 1]
      /\ n + 1 < Len(input) => y = input[n + 2]
      /\ n + 2 < Len(input) => z = input[n + 3]
  BY <1>1, <1>4, RightBytes, Zenon
<1>9. /\ Len(decoded) = n /\ \A m \in 1..n : decoded[m] = input[m]
      /\ n \in Nat /\ k \in Nat
  <2>1. n \in Nat /\ k \in Nat
    BY <1>4
  <2> QED
    BY <1>5, <2>1, Zenon DEF Decoding
<1>10. /\ decoded' = decoded \o u /\ input' = input /\ encoded' = encoded /\ text' = text
       /\ P => pc' = "done" /\ i' = i
       /\ ~P => pc' = "decode" /\ i' = 4 * (h + 1)
  <2>1. i + 4 = 4 * (h + 1) /\ i = k
    BY <1>2, <1>4
  <2> QED
    BY <1>1, <2>1, Zenon DEF Decode
<1>11. \A w \in Nat : u \in Seq(Nat) /\ Follow(u, input, n, w)
         => /\ decoded' \in Seq(Nat) /\ Len(decoded') = n + Len(u)
            /\ Right(decoded', input, n + w)
  <2> HIDE DEF u, n, k
  <2>1. Right(decoded, input, n)
    BY <1>9, Zenon DEF Right
  <2>2. decoded \in Seq(Nat) /\ n \in Nat /\ Len(decoded) = n
    BY <1>1, <1>9, Zenon
  <2>3. ASSUME NEW w \in Nat, u \in Seq(Nat), Follow(u, input, n, w)
        PROVE  Appended(decoded, u, input, n, w)
    BY <2>1, <2>2, <2>3, AppendRight, Zenon
  <2>4. decoded' = decoded \o u
    BY <1>10
  <2> QED
    BY <2>3, <2>4, Zenon DEF Appended
<1>12. /\ Len(text) = k + 1 => Whole = n /\ Extra = 1
       /\ Len(text) = k + 2 => Whole = n + 1 /\ Extra = 0
       /\ Len(text) = k + 3 /\ Len(input) > n + 1 => Whole = n + 2 /\ Extra = 0
       /\ Len(text) >= k + 3 /\ Len(input) = n + 1 => Whole = n + 1 /\ Extra = 0
       /\ Len(text) >= k + 4 /\ Len(input) = n + 2 => Whole = n + 2 /\ Extra = 0
  <2>1. Len(text) <= 4 * ((Len(input) + 2) \div 3)
    BY <1>6 DEF Turns
  <2> QED
    BY <1>1, <1>4, <1>7, <2>1, WholeIs, Zenon DEF Whole, Extra
<1>13. Whole' = Whole /\ Extra' = Extra /\ Turns(input)' = Turns(input)
  BY <1>10 DEF Whole, Extra, Turns
<1>14. Handed'
  BY <1>1, <1>10, <1>13, Zenon DEF Handed
(* The last turn: what it leaves is what the text holds.                   *)
<1>15. ASSUME decoded' \in Seq(Nat), Len(decoded') = Whole + Extra,
              \A m \in 1..Whole : decoded'[m] = input[m],
              P \/ Len(text) < 4 * (h + 1)
       PROVE  CodecInv'
  <2>1. Decoded'
    BY <1>10, <1>13, <1>15, Zenon DEF Decoded
  <2>2. CASE P
    BY <1>1, <1>10, <1>14, <1>15, <2>1, <2>2 DEF CodecInv
  <2>3. CASE ~P
    <3>1. h + 1 \in 0..i' /\ i' = 4 * (h + 1) /\ Len(text') < i'
      BY <1>4, <1>10, <1>15, <2>3
    <3>2. \E g \in 0..i' : i' = 4 * g /\ (Decoding(g)' \/ (Len(text') < i' /\ Decoded'))
      BY <2>1, <3>1, Zenon
    <3> QED
      BY <1>1, <1>10, <1>14, <1>15, <2>3, <3>2 DEF CodecInv
  <2> QED
    BY <2>2, <2>3
<1>16. CASE Len(text) = k + 1
  <2>1. ~(k + 1 < Len(text)) /\ Len(text) < 4 * (h + 1)
    BY <1>4, <1>16
  <2>2. PICK a \in Nat : u = <<a>> /\ ~P
    BY <1>7, <2>1, Zenon
  <2> HIDE DEF u, P, n, k
  <2>3. u \in Seq(Nat) /\ Len(u) = 1
    BY <2>2
  <2>4. Follow(u, input, n, 0)
    BY DEF Follow
  <2>5. /\ decoded' \in Seq(Nat) /\ Len(decoded') = n + 1
        /\ \A m \in 1..(n + 0) : decoded'[m] = input[m]
    BY <1>11, <2>3, <2>4 DEF Right
  <2>6. n + 0 = n
    BY <1>9
  <2> QED
    BY <1>12, <1>15, <1>16, <2>1, <2>5, <2>6, Zenon
<1>17. CASE Len(text) = k + 2 \/ (Len(text) >= k + 3 /\ Len(input) = n + 1)
  <2>1. u = <<x>> /\ (P \/ Len(text) < 4 * (h + 1))
    <3>1. CASE Len(text) = k + 2
      <4>1. k + 1 < Len(text) /\ ~(k + 2 < Len(text)) /\ Len(text) < 4 * (h + 1)
        BY <1>4, <3>1
      <4> QED
        BY <1>7, <4>1, Zenon
    <3>2. CASE Len(text) >= k + 3 /\ Len(input) = n + 1
      <4>1. k + 2 < Len(text) /\ ~(n + 1 < Len(input))
        BY <1>1, <1>4, <3>2
      <4> QED
        BY <1>7, <4>1, Zenon
    <3> QED
      BY <1>17, <3>1, <3>2
  <2>2. Whole = n + 1 /\ Extra = 0
    BY <1>12, <1>17, Zenon
  <2> HIDE DEF u, P, n, k, x, y, z
  <2>3. u \in Seq(Nat) /\ Len(u) = 1 /\ u[1] = input[n + 1]
    BY <1>7, <1>8, <2>1
  <2>4. Follow(u, input, n, 1)
    BY <2>3 DEF Follow
  <2>5. /\ decoded' \in Seq(Nat) /\ Len(decoded') = n + 1
        /\ \A m \in 1..(n + 1) : decoded'[m] = input[m]
    BY <1>11, <2>3, <2>4 DEF Right
  <2>6. n + 1 = (n + 1) + 0
    BY <1>9
  <2> QED
    BY <1>15, <2>1, <2>2, <2>5, <2>6, Zenon
<1>18. CASE \/ Len(text) = k + 3 /\ Len(input) > n + 1
            \/ Len(text) >= k + 4 /\ Len(input) = n + 2
  <2>1. u = <<x, y>> /\ (P \/ Len(text) < 4 * (h + 1)) /\ n + 1 < Len(input)
    <3>1. CASE Len(text) = k + 3 /\ Len(input) > n + 1
      <4>1. /\ k + 2 < Len(text) /\ ~(k + 3 < Len(text)) /\ n + 1 < Len(input)
            /\ Len(text) < 4 * (h + 1)
        BY <1>1, <1>4, <3>1
      <4> QED
        BY <1>7, <4>1, Zenon
    <3>2. CASE Len(text) >= k + 4 /\ Len(input) = n + 2
      <4>1. k + 3 < Len(text) /\ n + 1 < Len(input) /\ ~(n + 2 < Len(input))
        BY <1>1, <1>4, <3>2
      <4> QED
        BY <1>7, <4>1, Zenon
    <3> QED
      BY <1>18, <3>1, <3>2
  <2>2. Whole = n + 2 /\ Extra = 0
    BY <1>12, <1>18, Zenon
  <2> HIDE DEF u, P, n, k, x, y, z
  <2>3. /\ u \in Seq(Nat) /\ Len(u) = 2
        /\ u[1] = input[n + 1] /\ u[2] = input[n + 2]
    BY <1>7, <1>8, <2>1
  <2>4. Follow(u, input, n, 2)
    BY <2>3 DEF Follow
  <2>5. /\ decoded' \in Seq(Nat) /\ Len(decoded') = n + 2
        /\ \A m \in 1..(n + 2) : decoded'[m] = input[m]
    BY <1>11, <2>3, <2>4 DEF Right
  <2>6. n + 2 = (n + 2) + 0
    BY <1>9
  <2> QED
    BY <1>15, <2>1, <2>2, <2>5, <2>6, Zenon
(* A turn with three bytes, after which there may be another.              *)
<1>19. CASE Len(text) >= k + 4 /\ Len(input) >= n + 3
  <2>1. /\ k + 3 < Len(text) /\ n + 2 < Len(input) /\ n + 1 < Len(input)
        /\ 4 * (h + 1) <= Len(text) /\ 3 * (h + 1) <= Len(input) /\ n + 3 = 3 * (h + 1)
        /\ h + 1 \in 0..(4 * (h + 1))
    BY <1>1, <1>4, <1>19
  <2>2. u = <<x, y, z>> /\ ~P
    BY <1>7, <2>1, Zenon
  <2> HIDE DEF u, P, n, k, x, y, z
  <2>3. /\ u \in Seq(Nat) /\ Len(u) = 3
        /\ u[1] = input[n + 1] /\ u[2] = input[n + 2] /\ u[3] = input[n + 3]
    BY <1>7, <1>8, <2>1, <2>2
  <2>4. Follow(u, input, n, 3)
    BY <2>3 DEF Follow
  <2>5. /\ decoded' \in Seq(Nat) /\ Len(decoded') = n + 3
        /\ \A m \in 1..(n + 3) : decoded'[m] = input[m]
    BY <1>11, <2>3, <2>4 DEF Right
  <2>6. Decoding(h + 1)'
    BY <1>10, <2>1, <2>5, Zenon DEF Decoding
  <2>7. i' = 4 * (h + 1) /\ pc' = "decode"
    BY <1>10, <2>2
  <2>8. \E g \in 0..i' : i' = 4 * g /\ (Decoding(g)' \/ (Len(text') < i' /\ Decoded'))
    BY <2>1, <2>6, <2>7, Zenon
  <2> QED
    BY <1>1, <1>10, <1>14, <2>5, <2>7, <2>8 DEF CodecInv
<1>20. \/ Len(text) = k + 1
       \/ Len(text) = k + 2
       \/ Len(text) >= k + 3 /\ Len(input) = n + 1
       \/ Len(text) = k + 3 /\ Len(input) > n + 1
       \/ Len(text) >= k + 4 /\ Len(input) = n + 2
       \/ Len(text) >= k + 4 /\ Len(input) >= n + 3
  <2>1. n < Len(input) /\ k < Len(text) /\ n \in Nat /\ k \in Nat
    BY <1>4, <1>7, <1>9
  <2> HIDE DEF n, k
  <2> QED
    BY <1>1, <2>1, SMTT(30)
<1> QED
  BY <1>16, <1>17, <1>18, <1>19, <1>20, Zenon

(* decode64 returns.                                                       *)
LEMMA ReturnStep == CodecInv /\ Return => CodecInv'
<1> SUFFICES ASSUME CodecInv, Return PROVE CodecInv'
  OBVIOUS
<1>1. /\ input \in Seq(Bytes) /\ encoded \in Seq(Nat) /\ text \in Seq(Nat)
      /\ decoded \in Seq(Nat) /\ Len(input) \in Nat /\ Len(text) \in Nat
      /\ pc = "decode" /\ Handed
  BY DEF CodecInv, Return
<1>2. PICK h \in 0..i : i = 4 * h /\ (Decoding(h) \/ (Len(text) < i /\ Decoded))
  BY <1>1, Zenon DEF CodecInv
<1>3. Decoded
  <2>1. CASE Decoding(h)
    <3>1. i \in Int /\ h \in Nat
      BY <1>2
    <3>2. /\ Len(text) = 4 * h /\ 3 * h <= Len(input)
      BY <1>1, <1>2, <2>1, <3>1 DEF Decoding, Return
    <3>3. \A a \in Nat : (6 * (4 * a)) \div 8 = 3 * a /\ (4 * a) % 4 = 0
      OBVIOUS
    <3>4. Whole = IF 3 * h < Len(input) THEN 3 * h ELSE Len(input)
      BY <3>1, <3>2, <3>3, Zenon DEF Whole
    <3>5. Extra = 0
      <4>1. (4 * h) % 4 # 1
        BY <3>1, <3>3
      <4> QED
        BY <3>2, <4>1, Zenon DEF Extra
    <3>6. Whole = 3 * h
      <4>1. 3 * h < Len(input) \/ 3 * h = Len(input)
        BY <1>1, <3>1, <3>2
      <4> QED
        BY <3>4, <4>1, Zenon
    <3>7. Whole + Extra = 3 * h
      BY <3>1, <3>5, <3>6
    <3> QED
      BY <2>1, <3>6, <3>7, Zenon DEF Decoding, Decoded
  <2> QED
    BY <1>2, <2>1
<1>4. /\ input' = input /\ encoded' = encoded /\ text' = text /\ decoded' = decoded
      /\ pc' = "done"
  BY DEF Return
<1>5. Decoded'
  BY <1>3, <1>4, Zenon DEF Decoded, Whole, Extra
<1>6. Handed'
  BY <1>1, <1>4, Zenon DEF Handed, Turns
<1> QED
  BY <1>1, <1>4, <1>5, <1>6 DEF CodecInv

LEMMA CodecStutters == CodecInv /\ UNCHANGED vars => CodecInv'
<1> SUFFICES ASSUME CodecInv, UNCHANGED vars PROVE CodecInv'
  OBVIOUS
<1> QED
  BY Zenon DEF CodecInv, vars, Encoding, Handed, Decoding, Decoded, Whole, Extra, Turns

LEMMA Codec == Spec => []CodecInv
<1>1. CodecInv /\ [Next]_vars => CodecInv'
  BY EncodeStep, HandStep, DecodeStep, ReturnStep, CodecStutters, Zenon DEF Next
<1> QED
  BY CodecInit, <1>1, PTL DEF Spec

-----------------------------------------------------------------------------
(* encode64 returns what RFC 3548 says, for every input: a loop that takes *)
(* three bytes a turn with shifts and masks, and tests its index three     *)
(* times in a turn, writes the pieces of six bits of the whole string of   *)
(* bits.                                                                   *)
THEOREM EncodeFollowsRFC == Spec => []EncodesReference
<1>1. CodecInv => EncodesReference
  BY DEF CodecInv, Handed, EncodesReference
<1> QED
  BY <1>1, Codec, PTL

(* decode64 gives back every byte that a text holds completely, for every  *)
(* input and wherever the text is cut off, and one byte too many exactly   *)
(* when the cut is behind the first character of a group.                  *)
THEOREM DecodeInverts == Spec => []RoundTrip
<1>1. ASSUME CodecInv PROVE RoundTrip
  <2>1. /\ Len(input) \in Nat /\ Len(text) \in Nat /\ Len(decoded) \in Nat
        /\ pc \in {"encode", "decode", "done"}
    BY <1>1 DEF CodecInv
  <2>2. Whole \in Nat
    BY <2>1 DEF Whole
  <2>3. ASSUME Decoded PROVE RoundTrip
    <3>1. Len(decoded) = Whole + Extra
      BY <2>3 DEF Decoded
    <3>2. ASSUME NEW k \in 1..Len(decoded), k <= Whole PROVE decoded[k] = input[k]
      <4>1. k \in 1..Whole
        BY <2>2, <3>2
      <4> QED
        BY <2>3, <4>1 DEF Decoded
    <3> QED
      BY <3>1, <3>2, Zenon DEF RoundTrip, Whole, Extra
  <2>4. CASE pc = "encode"
    <3>1. decoded = <<>>
      BY <1>1, <2>4 DEF CodecInv, Encoding
    <3> QED
      BY <2>4, <3>1 DEF RoundTrip
  <2>5. CASE pc = "decode"
    <3>1. PICK h \in 0..i : i = 4 * h /\ (Decoding(h) \/ (Len(text) < i /\ Decoded))
      BY <1>1, <2>5, Zenon DEF CodecInv
    <3>2. CASE Decoding(h)
      BY <2>5, <3>2 DEF Decoding, RoundTrip
    <3> QED
      BY <2>3, <3>1, <3>2
  <2>6. CASE pc = "done"
    BY <1>1, <2>3, <2>6 DEF CodecInv
  <2> QED
    BY <2>1, <2>4, <2>5, <2>6
<1> QED
  BY <1>1, Codec, PTL
=============================================================================
