------------------------------- MODULE Base64 -------------------------------
(***************************************************************************)
(* encode64 and decode64 (src/util/base64.cpp), one action per turn of     *)
(* their loops.  A byte is a number of 0..255 and a character its code; a  *)
(* shift is a product or a quotient, a mask a remainder, and an `or' of    *)
(* operands that share no bit a sum.                                       *)
(*                                                                         *)
(* An encoded text is decoded whole or cut off anywhere: what is left of   *)
(* it when the padding is stripped, or when the rest is still to come.     *)
(***************************************************************************)
EXTENDS Integers, Sequences

CONSTANT Inputs   \* what encode64 is called with

Bytes == 0..255
ASSUME InputsAssumption == Inputs \subseteq Seq(Bytes)

VARIABLES
  pc,       \* "encode", "decode" or "done"
  input,    \* the argument of encode64
  i,        \* the index of the loop, counted from 0
  encoded,  \* the result of encode64
  text,     \* the argument of decode64
  decoded   \* the result of decode64

vars == <<pc, input, i, encoded, text, decoded>>

-----------------------------------------------------------------------------
(* The alphabet and its inverse: A..Z, a..z, 0..9, + and /, as ASCII       *)
(* codes.  np is (char)npos, all bits set.                                 *)
alphabet64 ==
  [c \in 0..63 |-> CASE c \in 0..25  -> 65 + c
                     [] c \in 26..51 -> 97 + (c - 26)
                     [] c \in 52..61 -> 48 + (c - 52)
                     [] c = 62       -> 43
                     [] c = 63       -> 47]

pad == 61
np == 255

table64vals == <<
  62, np, np, np, 63, 52, 53, 54, 55, 56, 57, 58, 59, 60, 61, np, np, np, np, np,
  np, np,  0,  1,  2,  3,  4,  5,  6,  7,  8,  9, 10, 11, 12, 13, 14, 15, 16, 17,
  18, 19, 20, 21, 22, 23, 24, 25, np, np, np, np, np, np, 26, 27, 28, 29, 30, 31,
  32, 33, 34, 35, 36, 37, 38, 39, 40, 41, 42, 43, 44, 45, 46, 47, 48, 49, 50, 51 >>

table64(c) == IF c < 43 \/ c > 122 THEN np ELSE table64vals[c - 43 + 1]

(* std::string::operator[]: a string ends with a NUL that may be read.     *)
At(s, k) == IF k = Len(s) THEN 0 ELSE s[k + 1]

(* The upper bits of the byte at k, if there is one, that a character      *)
(* takes over.                                                             *)
CarryDropped(s, k, q) == 0
Carry(s, k, q) == IF k < Len(s) THEN At(s, k) \div q ELSE 0

(* The four characters that a turn of encode64's loop appends.             *)
Group(s, k) ==
  << alphabet64[At(s, k) \div 4],
     alphabet64[((At(s, k) * 16) % 64) + Carry(s, k + 1, 16)],
     IF k + 1 < Len(s)
       THEN alphabet64[((At(s, k + 1) * 4) % 64) + Carry(s, k + 2, 64)]
       ELSE pad,
     IF k + 2 < Len(s) THEN alphabet64[At(s, k + 2) % 64] ELSE pad >>

(* A turn of decode64's loop ends the loop when it meets a pad.            *)
MeetsPad(s, k) ==
  \/ k + 2 < Len(s) /\ At(s, k + 2) = pad
  \/ k + 3 < Len(s) /\ At(s, k + 3) = pad

(* The one, two or three bytes that a turn of decode64's loop appends.     *)
(* np has all bits set, so `or'ing it gives np.                            *)
First(s, k) ==
  LET c == table64(At(s, k))
      d == table64(At(s, k + 1))
  IN ((c * 4) % 256) + ((d \div 16) % 4)
Second(s, k) ==
  LET d == table64(At(s, k + 1))
      c == table64(At(s, k + 2))
  IN ((d * 16) % 256) + ((c \div 4) % 16)
Third(s, k) ==
  LET c == table64(At(s, k + 2))
      d == table64(At(s, k + 3))
  IN IF d = np THEN np ELSE ((c * 64) % 256) + d

UnitsIgnoringPad(s, k) ==
  <<First(s, k)>>
    \o (IF k + 2 < Len(s) THEN <<Second(s, k)>> ELSE <<>>)
    \o (IF k + 3 < Len(s) THEN <<Third(s, k)>> ELSE <<>>)
Units(s, k) ==
  LET here(n) == k + n < Len(s) /\ \A m \in 2..n : At(s, k + m) # pad
  IN <<First(s, k)>>
       \o (IF here(2) THEN <<Second(s, k)>> ELSE <<>>)
       \o (IF here(3) THEN <<Third(s, k)>> ELSE <<>>)

-----------------------------------------------------------------------------
Init ==
  /\ pc = "encode"
  /\ input \in Inputs
  /\ i = 0
  /\ encoded = <<>> /\ text = <<>> /\ decoded = <<>>

(* A turn of encode64's loop.                                              *)
Encode ==
  /\ pc = "encode" /\ i < Len(input)
  /\ encoded' = encoded \o Group(input, i)
  /\ i' = i + 3
  /\ UNCHANGED <<pc, input, text, decoded>>

(* encode64 returns, and what is left of its result is given to decode64.  *)
Hand ==
  /\ pc = "encode" /\ i >= Len(input)
  /\ \E m \in 0..Len(encoded) : text' = SubSeq(encoded, 1, m)
  /\ pc' = "decode" /\ i' = 0
  /\ UNCHANGED <<input, encoded, decoded>>

(* A turn of decode64's loop.                                              *)
Decode ==
  /\ pc = "decode" /\ i < Len(text)
  /\ decoded' = decoded \o Units(text, i)
  /\ IF MeetsPad(text, i)
       THEN pc' = "done" /\ i' = i
       ELSE pc' = pc /\ i' = i + 4
  /\ UNCHANGED <<input, encoded, text>>

(* decode64 returns at the end of its loop.                                *)
Return ==
  /\ pc = "decode" /\ i >= Len(text)
  /\ pc' = "done"
  /\ UNCHANGED <<input, i, encoded, text, decoded>>

Next == Encode \/ Hand \/ Decode \/ Return
Spec == Init /\ [][Next]_vars

-----------------------------------------------------------------------------
(* RFC 3548 on the string of bits of the input, the highest bit of the     *)
(* first byte in front, filled up with zeros.                              *)
Weight == <<128, 64, 32, 16, 8, 4, 2, 1>>
Bit(s, b) ==
  IF b \div 8 < Len(s) THEN (s[(b \div 8) + 1] \div Weight[(b % 8) + 1]) % 2 ELSE 0

Sextet(s, j) ==
  32 * Bit(s, 6*j) + 16 * Bit(s, 6*j + 1) + 8 * Bit(s, 6*j + 2)
    + 4 * Bit(s, 6*j + 3) + 2 * Bit(s, 6*j + 4) + Bit(s, 6*j + 5)

Reference(s) ==
  [j \in 1..(4 * ((Len(s) + 2) \div 3)) |->
     IF 6 * (j - 1) < 8 * Len(s) THEN alphabet64[Sextet(s, j - 1)] ELSE pad]

(* encode64 returns what RFC 3548 says ("Base64-encodes the input          *)
(* according to RFC 3548"): the six-bit pieces of the input in order, the  *)
(* last one filled with zero bits, padded to a multiple of four.           *)
EncodesReference == pc # "encode" => encoded = Reference(input)

(* decode64 is the inverse of encode64 on a text that is whole or cut off: *)
(* it returns every byte of which the text holds all bits, in order, and   *)
(* no other, except that a text cut behind the first character of a group  *)
(* yields one byte more.  It never returns a wrong byte on its way.        *)
RoundTrip ==
  LET bytes == (6 * Len(text)) \div 8
      whole == IF bytes < Len(input) THEN bytes ELSE Len(input)
      extra == IF Len(text) % 4 = 1 THEN 1 ELSE 0
  IN /\ \A k \in 1..Len(decoded) : k <= whole => decoded[k] = input[k]
     /\ pc = "done" => Len(decoded) = whole + extra
=============================================================================
