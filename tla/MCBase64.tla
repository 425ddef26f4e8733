------------------------------ MODULE MCBase64 ------------------------------
(* The instance of Base64 that TLC checks: up to four bytes at the edges   *)
(* of the shifts and masks, and every byte at the places where each entry  *)
(* of the alphabet is reached.                                             *)
EXTENDS Base64, SequencesExt

EdgeBytes == {0, 3, 63, 64, 128, 251, 255}
EdgeInputs == BoundedSeq(EdgeBytes, 4) \cup {<<b, 255 - b, b>> : b \in Bytes}
=============================================================================
