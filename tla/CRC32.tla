--------------------------------- MODULE CRC32 ---------------------------------
(***************************************************************************)
(* The CRC-32 by which groups are told apart.  A word is the set of the    *)
(* positions of its 1 bits, so that exclusive or is symmetric difference.  *)
(***************************************************************************)
EXTENDS Integers, SequencesExt

CONSTANTS
  Width,             \* of a word: 32
  Polynomial         \* CRC32_POLYNOMIAL, 0xEDB88320

ASSUME PolynomialAssumption ==
  Width \in Nat \ {0} /\ Polynomial \subseteq 0 .. Width - 1

Xor(A, B) == (A \ B) \cup (B \ A)
ShiftedRight(A) == {i - 1 : i \in A \ {0}}

UpdateBit(crc) ==
  IF 0 \in crc THEN Xor(ShiftedRight(crc), Polynomial) ELSE ShiftedRight(crc)

UpdateByte(crc, byte) ==
  LET after[bits \in 0 .. 8] ==
        IF bits = 0 THEN Xor(crc, byte) ELSE UpdateBit(after[bits - 1])
  IN after[8]

crc32Update(buffer, crc) == FoldLeft(UpdateByte, crc, buffer)

(* CRC32_INITIAL has all bits set, and the result is complemented. *)
crc32String(buffer) ==
  (0 .. Width - 1) \ crc32Update(buffer, 0 .. Width - 1)
================================================================================
