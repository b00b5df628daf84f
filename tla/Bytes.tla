-------------------------------- MODULE Bytes --------------------------------
(***************************************************************************)
(* Bytes and the words of four of them that lab 9 computes with.  A word   *)
(* is a sequence: in the software, which is little endian, its first byte  *)
(* is the low one; in the hardware it is the high one.                     *)
(***************************************************************************)
EXTENDS Integers, Sequences

Byte == 0..255
Word == [1..4 -> Byte]

Nibble == 0..15
XorNibble == [a \in Nibble |-> [b \in Nibble |->
  LET D(k) == IF (a \div k) % 2 = (b \div k) % 2 THEN 0 ELSE k
  IN  D(1) + D(2) + D(4) + D(8)]]

Xor(a, b) == 16 * XorNibble[a \div 16][b \div 16] + XorNibble[a % 16][b % 16]
Xor4(a, b, c, d) == Xor(Xor(a, b), Xor(c, d))
XorWord(v, w) == <<Xor(v[1], w[1]), Xor(v[2], w[2]), Xor(v[3], w[3]), Xor(v[4], w[4])>>
=============================================================================
