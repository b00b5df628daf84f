------------------------------ MODULE Rijndael ------------------------------
(***************************************************************************)
(* The cipher lab 9 is to compute, AES with a key of 128 bits, as its      *)
(* standard (FIPS 197) defines it: in the field of polynomials over bits   *)
(* modulo x^8 + x^4 + x^3 + x + 1.  Nothing here is taken from the code.   *)
(*                                                                         *)
(* The standard puts the constant of a round into the first byte of a word *)
(* of the key schedule.  Here the place is a parameter, so that what the   *)
(* software computes can be compared with the cipher and with the cipher   *)
(* but for that place.                                                     *)
(***************************************************************************)
EXTENDS Bytes, SequencesExt

FirstByte == 1
LastByte == 4

Bit(a, n) == (a \div 2^n) % 2
TimesX(a) == IF a >= 128 THEN Xor((2 * a) % 256, 27) ELSE 2 * a

\* The product: the sum of the multiples of a by the powers of x in b.
Times(a, b) ==
  LET multiple[n \in 0..7] == IF n = 0 THEN a ELSE TimesX(multiple[n - 1])
  IN  FoldLeft(LAMBDA sum, n : IF Bit(b, n) = 1 THEN Xor(sum, multiple[n]) ELSE sum,
               0, <<0, 1, 2, 3, 4, 5, 6, 7>>)

\* The inverse of a is a^254: the powers of any element but 0 return to 1
\* after 255 steps.
InverseOf(a) ==
  LET half == FoldLeft(LAMBDA p, n : Times(Times(p, p), a), a, <<1, 2, 3, 4, 5, 6>>)
  IN  Times(half, half)

Affine(a) ==
  LET bit(n) == (Bit(a, n) + Bit(a, (n + 4) % 8) + Bit(a, (n + 5) % 8)
                   + Bit(a, (n + 6) % 8) + Bit(a, (n + 7) % 8) + Bit(99, n)) % 2
  IN  bit(0) + 2 * bit(1) + 4 * bit(2) + 8 * bit(3)
        + 16 * bit(4) + 32 * bit(5) + 64 * bit(6) + 128 * bit(7)

SBox == [a \in Byte |-> Affine(InverseOf(a))]

-----------------------------------------------------------------------------
(* The key schedule.  A constant is the power of x for its round. *)

RoundConstant == <<1, 2, 4, 8, 16, 32, 64, 128, 27, 54>>

\* The word before, turned by one byte, substituted, with the constant of the
\* round in its place.
RoundWord(word, r, place) ==
  LET byte(k) == LET b == SBox[word[1 + (k % 4)]]
                 IN  IF k = place THEN Xor(b, RoundConstant[r]) ELSE b
  IN  <<byte(1), byte(2), byte(3), byte(4)>>

\* The words of the key and of the first rounds of its schedule.
IsKeySchedule(w, key, place, rounds) ==
  /\ \A i \in 0..3 : w[i] = key[i + 1]
  /\ \A i \in 4..(4 * rounds + 3) :
       w[i] = XorWord(w[i - 4], IF i % 4 = 0 THEN RoundWord(w[i - 1], i \div 4, place)
                                            ELSE w[i - 1])

-----------------------------------------------------------------------------
(* The transformations of a block: byte 4c + r is row r of column c *)

Block == [0..15 -> Byte]

AddRoundKey(s, w, r) == [j \in 0..15 |-> Xor(s[j], w[4 * r + (j \div 4)][1 + (j % 4)])]
SubstituteBytes(s) == [j \in 0..15 |-> SBox[s[j]]]
ShiftRows(s) == [j \in 0..15 |-> s[(j + 4 * (j % 4)) % 16]]
MixColumns(s) ==
  [j \in 0..15 |->
     LET a(n) == s[4 * (j \div 4) + ((j + n) % 4)]
     IN  Xor4(Times(a(0), 2), Times(a(1), 3), a(2), a(3))]
=============================================================================
