------------------------------- MODULE Adders -------------------------------
(***************************************************************************)
(* The adders built from full_adder.sv: the two-bit adder of 2Bit_Adder    *)
(* and the nine-bit adder and subtracter of lab 5.  A bit is 0 or 1; bit i *)
(* of a number has the weight 2^i.                                         *)
(***************************************************************************)
EXTENDS Integers

Byte == {w \in Nat : w <= 255}
b(w, weight) == (w \div weight) % 2

\* full_adder: x^y^z and the majority of the three.
s(x, y, z) == IF x = y THEN z ELSE 1 - z
c(x, y, z) == IF x = y THEN x ELSE z

\* adder2: the sum of two two-bit numbers and a carry, and the carry out.
adder2(A, B, c_in) ==
  LET c1 == c(b(A, 1), b(B, 1), c_in)
  IN  [S |-> s(b(A, 1), b(B, 1), c_in) + 2 * s(b(A, 2), b(B, 2), c1),
       c_out |-> c(b(A, 2), b(B, 2), c1)]

\* ripple_adder: A + Din in mode 0, A - Din (inverted, with a carry in) in mode
\* 1.  The ninth adder adds the sign bits again, so Sum keeps its sign.
ripple_adder(A, Din, mode) ==
  LET x(weight) == b(A, weight)
      y(weight) == IF mode = 1 THEN 1 - b(Din, weight) ELSE b(Din, weight)
      carr0 == c(x(1), y(1), mode)
      carr1 == c(x(2), y(2), carr0)
      carr2 == c(x(4), y(4), carr1)
      carr3 == c(x(8), y(8), carr2)
      carr4 == c(x(16), y(16), carr3)
      carr5 == c(x(32), y(32), carr4)
      carr6 == c(x(64), y(64), carr5)
      carr7 == c(x(128), y(128), carr6)
  IN  s(x(1), y(1), mode) + 2 * s(x(2), y(2), carr0) + 4 * s(x(4), y(4), carr1)
      + 8 * s(x(8), y(8), carr2) + 16 * s(x(16), y(16), carr3)
      + 32 * s(x(32), y(32), carr4) + 64 * s(x(64), y(64), carr5)
      + 128 * s(x(128), y(128), carr6) + 256 * s(x(128), y(128), carr7)

-----------------------------------------------------------------------------
\* What a byte stands for where the adders' results are compared with the sums.
Signed(w) == IF w >= 128 THEN w - 256 ELSE w
=============================================================================
