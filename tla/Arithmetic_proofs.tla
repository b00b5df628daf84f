------------------------- MODULE Arithmetic_proofs --------------------------
(***************************************************************************)
(* The adders are exact on every input, the multiplier of lab 5 computes   *)
(* the product of every two signed bytes, added to what A held, and the    *)
(* accumulator of lab 7 adds once per press and shows the sum.             *)
(*                                                                         *)
(* The multiplier: take X and A for a nine-bit signed number.  In each     *)
(* state the low bits of B are the rest of the multiplier, and X, A and    *)
(* the high bits of B the sum of the partial products so far.              *)
(***************************************************************************)
EXTENDS Multiplier, Accumulator, TLAPS

-----------------------------------------------------------------------------
(* The adders *)

Bit == {0, 1}

\* The outputs of full_adder.sv are bits, and together the sum of the inputs.
LEMMA FullAdder ==
  ASSUME NEW x \in Bit, NEW y \in Bit, NEW z \in Bit
  PROVE  /\ s(x, y, z) \in Bit /\ c(x, y, z) \in Bit
         /\ x + y + z = s(x, y, z) + 2 * c(x, y, z)
BY DEF Bit, s, c

\* A byte is the sum of its weighted bits.
LEMMA Bits ==
  ASSUME NEW w \in Byte
  PROVE  /\ b(w, 1) \in Bit /\ b(w, 2) \in Bit /\ b(w, 4) \in Bit /\ b(w, 8) \in Bit
         /\ b(w, 16) \in Bit /\ b(w, 32) \in Bit /\ b(w, 64) \in Bit /\ b(w, 128) \in Bit
         /\ w = b(w, 1) + 2 * b(w, 2) + 4 * b(w, 4) + 8 * b(w, 8) + 16 * b(w, 16)
                + 32 * b(w, 32) + 64 * b(w, 64) + 128 * b(w, 128)
BY SMTT(60) DEF Byte, Bit, b

\* The two-bit adder: sum and carry out together are the sum (adder2.sv:1-9).
THEOREM Adder2Exact ==
  ASSUME NEW u \in {w \in Nat : w <= 3}, NEW v \in {w \in Nat : w <= 3}, NEW c_in \in Bit
  PROVE  adder2(u, v, c_in).S + 4 * adder2(u, v, c_in).c_out = u + v + c_in
<1> DEFINE a0 == b(u, 1)  a1 == b(u, 2)  b0 == b(v, 1)  b1 == b(v, 2)
           c1 == c(a0, b0, c_in)
<1>1. a0 \in Bit /\ a1 \in Bit /\ b0 \in Bit /\ b1 \in Bit
      /\ u = a0 + 2 * a1 /\ v = b0 + 2 * b1
  BY DEF b, Bit
<1>2. adder2(u, v, c_in) = [S |-> s(a0, b0, c_in) + 2 * s(a1, b1, c1), c_out |-> c(a1, b1, c1)]
  BY DEF adder2
<1>3. c1 \in Bit /\ s(a0, b0, c_in) \in Bit /\ a0 + b0 + c_in = s(a0, b0, c_in) + 2 * c1
  BY <1>1, FullAdder
<1> HIDE DEF a0, a1, b0, b1, c1
<1>4. c(a1, b1, c1) \in Bit /\ s(a1, b1, c1) \in Bit
      /\ a1 + b1 + c1 = s(a1, b1, c1) + 2 * c(a1, b1, c1)
  BY <1>1, <1>3, FullAdder
<1> DEFINE s0 == s(a0, b0, c_in)  s1 == s(a1, b1, c1)  c2 == c(a1, b1, c1)
<1>5. adder2(u, v, c_in).S = s0 + 2 * s1 /\ adder2(u, v, c_in).c_out = c2
  BY <1>2
<1>6. s0 \in Bit /\ s1 \in Bit /\ c2 \in Bit
      /\ a0 + b0 + c_in = s0 + 2 * c1 /\ a1 + b1 + c1 = s1 + 2 * c2
  BY <1>3, <1>4
<1> HIDE DEF s0, s1, c2
<1>7. (s0 + 2 * s1) + 4 * c2 = u + v + c_in
  BY <1>1, <1>3, <1>6 DEF Bit
<1> QED BY <1>5, <1>7

\* The nine bits of lab 5's adder are the exact sum or difference of the two
\* signed bytes, -128 - (-128) included (ripple_adder.sv:7-30).
THEOREM RippleAdderExact ==
  ASSUME NEW u \in Byte, NEW d \in Byte, NEW m \in Bit
  PROVE  ripple_adder(u, d, m) =
           (IF m = 1 THEN Signed(u) - Signed(d) ELSE Signed(u) + Signed(d)) % 512
<1> DEFINE x(weight) == b(u, weight)
           y(weight) == IF m = 1 THEN 1 - b(d, weight) ELSE b(d, weight)
           x0 == x(1)  x1 == x(2)  x2 == x(4)  x3 == x(8)
           x4 == x(16)  x5 == x(32)  x6 == x(64)  x7 == x(128)
           y0 == y(1)  y1 == y(2)  y2 == y(4)  y3 == y(8)
           y4 == y(16)  y5 == y(32)  y6 == y(64)  y7 == y(128)
           c0 == c(x0, y0, m)  c1 == c(x1, y1, c0)  c2 == c(x2, y2, c1)
           c3 == c(x3, y3, c2)  c4 == c(x4, y4, c3)  c5 == c(x5, y5, c4)
           c6 == c(x6, y6, c5)  c7 == c(x7, y7, c6)  c8 == c(x7, y7, c7)
           s0 == s(x0, y0, m)  s1 == s(x1, y1, c0)  s2 == s(x2, y2, c1)
           s3 == s(x3, y3, c2)  s4 == s(x4, y4, c3)  s5 == s(x5, y5, c4)
           s6 == s(x6, y6, c5)  s7 == s(x7, y7, c6)  s8 == s(x7, y7, c7)
           Y == y0 + 2 * y1 + 4 * y2 + 8 * y3 + 16 * y4 + 32 * y5 + 64 * y6 + 128 * y7
<1>1. /\ x0 \in Bit /\ x1 \in Bit /\ x2 \in Bit /\ x3 \in Bit
      /\ x4 \in Bit /\ x5 \in Bit /\ x6 \in Bit /\ x7 \in Bit
      /\ u = x0 + 2 * x1 + 4 * x2 + 8 * x3 + 16 * x4 + 32 * x5 + 64 * x6 + 128 * x7
  BY Bits
\* The bits of Din, inverted for a subtraction: together Din or 255 - Din.
<1>2. /\ y0 \in Bit /\ y1 \in Bit /\ y2 \in Bit /\ y3 \in Bit
      /\ y4 \in Bit /\ y5 \in Bit /\ y6 \in Bit /\ y7 \in Bit
      /\ Y = IF m = 1 THEN 255 - d ELSE d
  <2> DEFINE d0 == b(d, 1)  d1 == b(d, 2)  d2 == b(d, 4)  d3 == b(d, 8)
             d4 == b(d, 16)  d5 == b(d, 32)  d6 == b(d, 64)  d7 == b(d, 128)
  <2>1. /\ d0 \in Bit /\ d1 \in Bit /\ d2 \in Bit /\ d3 \in Bit
        /\ d4 \in Bit /\ d5 \in Bit /\ d6 \in Bit /\ d7 \in Bit
        /\ d = d0 + 2 * d1 + 4 * d2 + 8 * d3 + 16 * d4 + 32 * d5 + 64 * d6 + 128 * d7
    BY Bits
  <2> HIDE DEF d0, d1, d2, d3, d4, d5, d6, d7
  <2> QED BY <2>1 DEF Bit, d0, d1, d2, d3, d4, d5, d6, d7
<1>3. ripple_adder(u, d, m) =
        s0 + 2 * s1 + 4 * s2 + 8 * s3 + 16 * s4 + 32 * s5 + 64 * s6 + 128 * s7 + 256 * s8
  BY Zenon DEF ripple_adder
<1> HIDE DEF x, y, x0, x1, x2, x3, x4, x5, x6, x7, y0, y1, y2, y3, y4, y5, y6, y7
<1>4. c0 \in Bit /\ s0 \in Bit /\ x0 + y0 + m = s0 + 2 * c0
  BY <1>1, <1>2, FullAdder
<1>5. c1 \in Bit /\ s1 \in Bit /\ x1 + y1 + c0 = s1 + 2 * c1
  BY <1>1, <1>2, <1>4, FullAdder
<1>6. c2 \in Bit /\ s2 \in Bit /\ x2 + y2 + c1 = s2 + 2 * c2
  BY <1>1, <1>2, <1>5, FullAdder
<1>7. c3 \in Bit /\ s3 \in Bit /\ x3 + y3 + c2 = s3 + 2 * c3
  BY <1>1, <1>2, <1>6, FullAdder
<1>8. c4 \in Bit /\ s4 \in Bit /\ x4 + y4 + c3 = s4 + 2 * c4
  BY <1>1, <1>2, <1>7, FullAdder
<1>9. c5 \in Bit /\ s5 \in Bit /\ x5 + y5 + c4 = s5 + 2 * c5
  BY <1>1, <1>2, <1>8, FullAdder
<1>10. c6 \in Bit /\ s6 \in Bit /\ x6 + y6 + c5 = s6 + 2 * c6
  BY <1>1, <1>2, <1>9, FullAdder
<1>11. c7 \in Bit /\ s7 \in Bit /\ x7 + y7 + c6 = s7 + 2 * c7
  BY <1>1, <1>2, <1>10, FullAdder
<1>12. c8 \in Bit /\ s8 \in Bit /\ x7 + y7 + c7 = s8 + 2 * c8
  BY <1>1, <1>2, <1>11, FullAdder
<1> DEFINE nine == s0 + 2 * s1 + 4 * s2 + 8 * s3 + 16 * s4 + 32 * s5 + 64 * s6 + 128 * s7 + 256 * s8
<1> HIDE DEF c0, c1, c2, c3, c4, c5, c6, c7, c8, s0, s1, s2, s3, s4, s5, s6, s7, s8
\* The carries cancel but for that out of the ninth adder.
<1>13. /\ nine \in Int /\ 0 <= nine /\ nine < 512
       /\ nine = u + Y + m + 256 * x7 + 256 * y7 - 512 * c8
  <2>1. s0 + 2 * s1 + 4 * s2 + 8 * s3 =
          x0 + 2 * x1 + 4 * x2 + 8 * x3 + y0 + 2 * y1 + 4 * y2 + 8 * y3 + m - 16 * c3
    BY <1>1, <1>2, <1>4, <1>5, <1>6, <1>7 DEF Bit
  <2>2. s4 + 2 * s5 + 4 * s6 + 8 * s7 =
          x4 + 2 * x5 + 4 * x6 + 8 * x7 + y4 + 2 * y5 + 4 * y6 + 8 * y7 + c3 - 16 * c7
    BY <1>1, <1>2, <1>7, <1>8, <1>9, <1>10, <1>11 DEF Bit
  <2>3. s8 = x7 + y7 + c7 - 2 * c8
    BY <1>1, <1>2, <1>11, <1>12 DEF Bit
  <2>4. nine = u + Y + m + 256 * x7 + 256 * y7 - 512 * c8
    BY <1>1, <1>2, <1>4, <1>5, <1>6, <1>7, <1>8, <1>9, <1>10, <1>11, <1>12, <2>1, <2>2, <2>3
    DEF Bit, Y
  <2>5. nine \in Int /\ 0 <= nine /\ nine < 512
    BY <1>4, <1>5, <1>6, <1>7, <1>8, <1>9, <1>10, <1>11, <1>12 DEF Bit
  <2>. QED
    BY <2>4, <2>5
<1>14. x7 = (IF u >= 128 THEN 1 ELSE 0) /\ y7 = (IF Y >= 128 THEN 1 ELSE 0)
  BY <1>1, <1>2 DEF Bit, Y
<1> HIDE DEF nine, Y
<1>15. u + Y + m + 256 * x7 + 256 * y7 =
         (IF m = 1 THEN Signed(u) - Signed(d) ELSE Signed(u) + Signed(d))
         + 512 * (IF m = 1 THEN x7 + y7 ELSE x7 + y7)
  BY <1>2, <1>14 DEF Signed, Byte, Bit
<1> QED BY <1>3, <1>13, <1>15, <1>12, <1>1, <1>2 DEF nine, Bit, Signed, Byte

-----------------------------------------------------------------------------
(* The multiplier *)

States == AddStates \union ShiftStates \union IdleStates \union {"Clear", "Subtract"}

TypeOK ==
  /\ curr_state \in States
  /\ X \in Bit /\ A \in Byte /\ B \in Byte /\ Din \in Byte
  /\ operands \in [A : Byte, B : Byte, S : Byte]

\* The weight of the next bit of the multiplier.
Weight ==
  [Add1 |-> 1, Shift1 |-> 1, Add2 |-> 2, Shift2 |-> 2, Add3 |-> 4, Shift3 |-> 4,
   Add4 |-> 8, Shift4 |-> 8, Add5 |-> 16, Shift5 |-> 16, Add6 |-> 32, Shift6 |-> 32,
   Add7 |-> 64, Shift7 |-> 64, Subtract |-> 128, Shift8 |-> 128, Halt1 |-> 256,
   Halt2 |-> 256]
Place == Weight[curr_state]

\* The low bits of B are those of the multiplier that have not been shifted out.
Aligned == B % (256 \div Place) = operands.B \div Place

\* The sum of the partial products, of which the high bits of B are the low end.
Total == Place * (A - 256 * X) + B \div (256 \div Place)

\* The part of the multiplier that is in the sum.
Seen ==
  IF curr_state \in AddStates \union {"Subtract"} THEN operands.B % Place
  ELSE IF curr_state \in {"Shift8", "Halt1", "Halt2"} THEN Signed(operands.B)
  ELSE operands.B % (2 * Place)

\* What the registers hold from the first addition to the next start or load.
Progress ==
  /\ Busy => Din = operands.S
  /\ Busy \/ curr_state \in {"Halt1", "Halt2"} =>
       Aligned /\ Total = Signed(operands.A) + Signed(operands.S) * Seen

IInv == TypeOK /\ SignKept /\ Progress

-----------------------------------------------------------------------------
(* The arithmetic of a step *)

Weights == {1, 2, 4, 8, 16, 32, 64}
\* The adder's nine bits, as a signed number, are the sum or the difference.
LEMMA SumValue ==
  ASSUME NEW a \in Byte, NEW d \in Byte, NEW m \in Bit
  PROVE  LET r == ripple_adder(a, d, m)
         IN  /\ r \div 256 \in Bit /\ r % 256 \in Byte
             /\ (r % 256) - 256 * (r \div 256) =
                  IF m = 1 THEN Signed(a) - Signed(d) ELSE Signed(a) + Signed(d)
<1> DEFINE e == IF m = 1 THEN Signed(a) - Signed(d) ELSE Signed(a) + Signed(d)
           r == ripple_adder(a, d, m)
<1>1. r = e % 512
  BY RippleAdderExact
<1>2. e \in Int /\ -256 <= e /\ e <= 255
  BY DEF Byte, Signed, Bit
<1> HIDE DEF e, r
<1>3. r = IF e < 0 THEN e + 512 ELSE e
  BY <1>1, <1>2
<1>4. /\ r \div 256 \in Bit /\ r % 256 \in Byte
      /\ (r % 256) - 256 * (r \div 256) = e
  BY <1>2, <1>3 DEF Bit, Byte
<1> QED BY <1>4 DEF e, r

\* A bit of the multiplier adds its weight to the part that has been seen.
LEMMA NextBit ==
  ASSUME NEW w \in Weights, NEW b1 \in Byte, NEW b0 \in Byte,
         b1 % (256 \div w) = b0 \div w
  PROVE  b0 % (2 * w) = (b0 % w) + IF b1 % 2 = 1 THEN w ELSE 0
<1> USE DEF Byte
<1>1. CASE w = 1  BY <1>1
<1>2. CASE w = 2  BY <1>2
<1>3. CASE w = 4  BY <1>3
<1>4. CASE w = 8  BY <1>4
<1>5. CASE w = 16  BY <1>5
<1>6. CASE w = 32  BY <1>6
<1>7. CASE w = 64  BY <1>7
<1> QED BY <1>1, <1>2, <1>3, <1>4, <1>5, <1>6, <1>7 DEF Weights

\* The last bit is the sign: it counts -128.
LEMMA SignBit ==
  ASSUME NEW b1 \in Byte, NEW b0 \in Byte, b1 % 2 = b0 \div 128
  PROVE  Signed(b0) = (b0 % 128) - IF b1 % 2 = 1 THEN 128 ELSE 0
BY DEF Byte, Signed

\* A shift moves the three registers one place down together.
LEMMA ShiftArith ==
  ASSUME NEW w \in Weights \union {128}, NEW x \in Bit, NEW a \in Byte,
         NEW b1 \in Byte, NEW b0 \in Byte, b1 % (256 \div w) = b0 \div w,
         NEW a2, a2 = 128 * x + a \div 2,
         NEW b2, b2 = 128 * (a % 2) + b1 \div 2
  PROVE  /\ a2 \in Byte /\ b2 \in Byte /\ x = a2 \div 128
         /\ b2 % (256 \div (2 * w)) = b0 \div (2 * w)
         /\ 2 * w * (a2 - 256 * x) + b2 \div (256 \div (2 * w)) =
              w * (a - 256 * x) + b1 \div (256 \div w)
<1> USE DEF Byte, Bit
<1>1. CASE w = 1  BY <1>1
<1>2. CASE w = 2  BY <1>2
<1>3. CASE w = 4  BY <1>3
<1>4. CASE w = 8  BY <1>4
<1>5. CASE w = 16  BY <1>5
<1>6. CASE w = 32  BY <1>6
<1>7. CASE w = 64  BY <1>7
<1>8. CASE w = 128  BY <1>8
<1> QED BY <1>1, <1>2, <1>3, <1>4, <1>5, <1>6, <1>7, <1>8 DEF Weights

-----------------------------------------------------------------------------
(* The steps *)

Registers == X \in Bit /\ A \in Byte /\ B \in Byte

\* A shift doubles the weight, an addition leaves it.
LEMMA Places ==
  ASSUME Busy, curr_state' = Successor[curr_state]
  PROVE  /\ curr_state \in AddStates =>
              Place \in Weights /\ Place' = Place /\ curr_state' \in ShiftStates \ {"Shift8"}
         /\ curr_state = "Subtract" =>
              Place = 128 /\ Place' = Place /\ curr_state' = "Shift8"
         /\ curr_state \in ShiftStates \ {"Shift8"} =>
              /\ Place \in Weights /\ Place' = 2 * Place
              /\ curr_state' \in AddStates \union {"Subtract"}
         /\ curr_state = "Shift8" =>
              Place = 128 /\ Place' = 256 /\ curr_state' = "Halt1"
BY DEF Busy, Successor, Place, Weight, Weights, AddStates, ShiftStates

\* An addition, or the subtraction, adds Din at the weight of the next bit.
LEMMA AddStep ==
  ASSUME TypeOK, SignKept, NEW l \in BOOLEAN,
         curr_state \in AddStates \union {"Subtract"}, Place \in Weights \union {128},
         Aligned, register_unit(FALSE, l), operands' = operands, Place' = Place
  PROVE  /\ Registers' /\ Aligned'
         /\ Total' = Total + IF M = 0 THEN 0
                             ELSE IF curr_state = "Subtract" THEN -Place * Signed(Din)
                             ELSE Place * Signed(Din)
<1>1. /\ X' = IF M = 1 THEN Sum \div 256 ELSE X
      /\ A' = IF M = 1 THEN Sum % 256 ELSE A
      /\ B' = B
  BY DEF register_unit, Ld_A, Ld_B, Shift_En, AddStates, ShiftStates
<1>2. M \in Bit /\ mode \in Bit /\ X \in Bit /\ A \in Byte /\ B \in Byte /\ Din \in Byte
      /\ X = A \div 128
  BY DEF TypeOK, SignKept, M, mode, Bit, Byte, AddStates, ShiftStates
<1>3. A - 256 * X = Signed(A) /\ Signed(A) \in Int /\ Signed(Din) \in Int
  BY <1>2 DEF Signed, Byte
<1>4. /\ Sum \div 256 \in Bit /\ Sum % 256 \in Byte
      /\ (Sum % 256) - 256 * (Sum \div 256) =
           IF mode = 1 THEN Signed(A) - Signed(Din) ELSE Signed(A) + Signed(Din)
  BY <1>2, SumValue DEF Sum
<1>5. Registers'
  BY <1>1, <1>2, <1>4 DEF Registers
<1>6. Aligned'
  BY <1>1 DEF Aligned
<1>7. A' - 256 * X' = (A - 256 * X) + IF M = 0 THEN 0
                                      ELSE IF curr_state = "Subtract" THEN -Signed(Din)
                                      ELSE Signed(Din)
  <2>1. CASE M = 0
    BY <2>1, <1>1, <1>2 DEF Bit, Byte
  <2>2. CASE M = 1
    BY <2>2, <1>1, <1>3, <1>4 DEF mode
  <2> QED BY <2>1, <2>2, <1>2 DEF Bit
<1> DEFINE w == Place  v == A - 256 * X  d == Signed(Din)  rest == B \div (256 \div w)
<1>8. v \in Int /\ d \in Int /\ rest \in Int /\ w \in Int
  BY <1>2, <1>3 DEF Bit, Byte, Weights
<1>9. Total = w * v + rest
      /\ Total' = w * (v + IF M = 0 THEN 0 ELSE IF curr_state = "Subtract" THEN -d ELSE d)
                  + rest
  BY <1>1, <1>7 DEF Total
<1> HIDE DEF v, d, rest, w
<1>10. Total' = Total + IF M = 0 THEN 0
                        ELSE IF curr_state = "Subtract" THEN -w * d ELSE w * d
  BY <1>8, <1>9
<1> QED BY <1>5, <1>6, <1>10 DEF d, w

\* A shift leaves the sum what it is and brings the next bit of B up.
LEMMA ShiftStep ==
  ASSUME TypeOK, NEW l \in BOOLEAN, curr_state \in ShiftStates,
         Place \in Weights \union {128}, Aligned,
         register_unit(FALSE, l), operands' = operands, Place' = 2 * Place
  PROVE  Registers' /\ X' = A' \div 128 /\ Aligned' /\ Total' = Total
<1>1. X' = X /\ A' = 128 * X + A \div 2 /\ B' = 128 * (A % 2) + B \div 2
  BY DEF register_unit, Ld_A, Ld_B, Shift_En, AddStates, ShiftStates
<1>2. X \in Bit /\ A \in Byte /\ B \in Byte /\ operands.B \in Byte
  BY DEF TypeOK
<1>3. B % (256 \div Place) = operands.B \div Place
  BY DEF Aligned
<1>4. /\ A' \in Byte /\ B' \in Byte /\ X = A' \div 128
      /\ B' % (256 \div (2 * Place)) = operands.B \div (2 * Place)
      /\ 2 * Place * (A' - 256 * X) + B' \div (256 \div (2 * Place)) =
           Place * (A - 256 * X) + B \div (256 \div Place)
  BY <1>1, <1>2, <1>3, ShiftArith
<1> QED BY <1>1, <1>2, <1>4 DEF Registers, Aligned, Total

-----------------------------------------------------------------------------
(* The invariant *)

LEMMA InitInvariant == Init => IInv
<1> SUFFICES ASSUME Init PROVE IInv
  OBVIOUS
<1>1. curr_state = "Rst" /\ X = 0 /\ A = 0 /\ B = 0 /\ Din \in Byte
      /\ operands = [A |-> 0, B |-> 0, S |-> 0]
  BY SwitchAssumption DEF Init
<1> QED
  BY <1>1 DEF IInv, TypeOK, SignKept, Progress, Busy, States, AddStates, ShiftStates,
       IdleStates, Bit, Byte

\* A reset clears the registers.
LEMMA ResetStep ==
  ASSUME IInv, NEW l \in BOOLEAN, NEW e \in BOOLEAN, PosEdge(TRUE, l, e)
  PROVE  IInv'
<1>1. curr_state' = "Rst" /\ X' = 0 /\ A' = 0 /\ B' = 0
  BY DEF PosEdge, register_unit
<1>2. Din' \in Byte /\ operands' \in [A : Byte, B : Byte, S : Byte]
  BY SwitchAssumption DEF PosEdge, IInv, TypeOK
<1> QED
  BY <1>1, <1>2 DEF IInv, TypeOK, SignKept, Progress, Busy, States, AddStates,
       ShiftStates, IdleStates, Bit, Byte

\* An idle machine keeps its registers, but for a load of B before a start; the
\* step out of Clear records them and begins.
LEMMA IdleStep ==
  ASSUME IInv, NEW l \in BOOLEAN, NEW e \in BOOLEAN, PosEdge(FALSE, l, e),
         curr_state \in IdleStates \union {"Clear"}
  PROVE  IInv'
<1> USE DEF IdleStates
<1>1. X' = X /\ A' = A /\ B' \in Byte /\ (curr_state # "Rst" => B' = B)
  BY DEF PosEdge, register_unit, Ld_A, Ld_B, Shift_En, AddStates, ShiftStates, IInv, TypeOK
<1>2. X \in Bit /\ A \in Byte /\ B \in Byte /\ X = A \div 128
      /\ Din \in Byte /\ Din' \in Byte
  BY SwitchAssumption DEF PosEdge, IInv, TypeOK, SignKept, ShiftStates
<1>3. operands' \in [A : Byte, B : Byte, S : Byte]
  BY <1>2 DEF PosEdge, IInv, TypeOK
<1>4. CASE curr_state = "Clear"
  <2>1. curr_state' = "Add1" /\ Din' = Din /\ operands' = [A |-> A, B |-> B, S |-> Din]
    BY <1>4 DEF PosEdge, next_state, Successor
  <2>2. A - 256 * X = Signed(A) /\ Signed(A) \in Int /\ Signed(Din) \in Int
        /\ B % 256 = B \div 1 /\ B \div 256 = 0
    BY <1>2 DEF Signed, Byte
  <2>3. Place' = 1 /\ Seen' = 0
    BY <1>2, <2>1 DEF Place, Weight, Seen, AddStates, Byte
  <2>4. Aligned' /\ Total' = Signed(operands'.A) + Signed(operands'.S) * Seen'
    BY <1>1, <1>2, <1>4, <2>1, <2>2, <2>3 DEF Aligned, Total
  <2> QED
    BY <1>1, <1>2, <1>3, <2>1, <2>4 DEF IInv, TypeOK, SignKept, Progress, Busy, States,
         AddStates, ShiftStates
<1>5. CASE curr_state \in IdleStates
  <2>1. /\ curr_state' \in {"Rst", "Halt1", "Halt2", "Clear"}
        /\ curr_state' \in {"Halt1", "Halt2"} => curr_state \in {"Halt1", "Halt2"}
        /\ operands' = operands
    BY <1>5 DEF PosEdge, next_state
  <2>2. curr_state' \in {"Halt1", "Halt2"} =>
          Aligned' /\ Total' = Signed(operands'.A) + Signed(operands'.S) * Seen'
    BY <1>1, <2>1 DEF IInv, Progress, Aligned, Total, Place, Weight, Seen, AddStates
  <2> QED
    BY <1>1, <1>2, <1>3, <2>1, <2>2 DEF IInv, TypeOK, SignKept, Progress, Busy, States,
         AddStates, ShiftStates
<1> QED BY <1>4, <1>5

LEMMA BusyStep ==
  ASSUME IInv, NEW l \in BOOLEAN, NEW e \in BOOLEAN, PosEdge(FALSE, l, e), Busy
  PROVE  IInv'
<1>1. /\ TypeOK /\ SignKept /\ Progress /\ Din = operands.S
      /\ register_unit(FALSE, l) /\ operands' = operands /\ Din' = Din
      /\ curr_state' = Successor[curr_state]
      /\ curr_state \notin IdleStates \union {"Clear"}
  BY DEF IInv, Progress, PosEdge, Busy, next_state, AddStates, ShiftStates, IdleStates
<1>2. Din' \in Byte /\ operands' \in [A : Byte, B : Byte, S : Byte] /\ Din' = operands'.S
  BY <1>1 DEF TypeOK
<1> DEFINE S == Signed(operands.S)  a0 == Signed(operands.A)  v == Seen  w == Place
           Summed == Aligned /\ Total = a0 + S * Seen
<1>3. Aligned /\ Total = a0 + S * v /\ S \in Int /\ a0 \in Int /\ S = Signed(Din)
  BY <1>1 DEF Progress, TypeOK, Signed, Byte
<1>4. M \in Bit /\ B \in Byte /\ operands.B \in Byte
  BY <1>1 DEF TypeOK, M, Bit, Byte
<1>5. CASE curr_state \in AddStates
  <2>1. w \in Weights /\ Place' = Place /\ curr_state' \in ShiftStates \ {"Shift8"}
    BY <1>1, <1>5, Places
  <2>2. /\ Registers' /\ Aligned'
        /\ Total' = Total + IF M = 0 THEN 0 ELSE w * S
    BY <1>1, <1>3, <1>5, <2>1, AddStep DEF AddStates
  <2>3. v = operands.B % w /\ v \in Int /\ w \in Int
    BY <1>4, <1>5, <2>1 DEF Seen, Weights, Byte
  <2>4. operands.B % (2 * w) = v + IF M = 1 THEN w ELSE 0
    BY <1>3, <1>4, <2>1, <2>3, NextBit DEF Aligned, M
  <2>5. Seen' = operands.B % (2 * w)
    BY <1>1, <2>1 DEF Seen, AddStates, ShiftStates
  <2> HIDE DEF S, a0, v, w
  <2>6. Total' = a0 + S * (v + IF M = 1 THEN w ELSE 0)
    BY <1>3, <1>4, <2>2, <2>3 DEF Bit
  <2>7. Summed'
    BY <1>1, <2>2, <2>4, <2>5, <2>6 DEF S, a0
  <2> QED
    BY <1>2, <2>1, <2>2, <2>7 DEF IInv, TypeOK, Registers, SignKept, Progress, Busy, States,
         ShiftStates, S, a0
<1>6. CASE curr_state = "Subtract"
  <2>1. Place = 128 /\ Place' = Place /\ curr_state' = "Shift8"
    BY <1>1, <1>6, Places
  <2>2. /\ Registers' /\ Aligned'
        /\ Total' = Total + IF M = 0 THEN 0 ELSE -128 * S
    BY <1>1, <1>3, <1>6, <2>1, AddStep
  <2>3. v = operands.B % 128 /\ v \in Int /\ Seen' = Signed(operands.B)
    BY <1>1, <1>4, <1>6, <2>1 DEF Seen, AddStates, Byte
  <2>4. Signed(operands.B) = v - IF M = 1 THEN 128 ELSE 0
    BY <1>3, <1>4, <2>1, <2>3, SignBit DEF Aligned, M
  <2> HIDE DEF S, a0, v
  <2>5. Total' = a0 + S * (v - IF M = 1 THEN 128 ELSE 0)
    BY <1>3, <1>4, <2>2, <2>3 DEF Bit
  <2>6. Summed'
    BY <1>1, <2>2, <2>3, <2>4, <2>5 DEF S, a0
  <2> QED
    BY <1>2, <2>1, <2>2, <2>6 DEF IInv, TypeOK, Registers, SignKept, Progress, Busy, States,
         ShiftStates, S, a0
<1>7. CASE curr_state \in ShiftStates
  <2>1. /\ Place \in Weights \union {128} /\ Place' = 2 * Place
        /\ curr_state' \in AddStates \union {"Subtract", "Halt1"}
    BY <1>1, <1>7, Places DEF ShiftStates
  <2>2. Registers' /\ X' = A' \div 128 /\ Aligned' /\ Total' = Total
    <3>1. TypeOK /\ Aligned /\ register_unit(FALSE, l) /\ operands' = operands
      BY <1>1, <1>3
    <3>2. Place \in Weights \union {128}
      BY <2>1
    <3>3. Place' = 2 * Place
      BY <2>1
    <3> QED BY ONLY <1>7, <3>1, <3>2, <3>3, ShiftStep, l \in BOOLEAN
  <2>3. Seen' = Seen
    BY <1>1, <1>7, Places DEF Seen, AddStates, ShiftStates
  <2>4. Summed'
    BY <1>1, <1>3, <2>2, <2>3
  <2> QED
    BY <1>2, <2>1, <2>2, <2>4 DEF IInv, TypeOK, Registers, SignKept, Progress, Busy, States,
         AddStates, IdleStates
<1> QED BY <1>5, <1>6, <1>7 DEF Busy

LEMMA NextInvariant == IInv /\ [Next]_vars => IInv'
<1> SUFFICES ASSUME IInv, [Next]_vars PROVE IInv'
  OBVIOUS
<1>1. CASE UNCHANGED vars
  BY <1>1 DEF vars, IInv, TypeOK, SignKept, Progress, Busy, Aligned, Total, Place, Seen
<1>2. ASSUME NEW r \in BOOLEAN, NEW l \in BOOLEAN, NEW e \in BOOLEAN, PosEdge(r, l, e)
      PROVE  IInv'
  <2>1. CASE r
    BY <1>2, <2>1, ResetStep
  <2>2. CASE ~r
    <3>1. PosEdge(FALSE, l, e)
      BY <1>2, <2>2
    <3>2. Busy \/ curr_state \in IdleStates \union {"Clear"}
      BY DEF IInv, TypeOK, States, Busy
    <3> QED BY <3>1, <3>2, BusyStep, IdleStep
  <2> QED BY <2>1, <2>2
<1> QED BY <1>1, <1>2 DEF Next

THEOREM Invariant == Spec => []IInv
BY InitInvariant, NextInvariant, PTL DEF Spec

\* The sign flip-flop is never stale when a shift uses it (Register_unit.sv:16-22).
THEOREM SignIsKept == Spec => []SignKept
<1>1. IInv => SignKept
  BY DEF IInv
<1> QED BY <1>1, Invariant, PTL

\* For all switch words, any number of multiplications, loads and resets: when
\* the machine stops it holds the exact signed product plus what A held, and keeps
\* it to the next start or load
\* (Control.sv:24-46, Register_unit.sv, ripple_adder.sv).
THEOREM ProductExact == Spec => []MultiplyAccumulate
<1>1. IInv => MultiplyAccumulate
  <2> SUFFICES ASSUME IInv, curr_state \in {"Halt1", "Halt2"} PROVE
        AB = Signed(operands.B) * Signed(operands.S) + Signed(operands.A)
    BY DEF MultiplyAccumulate
  <2>1. X \in Bit /\ A \in Byte /\ B \in Byte /\ operands.A \in Byte /\ operands.B \in Byte
        /\ operands.S \in Byte
    BY DEF IInv, TypeOK
  <2>2. A - 256 * X = Signed(A) /\ B \div (256 \div 256) = B
    BY <2>1 DEF IInv, SignKept, ShiftStates, Signed, Byte
  <2>3. 256 * (A - 256 * X) + B \div (256 \div 256) =
          Signed(operands.A) + Signed(operands.S) * Signed(operands.B)
    BY DEF IInv, Progress, Total, Seen, Place, Weight, AddStates
  <2>4. Signed(A) \in Int /\ Signed(operands.A) \in Int /\ Signed(operands.B) \in Int
        /\ Signed(operands.S) \in Int
    BY <2>1 DEF Signed, Byte
  <2>5. Signed(operands.S) * Signed(operands.B) = Signed(operands.B) * Signed(operands.S)
    BY <2>4
  <2> QED BY <2>1, <2>2, <2>3, <2>4, <2>5 DEF AB, Byte
<1> QED BY <1>1, Invariant, PTL

-----------------------------------------------------------------------------
(* The accumulator *)

\* While the program polls (main.c:34-38), a key that is down went down after
\* the last addition: it left main.c:41 with the key up.
Polling == pc \in {34, 35, 38} /\ accumulateDown => unanswered

AccumulatorIInv ==
  /\ pc \in {34, 35, 38, 39, 40, 41}
  /\ resetDown \in BOOLEAN /\ accumulateDown \in BOOLEAN /\ unanswered \in BOOLEAN
  /\ Polling
  /\ OneAddPerPress
  /\ ShowsSum

LEMMA AccumulatorStarts == AccumulatorInit => AccumulatorIInv
<1> SUFFICES ASSUME AccumulatorInit PROVE AccumulatorIInv
  OBVIOUS
<1>1. /\ pc = 34 /\ val = LED
      /\ ~accumulateDown /\ resetDown \in BOOLEAN /\ accumulateDown \in BOOLEAN
      /\ unanswered \in BOOLEAN
  BY Zenon DEF AccumulatorInit
<1> QED BY <1>1 DEF AccumulatorIInv, Polling, OneAddPerPress, ShowsSum

LEMMA AccumulatorInductive == AccumulatorIInv /\ [AccumulatorNext]_accumulatorVars => AccumulatorIInv'
<1> SUFFICES ASSUME AccumulatorIInv, [AccumulatorNext]_accumulatorVars PROVE AccumulatorIInv'
  OBVIOUS
<1> USE DEF AccumulatorIInv, Polling, OneAddPerPress, ShowsSum, userVars
<1>1. CASE TestReset
  BY <1>1 DEF TestReset
<1>2. CASE ClearVal
  BY <1>2 DEF ClearVal
<1>3. CASE TestAccumulate
  BY <1>3 DEF TestAccumulate
<1>4. CASE Add
  <2>1. ~unanswered' /\ unanswered' \in BOOLEAN
    BY <1>4, Zenon DEF Add
  <2>2. pc' = 40 /\ resetDown' \in BOOLEAN /\ accumulateDown' \in BOOLEAN
    BY <1>4, Zenon DEF Add
  <2> QED BY <2>1, <2>2
<1>5. CASE Show
  BY <1>5 DEF Show
<1>6. CASE WaitForRelease
  BY <1>6 DEF WaitForRelease
<1>7. CASE PushReset
  BY <1>7 DEF PushReset
<1>8. CASE PushAccumulate
  BY <1>8 DEF PushAccumulate
<1>9. CASE SetSwitches
  BY <1>9 DEF SetSwitches
<1>10. CASE UNCHANGED accumulatorVars
  BY <1>10 DEF accumulatorVars
<1> QED BY <1>1, <1>2, <1>3, <1>4, <1>5, <1>6, <1>7, <1>8, <1>9, <1>10 DEF AccumulatorNext, Processor

THEOREM AccumulatorInvariant == AccumulatorSpec => []AccumulatorIInv
BY AccumulatorStarts, AccumulatorInductive, PTL DEF AccumulatorSpec

\* However the key bounces between the polls, an addition answers a press that
\* no earlier one answered (main.c:38-42).
THEOREM OneAddPerPressHolds == AccumulatorSpec => []OneAddPerPress
<1>1. AccumulatorIInv => OneAddPerPress
  BY DEF AccumulatorIInv
<1> QED BY <1>1, AccumulatorInvariant, PTL

\* The display shows the sum but for the moment between the addition and its
\* store to the port (main.c:39-40).
THEOREM ShowsSumHolds == AccumulatorSpec => []ShowsSum
<1>1. AccumulatorIInv => ShowsSum
  BY DEF AccumulatorIInv
<1> QED BY <1>1, AccumulatorInvariant, PTL
=============================================================================
