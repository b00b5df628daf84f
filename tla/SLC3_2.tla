------------------------------- MODULE SLC3_2 -------------------------------
(***************************************************************************)
(* The 16-bit words of the SLC-3: their arithmetic, the instruction fields *)
(* the datapath cuts out of regIR, and the instruction builders of the     *)
(* package SLC3_2.sv that memory_contents.sv writes programs with.         *)
(*                                                                         *)
(* A word is a number up to 65535; a bit is named by its weight.            *)
(***************************************************************************)
EXTENDS Integers

Word == {w \in Nat : w <= 65535}
Register == 0..7
Flags == {"n", "z", "p"}

-----------------------------------------------------------------------------
(* Arithmetic and logic: what ALU.sv and the adders of datapath.sv compute *)

Wrap(x) == x % 65536
Plus(a, b) == Wrap(a + b)
Not(a) == 65535 - a

Bit(w, weight) == (w \div weight) % 2 = 1

And(a, b) ==
  LET B(weight) == IF Bit(a, weight) /\ Bit(b, weight) THEN weight ELSE 0
  IN  B(1) + B(2) + B(4) + B(8) + B(16) + B(32) + B(64) + B(128)
      + B(256) + B(512) + B(1024) + B(2048) + B(4096) + B(8192)
      + B(16384) + B(32768)

\* Faulty variant: no zero flag.
FlagOf_NoZero(w) == IF Bit(w, 32768) THEN "n" ELSE "p"

\* The condition code reg16bitNZP.sv derives from the word on the bus.
FlagOf(w) == IF Bit(w, 32768) THEN "n" ELSE IF w = 0 THEN "z" ELSE "p"

-----------------------------------------------------------------------------
(* Fields of an instruction word *)

Opcode(w) == w \div 4096
Field11_9(w) == (w \div 512) % 8
Field8_6(w) == (w \div 64) % 8
Field2_0(w) == w % 8
IR_5(w) == Bit(w, 32)
IR_11(w) == Bit(w, 2048)
LedVector(w) == w % 4096

\* Sign extension of the low field of w whose first excluded weight is m.
SignExtend(w, m) ==
  Wrap(IF 2 * (w % m) >= m THEN (w % m) - m ELSE w % m)

sign11bit(w) == SignExtend(w, 2048)
sign9bit(w) == SignExtend(w, 512)
sign6bit(w) == SignExtend(w, 64)
sign5bit(w) == SignExtend(w, 32)

\* The flags a BR instruction asks for.
Condition(w) ==
  {f \in Flags : \/ f = "n" /\ Bit(w, 2048)
                 \/ f = "z" /\ Bit(w, 1024)
                 \/ f = "p" /\ Bit(w, 512)}

-----------------------------------------------------------------------------
(* Instruction builders.  An offset or immediate is an integer of which    *)
(* the builder keeps the low bits, as the part select imm5[4:0] does.      *)

op_ADD == 1
op_AND == 5
op_NOT == 9
op_BR  == 0
op_JMP == 12
op_JSR == 4
op_LDR == 6
op_STR == 7
op_PSE == 13

NO_OP == 0
outHEX == -1
inSW == -1

ThreeFields(op, a, b, low) == op * 4096 + a * 512 + b * 64 + low

opCLR(DR) == ThreeFields(op_AND, DR, DR, 32)
opAND(DR, SR1, SR2) == ThreeFields(op_AND, DR, SR1, SR2)
opANDi(DR, SR, imm5) == ThreeFields(op_AND, DR, SR, 32 + (imm5 % 32))
opADD(DR, SR1, SR2) == ThreeFields(op_ADD, DR, SR1, SR2)
opADDi(DR, SR, imm5) == ThreeFields(op_ADD, DR, SR, 32 + (imm5 % 32))
\* Faulty variant: the increment is 0.
opINC_Zero(DR) == opADDi(DR, DR, 0)
opINC(DR) == opADDi(DR, DR, 1)
opDEC(DR) == opADDi(DR, DR, -1)
opNOT(DR, SR) == ThreeFields(op_NOT, DR, SR, 1)
opBR(condition, PCoffset9) == op_BR * 4096 + condition * 512 + (PCoffset9 % 512)
opJMP(BaseR) == ThreeFields(op_JMP, 0, BaseR, 0)
opRET == opJMP(7)
opJSR(PCoffset11) == op_JSR * 4096 + 2048 + (PCoffset11 % 2048)
opLDR(DR, BaseR, offset6) == ThreeFields(op_LDR, DR, BaseR, (offset6 % 64))
opSTR(SR, BaseR, offset6) == ThreeFields(op_STR, SR, BaseR, (offset6 % 64))
opPSE(ledVect12) == op_PSE * 4096 + ledVect12
=============================================================================
