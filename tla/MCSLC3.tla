------------------------------- MODULE MCSLC3 -------------------------------
(***************************************************************************)
(* Small instances of the clocked SLC-3.  Every image is a short program   *)
(* that loops, so the state space is finite without a bound on the run.    *)
(***************************************************************************)
EXTENDS SLC3Refinement, Sequences

MCMemSize == 16

\* A memory image: the words of a sequence, then zeros.
ImageOf(words) ==
  [c \in Cell |-> IF c < Len(words) THEN words[c + 1] ELSE 0]

\* Results of each sign, every branch condition, the ALU, a pause, and a
\* branch back to cell 0.
ArithmeticImages ==
  { ImageOf(<<opADDi(1, 0, a), opBR(condition, 1), opNOT(2, 1), opAND(2, 2, 1),
              opADD(3, 2, 1), opPSE(2049), opBR(7, -7)>>) :
      a \in {-16, 0, 15}, condition \in 0..7 }

\* A switch word is displayed, stored over the word two cells ahead, read
\* back through the cell xFFFF folds onto, and executed.
MemoryImage ==
  ImageOf(<<opLDR(1, 0, inSW), opSTR(1, 0, outHEX), opSTR(1, 0, 4),
            opLDR(2, 0, 15), NO_OP, opSTR(0, 0, 4), opLDR(3, 0, 4),
            opBR(7, -8)>>)

\* A call and a return, a call with bit 11 off (the link is R3), and an
\* opcode the ISDU does not know.
CallImage ==
  ImageOf(<<opJSR(2), 32768, opBR(7, 1), opRET, opJSR(1) - 2048 + 3 * 512,
            opPSE(7), opJMP(3), opBR(7, -8)>>)

\* A jump to xFFFF executes what the switches show, then wraps to cell 0.
SwitchFetchImage ==
  ImageOf(<<opADDi(1, 0, -1), opAND(3, 3, 0), opJMP(1)>>)

\* Every pair of these instructions one after the other, between code that
\* sets the registers they use and a branch back to cell 0.
Body == {opADD(1, 1, 2), opADDi(2, 1, -1), opAND(1, 2, 3), opNOT(3, 2),
         opLDR(2, 0, inSW), opLDR(1, 3, 2), opSTR(2, 0, outHEX), opSTR(1, 3, 4),
         opSTR(3, 0, 13), opBR(1, 0), opBR(6, 1), opJSR(0), opPSE(1025), 8192}
PairImages ==
  { ImageOf(<<opANDi(1, 0, 0), opADDi(2, 0, 7), opADDi(3, 0, 10), x, y,
              NO_OP, opBR(7, -7)>>) : x, y \in Body }

MCImages == PairImages \union ArithmeticImages \union {MemoryImage, CallImage, SwitchFetchImage}
MCSwitches == {0, opPSE(1), opADDi(4, 0, -3)}
=============================================================================
