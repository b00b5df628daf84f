-------------------------- MODULE memory_contents ---------------------------
(***************************************************************************)
(* The words memory_contents.sv fills the memory with: the boot code at 0  *)
(* and the test programs the switches choose from, each a sequence of      *)
(* consecutive cells.  A first cell is named after its program.            *)
(***************************************************************************)
EXTENDS SLC3_2, Sequences

n == 4
z == 2
p == 1
np == n + p
nz == n + z
nzp == n + z + p

BootCode == <<opCLR(0), opLDR(1, 0, inSW), opJMP(1)>>

BasicIOTest1 == <<opLDR(1, 0, inSW), opSTR(1, 0, outHEX), opBR(nzp, -3)>>

BasicIOTest2 ==
  <<opPSE(2049), opLDR(1, 0, inSW), opSTR(1, 0, outHEX), opPSE(3074), opBR(nzp, -4)>>

\* The second pause is rewritten each time round, its LED vector one higher.
BasicIOTest3 ==
  <<opPSE(2049), opJSR(0), opLDR(2, 7, 3), opLDR(1, 0, inSW), opSTR(1, 0, outHEX),
    opPSE(3074), opINC(2), opSTR(2, 7, 3), opBR(nzp, -6)>>

XORTest ==
  <<opCLR(0), opPSE(2049), opLDR(1, 0, inSW), opPSE(2050), opLDR(2, 0, inSW),
    opNOT(3, 1), opAND(3, 3, 2), opNOT(3, 3), opNOT(4, 2), opAND(4, 4, 1), opNOT(4, 4),
    opAND(3, 3, 4), opNOT(3, 3), opSTR(3, 0, outHEX), opPSE(1029), opBR(nzp, -15)>>

PlaceHolders == <<NO_OP, NO_OP, NO_OP, NO_OP, NO_OP, NO_OP>>

RunOnceTest ==
  <<opCLR(0), opCLR(1), opJSR(0), opSTR(1, 0, outHEX), opPSE(1025), opINC(1), opRET>>

MultiplierProgram ==
  <<opCLR(0), opJSR(0), opLDR(3, 7, 22), opCLR(4), opCLR(5), opPSE(2049),
    opLDR(1, 0, inSW), opPSE(2050), opLDR(2, 0, inSW),
    \* LOOP DEST
    opADD(5, 5, 5), opAND(7, 3, 1), opBR(z, 1), opADD(5, 5, 2),
    opADDi(4, 4, 0), opBR(p, 2), opNOT(5, 5), opINC(5),
    opINC(4), opADD(1, 1, 1), opADDi(7, 4, -8), opBR(n, -12),
    opSTR(5, 0, outHEX), opPSE(1027), opBR(nzp, -21), 128>>

SortData == <<239, 27, 1, 140, 219, 250, 71, 70, 31, 13, 184, 3, 107, 78, 248, 7>>

SortMenu ==
  <<opCLR(0), opJSR(0), opADDi(6, 7, -16), opADDi(6, 6, -2),
    \* LOOP DEST
    opPSE(1023), opLDR(1, 0, inSW), opBR(z, -3),
    opDEC(1), opBR(np, 2), opJSR(9), opBR(nzp, -7),
    opDEC(1), opBR(np, 2), opJSR(15), opBR(nzp, -11),
    opDEC(1), opBR(np, -13), opJSR(29), opBR(nzp, -15)>>

EntryFunction ==
  <<opCLR(1), opSTR(1, 0, outHEX), opPSE(3073), opLDR(2, 0, inSW), opADD(5, 6, 1),
    opSTR(2, 5, 0), opINC(1), opADDi(3, 1, -16), opBR(n, -8), opRET>>

\* Faulty variant: a swap without the second load of data[j].
SortFunction_LosesData ==
  <<opADDi(1, 0, -16), opADDi(2, 0, 1),
    opADD(3, 6, 2), opLDR(4, 3, -1), opLDR(5, 3, 0), opNOT(5, 5), opADDi(5, 5, 1),
    opADD(5, 4, 5), opBR(nz, 3), NO_OP, opSTR(5, 3, -1), opSTR(4, 3, 0),
    opINC(2), opADD(3, 1, 2), opBR(n, -13), opINC(1), opBR(n, -16), opRET>>
SortFunction ==
  <<opADDi(1, 0, -16), opADDi(2, 0, 1),
    opADD(3, 6, 2), opLDR(4, 3, -1), opLDR(5, 3, 0), opNOT(5, 5), opADDi(5, 5, 1),
    opADD(5, 4, 5), opBR(nz, 3), opLDR(5, 3, 0), opSTR(5, 3, -1), opSTR(4, 3, 0),
    opINC(2), opADD(3, 1, 2), opBR(n, -13), opINC(1), opBR(n, -16), opRET>>

DisplayFunction ==
  <<opCLR(1), opADD(4, 7, 0), opJSR(0), opADD(5, 7, 0), opADD(7, 4, 0),
    opLDR(3, 5, 15), opADDi(2, 0, 8), opADD(2, 2, 2),
    opADD(4, 6, 1), opLDR(4, 4, 0), opSTR(4, 0, outHEX), opPSE(2050),
    opADD(3, 3, 2), opSTR(3, 5, 8), opINC(1), opADDi(4, 1, -16), opBR(n, -9), opRET,
    opPSE(2050)>>

memory_contents ==
  LET words == BootCode \o BasicIOTest1 \o BasicIOTest2 \o BasicIOTest3 \o XORTest
               \o PlaceHolders \o RunOnceTest \o MultiplierProgram \o SortData
               \o SortMenu \o EntryFunction \o SortFunction \o DisplayFunction
  IN  [c \in 0..255 |-> IF c < Len(words) THEN words[c + 1] ELSE 0]

\* First cells: programs the boot code jumps to, then the functions of the sort.
IOTest1At == 3
IOTest2At == 6
IOTest3At == 11
XORAt == 20
MultiplierAt == 49
DataAt == 74
SortMenuAt == 90
EntryAt == 109
SortAt == 119
DisplayAt == 137
=============================================================================
