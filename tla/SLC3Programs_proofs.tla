------------------------ MODULE SLC3Programs_proofs -------------------------
(***************************************************************************)
(* What the test programs of memory_contents.sv show their user, and what  *)
(* the bubble sort does to its data, for every user who chooses one of the *)
(* programs, whatever the words read and however often the machine is      *)
(* reset.                                                                  *)
(*                                                                         *)
(* The invariant follows the program counter: Always says that the code in *)
(* the memory is that of memory_contents.sv (the display function rewrites *)
(* one PSE into another) and that register 0 is zero; one invariant per    *)
(* program says what the registers hold at each instruction, by a loop     *)
(* invariant where there is a loop.  The proof decodes the words once, has *)
(* one lemma per builder for what a step does, and then one case per cell. *)
(***************************************************************************)
EXTENDS SLC3Programs, FiniteSetTheorems, SequenceTheorems, TLAPS

-----------------------------------------------------------------------------
(* The memory *)

\* One sequence after another.
Joins(u, s, t) ==
  /\ u \in Seq(Int) /\ Len(u) = Len(s) + Len(t)
  /\ \A i \in Int : 0 < i /\ i <= Len(s) => u[i] = s[i]
  /\ \A i \in Int : Len(s) < i /\ i <= Len(s) + Len(t) => u[i] = t[i - Len(s)]

\* Concatenation of sequences of words is the joining of them.
LEMMA Join == ASSUME NEW s \in Seq(Int), NEW t \in Seq(Int) PROVE Joins(s \o t, s, t)
<1>1. \A i \in 1..(Len(s) + Len(t)) : (s \o t)[i] = IF i <= Len(s) THEN s[i] ELSE t[i - Len(s)]
  BY ConcatProperties
<1>2. s \o t \in Seq(Int) /\ Len(s \o t) = Len(s) + Len(t) /\ Len(s) \in Nat /\ Len(t) \in Nat
  BY ConcatProperties, LenProperties
<1>. DEFINE u == s \o t
<1>3. u = s \o t
  OBVIOUS
<1>. HIDE DEF u
<1>4. Joins(u, s, t)
  BY <1>1, <1>2, <1>3 DEF Joins
<1>. QED
  BY <1>3, <1>4, Zenon

\* The lengths of the programs.
LEMMA Lengths ==
  /\ BootCode \in Seq(Int) /\ Len(BootCode) = 3
  /\ BasicIOTest1 \in Seq(Int) /\ Len(BasicIOTest1) = 3
  /\ BasicIOTest2 \in Seq(Int) /\ Len(BasicIOTest2) = 5
  /\ BasicIOTest3 \in Seq(Int) /\ Len(BasicIOTest3) = 9
  /\ XORTest \in Seq(Int) /\ Len(XORTest) = 16
  /\ PlaceHolders \in Seq(Int) /\ Len(PlaceHolders) = 6
  /\ RunOnceTest \in Seq(Int) /\ Len(RunOnceTest) = 7
  /\ MultiplierProgram \in Seq(Int) /\ Len(MultiplierProgram) = 25
  /\ SortData \in Seq(Int) /\ Len(SortData) = 16
  /\ SortMenu \in Seq(Int) /\ Len(SortMenu) = 19
  /\ EntryFunction \in Seq(Int) /\ Len(EntryFunction) = 10
  /\ SortFunction \in Seq(Int) /\ Len(SortFunction) = 18
  /\ DisplayFunction \in Seq(Int) /\ Len(DisplayFunction) = 19
<1>. USE DEF opCLR, opAND, opADD, opADDi, opINC, opDEC, opNOT, opBR, opJMP, opRET, opJSR, opLDR,
             opSTR, opPSE, ThreeFields, op_ADD, op_AND, op_NOT, op_BR, op_JMP, op_JSR, op_LDR,
             op_STR, op_PSE, NO_OP, outHEX, inSW, n, z, p, np, nz, nzp
<1>1. BootCode \in Seq(Int) /\ Len(BootCode) = 3
  BY DEF BootCode
<1>2. BasicIOTest1 \in Seq(Int) /\ Len(BasicIOTest1) = 3
  BY DEF BasicIOTest1
<1>3. BasicIOTest2 \in Seq(Int) /\ Len(BasicIOTest2) = 5
  BY DEF BasicIOTest2
<1>4. BasicIOTest3 \in Seq(Int) /\ Len(BasicIOTest3) = 9
  BY DEF BasicIOTest3
<1>5. XORTest \in Seq(Int) /\ Len(XORTest) = 16
  BY DEF XORTest
<1>6. PlaceHolders \in Seq(Int) /\ Len(PlaceHolders) = 6
  BY DEF PlaceHolders
<1>7. RunOnceTest \in Seq(Int) /\ Len(RunOnceTest) = 7
  BY DEF RunOnceTest
<1>8. MultiplierProgram \in Seq(Int) /\ Len(MultiplierProgram) = 25
  BY DEF MultiplierProgram
<1>9. SortData \in Seq(Int) /\ Len(SortData) = 16
  BY DEF SortData
<1>10. SortMenu \in Seq(Int) /\ Len(SortMenu) = 19
  BY DEF SortMenu
<1>11. EntryFunction \in Seq(Int) /\ Len(EntryFunction) = 10
  BY DEF EntryFunction
<1>12. SortFunction \in Seq(Int) /\ Len(SortFunction) = 18
  BY DEF SortFunction
<1>13. DisplayFunction \in Seq(Int) /\ Len(DisplayFunction) = 19
  BY DEF DisplayFunction
<1>. QED
  BY <1>1, <1>2, <1>3, <1>4, <1>5, <1>6, <1>7, <1>8, <1>9, <1>10, <1>11, <1>12, <1>13

\* Each program lies at the cells where its comment in memory_contents.sv says.
LEMMA Placed ==
  /\ \A c \in Int : 0 <= c /\ c < 3 => memory_contents[c] = BootCode[c + 1]
  /\ \A c \in Int : IOTest1At <= c /\ c < IOTest1At + 3 => memory_contents[c] = BasicIOTest1[c - IOTest1At + 1]
  /\ \A c \in Int : IOTest2At <= c /\ c < IOTest2At + 5 => memory_contents[c] = BasicIOTest2[c - IOTest2At + 1]
  /\ \A c \in Int : XORAt <= c /\ c < XORAt + 16 => memory_contents[c] = XORTest[c - XORAt + 1]
  /\ \A c \in Int : MultiplierAt <= c /\ c < MultiplierAt + 25 => memory_contents[c] = MultiplierProgram[c - MultiplierAt + 1]
  /\ \A c \in Int : SortMenuAt <= c /\ c < SortMenuAt + 19 => memory_contents[c] = SortMenu[c - SortMenuAt + 1]
  /\ \A c \in Int : EntryAt <= c /\ c < EntryAt + 10 => memory_contents[c] = EntryFunction[c - EntryAt + 1]
  /\ \A c \in Int : SortAt <= c /\ c < SortAt + 18 => memory_contents[c] = SortFunction[c - SortAt + 1]
  /\ \A c \in Int : DisplayAt <= c /\ c < DisplayAt + 19 => memory_contents[c] = DisplayFunction[c - DisplayAt + 1]
<1>. DEFINE w2 == BootCode \o BasicIOTest1
            w3 == w2 \o BasicIOTest2
            w4 == w3 \o BasicIOTest3
            w5 == w4 \o XORTest
            w6 == w5 \o PlaceHolders
            w7 == w6 \o RunOnceTest
            w8 == w7 \o MultiplierProgram
            w9 == w8 \o SortData
            w10 == w9 \o SortMenu
            w11 == w10 \o EntryFunction
            w12 == w11 \o SortFunction
            w13 == w12 \o DisplayFunction
<1>1. memory_contents = [c \in 0..255 |-> IF c < Len(w13) THEN w13[c + 1] ELSE 0]
  BY Zenon DEF memory_contents
<1>. HIDE DEF w2, w3, w4, w5, w6, w7, w8, w9, w10, w11, w12, w13
<1>2. /\ w2 \in Seq(Int) /\ Len(w2) = 6
      /\ \A i \in Int : 0 < i /\ i <= 3 => w2[i] = BootCode[i]
      /\ \A i \in Int : 3 < i /\ i <= 6 => w2[i] = BasicIOTest1[i - 3]
  <2>1. /\ BootCode \in Seq(Int) /\ Len(BootCode) = 3
        /\ BasicIOTest1 \in Seq(Int) /\ Len(BasicIOTest1) = 3
    BY Lengths
  <2>2. Joins(w2, BootCode, BasicIOTest1)
    BY <2>1, Join, Zenon DEF w2
  <2>. QED
    BY <2>1, <2>2 DEF Joins
<1>3. /\ w3 \in Seq(Int) /\ Len(w3) = 11
      /\ \A i \in Int : 0 < i /\ i <= 6 => w3[i] = w2[i]
      /\ \A i \in Int : 6 < i /\ i <= 11 => w3[i] = BasicIOTest2[i - 6]
  <2>1. /\ w2 \in Seq(Int) /\ Len(w2) = 6
        /\ BasicIOTest2 \in Seq(Int) /\ Len(BasicIOTest2) = 5
    BY <1>2, Lengths
  <2>2. Joins(w3, w2, BasicIOTest2)
    BY <2>1, Join, Zenon DEF w3
  <2>. QED
    BY <2>1, <2>2 DEF Joins
<1>4. /\ w4 \in Seq(Int) /\ Len(w4) = 20
      /\ \A i \in Int : 0 < i /\ i <= 11 => w4[i] = w3[i]
      /\ \A i \in Int : 11 < i /\ i <= 20 => w4[i] = BasicIOTest3[i - 11]
  <2>1. /\ w3 \in Seq(Int) /\ Len(w3) = 11
        /\ BasicIOTest3 \in Seq(Int) /\ Len(BasicIOTest3) = 9
    BY <1>3, Lengths
  <2>2. Joins(w4, w3, BasicIOTest3)
    BY <2>1, Join, Zenon DEF w4
  <2>. QED
    BY <2>1, <2>2 DEF Joins
<1>5. /\ w5 \in Seq(Int) /\ Len(w5) = 36
      /\ \A i \in Int : 0 < i /\ i <= 20 => w5[i] = w4[i]
      /\ \A i \in Int : 20 < i /\ i <= 36 => w5[i] = XORTest[i - 20]
  <2>1. /\ w4 \in Seq(Int) /\ Len(w4) = 20
        /\ XORTest \in Seq(Int) /\ Len(XORTest) = 16
    BY <1>4, Lengths
  <2>2. Joins(w5, w4, XORTest)
    BY <2>1, Join, Zenon DEF w5
  <2>. QED
    BY <2>1, <2>2 DEF Joins
<1>6. /\ w6 \in Seq(Int) /\ Len(w6) = 42
      /\ \A i \in Int : 0 < i /\ i <= 36 => w6[i] = w5[i]
      /\ \A i \in Int : 36 < i /\ i <= 42 => w6[i] = PlaceHolders[i - 36]
  <2>1. /\ w5 \in Seq(Int) /\ Len(w5) = 36
        /\ PlaceHolders \in Seq(Int) /\ Len(PlaceHolders) = 6
    BY <1>5, Lengths
  <2>2. Joins(w6, w5, PlaceHolders)
    BY <2>1, Join, Zenon DEF w6
  <2>. QED
    BY <2>1, <2>2 DEF Joins
<1>7. /\ w7 \in Seq(Int) /\ Len(w7) = 49
      /\ \A i \in Int : 0 < i /\ i <= 42 => w7[i] = w6[i]
      /\ \A i \in Int : 42 < i /\ i <= 49 => w7[i] = RunOnceTest[i - 42]
  <2>1. /\ w6 \in Seq(Int) /\ Len(w6) = 42
        /\ RunOnceTest \in Seq(Int) /\ Len(RunOnceTest) = 7
    BY <1>6, Lengths
  <2>2. Joins(w7, w6, RunOnceTest)
    BY <2>1, Join, Zenon DEF w7
  <2>. QED
    BY <2>1, <2>2 DEF Joins
<1>8. /\ w8 \in Seq(Int) /\ Len(w8) = 74
      /\ \A i \in Int : 0 < i /\ i <= 49 => w8[i] = w7[i]
      /\ \A i \in Int : 49 < i /\ i <= 74 => w8[i] = MultiplierProgram[i - 49]
  <2>1. /\ w7 \in Seq(Int) /\ Len(w7) = 49
        /\ MultiplierProgram \in Seq(Int) /\ Len(MultiplierProgram) = 25
    BY <1>7, Lengths
  <2>2. Joins(w8, w7, MultiplierProgram)
    BY <2>1, Join, Zenon DEF w8
  <2>. QED
    BY <2>1, <2>2 DEF Joins
<1>9. /\ w9 \in Seq(Int) /\ Len(w9) = 90
      /\ \A i \in Int : 0 < i /\ i <= 74 => w9[i] = w8[i]
      /\ \A i \in Int : 74 < i /\ i <= 90 => w9[i] = SortData[i - 74]
  <2>1. /\ w8 \in Seq(Int) /\ Len(w8) = 74
        /\ SortData \in Seq(Int) /\ Len(SortData) = 16
    BY <1>8, Lengths
  <2>2. Joins(w9, w8, SortData)
    BY <2>1, Join, Zenon DEF w9
  <2>. QED
    BY <2>1, <2>2 DEF Joins
<1>10. /\ w10 \in Seq(Int) /\ Len(w10) = 109
       /\ \A i \in Int : 0 < i /\ i <= 90 => w10[i] = w9[i]
       /\ \A i \in Int : 90 < i /\ i <= 109 => w10[i] = SortMenu[i - 90]
  <2>1. /\ w9 \in Seq(Int) /\ Len(w9) = 90
        /\ SortMenu \in Seq(Int) /\ Len(SortMenu) = 19
    BY <1>9, Lengths
  <2>2. Joins(w10, w9, SortMenu)
    BY <2>1, Join, Zenon DEF w10
  <2>. QED
    BY <2>1, <2>2 DEF Joins
<1>11. /\ w11 \in Seq(Int) /\ Len(w11) = 119
       /\ \A i \in Int : 0 < i /\ i <= 109 => w11[i] = w10[i]
       /\ \A i \in Int : 109 < i /\ i <= 119 => w11[i] = EntryFunction[i - 109]
  <2>1. /\ w10 \in Seq(Int) /\ Len(w10) = 109
        /\ EntryFunction \in Seq(Int) /\ Len(EntryFunction) = 10
    BY <1>10, Lengths
  <2>2. Joins(w11, w10, EntryFunction)
    BY <2>1, Join, Zenon DEF w11
  <2>. QED
    BY <2>1, <2>2 DEF Joins
<1>12. /\ w12 \in Seq(Int) /\ Len(w12) = 137
       /\ \A i \in Int : 0 < i /\ i <= 119 => w12[i] = w11[i]
       /\ \A i \in Int : 119 < i /\ i <= 137 => w12[i] = SortFunction[i - 119]
  <2>1. /\ w11 \in Seq(Int) /\ Len(w11) = 119
        /\ SortFunction \in Seq(Int) /\ Len(SortFunction) = 18
    BY <1>11, Lengths
  <2>2. Joins(w12, w11, SortFunction)
    BY <2>1, Join, Zenon DEF w12
  <2>3. w12 \in Seq(Int) /\ Len(w12) = 137
    BY <2>1, <2>2 DEF Joins
  <2>4. \A i \in Int : 0 < i /\ i <= 119 => w12[i] = w11[i]
    BY <2>1, <2>2 DEF Joins
  <2>5. ASSUME NEW i \in Int, 119 < i, i <= 137 PROVE w12[i] = SortFunction[i - 119]
    BY <2>1, <2>2, <2>5 DEF Joins
  <2>. QED
    BY <2>3, <2>4, <2>5
<1>13. /\ w13 \in Seq(Int) /\ Len(w13) = 156
       /\ \A i \in Int : 0 < i /\ i <= 137 => w13[i] = w12[i]
       /\ \A i \in Int : 137 < i /\ i <= 156 => w13[i] = DisplayFunction[i - 137]
  <2>1. /\ w12 \in Seq(Int) /\ Len(w12) = 137
        /\ DisplayFunction \in Seq(Int) /\ Len(DisplayFunction) = 19
    BY <1>12, Lengths
  <2>2. Joins(w13, w12, DisplayFunction)
    BY <2>1, Join, Zenon DEF w13
  <2>. QED
    BY <2>1, <2>2 DEF Joins
<1>14. \A c \in Int : 0 <= c /\ c < 156 => memory_contents[c] = w13[c + 1]
  <2>1. ASSUME NEW c \in Int, 0 <= c, c < 156 PROVE memory_contents[c] = w13[c + 1]
    <3>1. c \in 0..255 /\ c < Len(w13)
      BY <1>13, <2>1
    <3>. QED
      BY <1>1, <3>1, Zenon
  <2>. QED
    BY <2>1
<1>15. \A i \in Int : 0 < i /\ i <= 137 => w13[i] = w12[i]
  BY <1>13
<1>16. \A i \in Int : 0 < i /\ i <= 119 => w13[i] = w11[i]
  BY <1>12, <1>15, SMTT(60)
<1>17. \A i \in Int : 0 < i /\ i <= 109 => w13[i] = w10[i]
  BY <1>11, <1>16
<1>18. \A i \in Int : 0 < i /\ i <= 90 => w13[i] = w9[i]
  BY <1>10, <1>17
<1>19. \A i \in Int : 0 < i /\ i <= 74 => w13[i] = w8[i]
  BY <1>9, <1>18
<1>20. \A i \in Int : 0 < i /\ i <= 49 => w13[i] = w7[i]
  BY <1>8, <1>19
<1>21. \A i \in Int : 0 < i /\ i <= 42 => w13[i] = w6[i]
  BY <1>7, <1>20
<1>22. \A i \in Int : 0 < i /\ i <= 36 => w13[i] = w5[i]
  BY <1>6, <1>21
<1>23. \A i \in Int : 0 < i /\ i <= 20 => w13[i] = w4[i]
  BY <1>5, <1>22
<1>24. \A i \in Int : 0 < i /\ i <= 11 => w13[i] = w3[i]
  BY <1>4, <1>23
<1>25. \A i \in Int : 0 < i /\ i <= 6 => w13[i] = w2[i]
  BY <1>3, <1>24
<1>26. \A c \in Int : 0 <= c /\ c < 3 => memory_contents[c] = BootCode[c + 1]
  BY <1>2, <1>14, <1>25
<1>27. \A c \in Int : IOTest1At <= c /\ c < IOTest1At + 3 => memory_contents[c] = BasicIOTest1[c - IOTest1At + 1]
  BY <1>2, <1>14, <1>25 DEF IOTest1At
<1>28. \A c \in Int : IOTest2At <= c /\ c < IOTest2At + 5 => memory_contents[c] = BasicIOTest2[c - IOTest2At + 1]
  BY <1>3, <1>14, <1>24 DEF IOTest2At
<1>29. \A c \in Int : XORAt <= c /\ c < XORAt + 16 => memory_contents[c] = XORTest[c - XORAt + 1]
  BY <1>5, <1>14, <1>22 DEF XORAt
<1>30. \A c \in Int : MultiplierAt <= c /\ c < MultiplierAt + 25 => memory_contents[c] = MultiplierProgram[c - MultiplierAt + 1]
  BY <1>8, <1>14, <1>19 DEF MultiplierAt
<1>31. \A c \in Int : SortMenuAt <= c /\ c < SortMenuAt + 19 => memory_contents[c] = SortMenu[c - SortMenuAt + 1]
  BY <1>10, <1>14, <1>17 DEF SortMenuAt
<1>32. \A c \in Int : EntryAt <= c /\ c < EntryAt + 10 => memory_contents[c] = EntryFunction[c - EntryAt + 1]
  BY <1>11, <1>14, <1>16 DEF EntryAt
<1>33. \A c \in Int : SortAt <= c /\ c < SortAt + 18 => memory_contents[c] = SortFunction[c - SortAt + 1]
  BY <1>12, <1>14, <1>15 DEF SortAt
<1>34. \A c \in Int : DisplayAt <= c /\ c < DisplayAt + 19 => memory_contents[c] = DisplayFunction[c - DisplayAt + 1]
  <2>1. ASSUME NEW c \in Int, 137 <= c, c < 156 PROVE memory_contents[c] = DisplayFunction[c - 136]
    <3>1. memory_contents[c] = w13[c + 1]
      BY <1>14, <2>1
    <3>2. c + 1 \in Int /\ 137 < c + 1 /\ c + 1 <= 156 /\ (c + 1) - 137 = c - 136
      BY <2>1
    <3>3. \A i \in Int : 137 < i /\ i <= 156 => w13[i] = DisplayFunction[i - 137]
      BY <1>13, SMT
    <3>4. w13[c + 1] = DisplayFunction[(c + 1) - 137]
      BY <3>2, <3>3, SMT
    <3>. QED BY <3>1, <3>2, <3>4
  <2>2. \A c \in Int : 137 <= c /\ c < 156 => memory_contents[c] = DisplayFunction[c - 136]
    BY <2>1, Zenon
  <2>3. \A c \in Int : c - DisplayAt + 1 = c - 136
    BY DEF DisplayAt
  <2>. QED BY <2>2, <2>3 DEF DisplayAt
<1>. QED
  BY <1>26, <1>27, <1>28, <1>29, <1>30, <1>31, <1>32, <1>33, <1>34, Zenon

-----------------------------------------------------------------------------
(* The inductive invariant *)

Programs == {IOTest1At, IOTest2At, XORAt, MultiplierAt, SortMenuAt}

\* The user's first word chooses a program.
ChoosesProgram == plan[1] \in Programs

\* The programs do not change, but for the pause that the display function
\* rewrites: it stays a PSE.
Code ==
  /\ \A cell \in Int : 0 <= cell /\ cell < 74 => M[cell] = memory_contents[cell]
  /\ \A cell \in Int : 90 <= cell /\ cell < 156 /\ cell # 148
                       => M[cell] = memory_contents[cell]
  /\ 55298 <= M[148] /\ M[148] <= 55554

\* The chip holds 256 words, those of memory_contents.sv, and a reset reloads them.
Setting == MemSize = 256 /\ Images = {memory_contents} /\ ReloadOnReset

Always ==
  /\ Setting
  /\ ISATypeOK
  /\ ChoosesProgram
  /\ image = memory_contents
  /\ recent \in Seq(Word) /\ Len(recent) <= 16
  /\ unsorted \in [0..15 -> Word]
  /\ R[0] = 0
  /\ Code
  /\ pc # 0 => cc # {}

BootInv ==
  /\ 0 <= pc /\ pc <= 2
  /\ pc < 2 => turn = 1
  /\ pc = 2 => R[1] = plan[1] /\ 1 <= Len(recent)

Test1Inv == 3 <= pc /\ pc <= 5

EchoInv ==
  /\ 6 <= pc /\ pc <= 10
  /\ pc = 8 => R[1] = Latest(0)
  /\ 9 <= pc => hex = Latest(0)

\* The XOR test: NOT (NOT (NOT x AND y) AND NOT (NOT y AND x)).
OneSide(x, y) == And(Not(x), y)
XorWord(x, y) == Not(And(Not(OneSide(x, y)), Not(OneSide(y, x))))

XORInv ==
  /\ 20 <= pc /\ pc <= 35
  /\ 1 <= Len(recent)
  /\ pc = 23 \/ pc = 24 => R[1] = Latest(0)
  /\ 25 <= pc => 2 <= Len(recent) /\ R[1] = Latest(1) /\ R[2] = Latest(0)
  /\ pc = 26 => R[3] = Not(R[1])
  /\ pc = 27 => R[3] = OneSide(R[1], R[2])
  /\ 28 <= pc /\ pc <= 31 => R[3] = Not(OneSide(R[1], R[2]))
  /\ pc = 29 => R[4] = Not(R[2])
  /\ pc = 30 => R[4] = OneSide(R[2], R[1])
  /\ pc = 31 => R[4] = Not(OneSide(R[2], R[1]))
  /\ pc = 32 => R[3] = And(Not(OneSide(R[1], R[2])), Not(OneSide(R[2], R[1])))
  /\ pc = 33 => R[3] = XorWord(R[1], R[2])
  /\ 34 <= pc => hex = XorWord(R[1], R[2])

\* The multiplier.  Of the low byte of the multiplier a, k bits have been shifted
\* out: the number they are, the first one signed, and the bits that are left.
Power(k) == CASE k = 0 -> 1 [] k = 1 -> 2 [] k = 2 -> 4 [] k = 3 -> 8 [] k = 4 -> 16
              [] k = 5 -> 32 [] k = 6 -> 64 [] k = 7 -> 128 [] OTHER -> 256
Out(k, a) == ((a % 256) \div Power(8 - k)) - (IF k > 0 /\ Bit(a, 128) THEN Power(k) ELSE 0)
Left(k, a) == ((a % 256) % Power(8 - k)) * Power(k)
Digit(w) == IF Bit(w, 128) THEN 1 ELSE 0
Product(factor, word) == Wrap(factor * word)

MultiplierInv ==
  /\ 49 <= pc /\ pc <= 72
  /\ 1 <= Len(recent)
  /\ pc = 51 => R[7] = 51
  /\ 52 <= pc => R[3] = 128
  /\ 53 <= pc /\ pc <= 57 => R[4] = 0
  /\ 54 <= pc /\ pc <= 57 => R[5] = 0
  /\ 56 <= pc /\ pc <= 57 => R[1] = Latest(0)
  /\ 58 <= pc => 2 <= Len(recent) /\ R[2] = Latest(0)
  /\ 58 <= pc /\ pc <= 66 => R[4] <= 7
  /\ 58 <= pc /\ pc <= 66 => R[1] % 256 = Left(R[4], Latest(1))
  /\ pc = 58 => R[5] = Product(Out(R[4], Latest(1)), Latest(0))
  /\ 59 <= pc /\ pc <= 61 => R[5] = Product(2 * Out(R[4], Latest(1)), Latest(0))
  /\ pc = 60 => R[7] = And(128, R[1]) /\ cc = {FlagOf(R[7])}
  /\ pc = 61 => Bit(R[1], 128)
  /\ 62 <= pc /\ pc <= 64 => R[5] = Product(2 * Out(R[4], Latest(1)) + Digit(R[1]), Latest(0))
  /\ pc = 63 => cc = {FlagOf(R[4])}
  /\ 64 <= pc /\ pc <= 65 => R[4] = 0
  /\ pc = 65 => R[5] = Not(Product(Digit(R[1]), Latest(0)))
  /\ pc = 66 => R[5] = Product(Out(R[4] + 1, Latest(1)), Latest(0))
  /\ 67 <= pc /\ pc <= 69 => 1 <= R[4] /\ R[4] <= 8 /\ R[5] = Product(Out(R[4], Latest(1)), Latest(0))
  /\ pc = 67 => R[1] % 256 = Left(R[4] - 1, Latest(1))
  /\ 68 <= pc /\ pc <= 69 => R[1] % 256 = Left(R[4], Latest(1))
  /\ pc = 69 => cc = {FlagOf(Wrap(R[4] - 8))}
  /\ pc = 70 => R[5] = Product(SignedByte(Latest(1)), Latest(0))
  /\ 71 <= pc => hex = Product(SignedByte(Latest(1)), Latest(0))

MenuInv ==
  /\ 90 <= pc /\ pc <= 108
  /\ 1 <= Len(recent)
  /\ pc = 92 => R[7] = 92
  /\ pc = 93 => R[6] = 76
  /\ 94 <= pc => R[6] = DataAt

\* The entry function: the first k data are the last k words read.
Stored(k) == \A i \in Int : 0 <= i /\ i < k => Data[i] = Latest(k - 1 - i)

\* A further word has been read.
OneBehind(k) == \A i \in Int : 0 <= i /\ i < k => Data[i] = Latest(k - i)

EntryInv ==
  /\ 109 <= pc /\ pc <= 118
  /\ R[6] = DataAt /\ R[7] = 100
  /\ 1 <= Len(recent)
  /\ 110 <= pc /\ pc <= 115 => R[1] <= 15 /\ R[1] <= Len(recent)
  /\ 116 <= pc => 1 <= R[1] /\ R[1] <= 16 /\ R[1] <= Len(recent)
  /\ 110 <= pc /\ pc <= 112 => Stored(R[1])
  /\ 113 <= pc /\ pc <= 115 => R[1] < Len(recent)
  /\ 113 <= pc /\ pc <= 114 => OneBehind(R[1])
  /\ 113 <= pc /\ pc <= 114 => R[2] = Latest(0)
  /\ pc = 114 => R[5] = DataAt + R[1]
  /\ pc = 115 => Stored(R[1] + 1)
  /\ 116 <= pc => Stored(R[1])
  /\ pc = 117 => cc = {FlagOf(Wrap(R[1] - 16))}
  /\ pc = 118 => R[1] = 16

\* The sort: how many passes have been made; register 1 counts up from -16.
Pass == IF R[1] = 0 THEN 16 ELSE R[1] - 65520
\* The datum that the pass compares last with the one before it.
LastInPass(i) == IF i = 15 THEN 1 ELSE 15 - i

\* The last i data are in their places.
Tops(d, i) == \A a, b \in Int : 0 <= a /\ a < b /\ b <= 15 /\ 16 - i <= b => d[a] <= d[b]
\* None of the first j data is above the last of them.
Front(d, j) == \A a \in Int : 0 <= a /\ a < j => d[a] <= d[j - 1]

SameWords(d) == \A word \in Word : Count(d, word) = Count(unsorted, word)
Among(d) == \A i \in Int : 0 <= i /\ i <= 15 =>
              \E k \in Int : 0 <= k /\ k <= 15 /\ d[i] = unsorted[k]

\* Register 2 is the datum that is compared with the one before it.
SortPlace ==
  /\ 119 <= pc /\ pc <= 136
  /\ R[6] = DataAt /\ R[7] = 104
  /\ 1 <= Len(recent)
  /\ 120 <= pc /\ pc <= 134 => 0 <= Pass /\ Pass <= 15
  /\ pc = 135 => 1 <= Pass /\ Pass <= 16 /\ cc = {FlagOf(R[1])}
  /\ pc = 136 => Pass = 16
  /\ 121 <= pc /\ pc <= 131 => 1 <= R[2] /\ R[2] <= LastInPass(Pass)
  /\ 132 <= pc /\ pc <= 133 => 2 <= R[2] /\ R[2] <= LastInPass(Pass) + 1
  /\ 122 <= pc /\ pc <= 130 => R[3] = DataAt + R[2]
  /\ 123 <= pc /\ pc <= 129 => R[4] = Data[R[2] - 1]
  /\ pc = 124 => R[5] = Data[R[2]]
  /\ pc = 125 => R[5] = Not(Data[R[2]])
  /\ pc = 126 => R[5] = Wrap(-Data[R[2]])
  /\ pc = 127 => cc = {FlagOf(Wrap(Data[R[2] - 1] - Data[R[2]]))}
  /\ pc = 129 => R[5] = Data[R[2]]
  /\ pc = 133 => cc = {FlagOf(Wrap(R[1] + R[2]))}

SortOrder ==
  /\ 120 <= pc /\ pc <= 133 => Tops(DataInSort, Pass)
  /\ pc = 134 => Tops(DataInSort, Pass + 1)
  /\ 135 <= pc => Tops(DataInSort, Pass)
  /\ 121 <= pc /\ pc <= 129 => Front(DataInSort, R[2])
  /\ 128 <= pc /\ pc <= 129 => Data[R[2] - 1] > Data[R[2]]
  /\ 130 <= pc /\ pc <= 131 => Front(DataInSort, R[2] + 1)
  /\ 132 <= pc /\ pc <= 133 => Front(DataInSort, R[2])

SortInv ==
  /\ SortPlace
  /\ SameWords(DataInSort)
  /\ Among(DataInSort)
  /\ SmallSpread(unsorted) => SortOrder

\* The display function: datum k is to be shown; 140 is where its cells are seen from.
DisplayInv ==
  /\ 137 <= pc /\ pc <= 154
  /\ R[6] = DataAt
  /\ 1 <= Len(recent)
  /\ pc <= 139 \/ 142 <= pc => R[7] = 108
  /\ pc = 140 => R[7] = 140
  /\ 139 <= pc /\ pc <= 141 => R[4] = 108
  /\ 141 <= pc => R[5] = 140
  /\ 138 <= pc /\ pc <= 144 => R[1] = 0
  /\ 145 <= pc /\ pc <= 151 => R[1] <= 15
  /\ 152 <= pc => 1 <= R[1] /\ R[1] <= 16
  /\ (143 <= pc /\ pc <= 149) \/ 152 <= pc => R[3] = 55298 + 16 * R[1]
  /\ 150 <= pc /\ pc <= 151 => R[3] = 55298 + 16 * R[1] + 16
  /\ pc = 144 => R[2] = 8
  /\ 145 <= pc => R[2] = 16
  /\ pc = 146 => R[4] = DataAt + R[1]
  /\ pc = 147 => R[4] = Data[R[1]]
  /\ 148 <= pc /\ pc <= 149 => hex = Data[R[1]]
  /\ pc = 153 => cc = {FlagOf(Wrap(R[1] - 16))}

Where == BootInv \/ Test1Inv \/ EchoInv \/ XORInv \/ MultiplierInv \/ MenuInv \/ EntryInv
         \/ SortInv \/ DisplayInv

IInv == Always /\ Where

-----------------------------------------------------------------------------
(* Words *)

\* A register keeps the low 16 bits of what it is given.
LEMMA WrapWord ==
  /\ \A x \in Int : Wrap(x) \in Word
  /\ \A x \in Int : 0 <= x /\ x <= 65535 => Wrap(x) = x
  BY SMT DEF Word, Wrap

\* The ALU's bitwise and returns a word, whatever its operands are.
LEMMA AndWord == ASSUME NEW a, NEW b PROVE And(a, b) \in Word
<1> DEFINE B(weight) == IF Bit(a, weight) /\ Bit(b, weight) THEN weight ELSE 0
<1>1. \A weight \in Nat : B(weight) \in Nat /\ B(weight) <= weight
  OBVIOUS
<1>2. And(a, b) = B(1) + B(2) + B(4) + B(8) + B(16) + B(32) + B(64) + B(128)
      + B(256) + B(512) + B(1024) + B(2048) + B(4096) + B(8192)
      + B(16384) + B(32768)
  BY DEF And
<1> HIDE DEF B
<1> QED BY <1>1, <1>2, SMT DEF Word

\* A sign-extended field is a word.
LEMMA SignExtendWord ==
  ASSUME NEW w \in Word
  PROVE  sign11bit(w) \in Word /\ sign9bit(w) \in Word /\ sign6bit(w) \in Word /\ sign5bit(w) \in Word
  BY SMT DEF Word, SignExtend, Wrap, sign11bit, sign9bit, sign6bit, sign5bit

\* The register fields of an instruction name registers.
LEMMA FieldRegister ==
  ASSUME NEW w \in Word
  PROVE  /\ Field11_9(w) \in Register
         /\ Field8_6(w) \in Register
         /\ Field2_0(w) \in Register
<1>1. Field11_9(w) \in Register
  BY SMT DEF Word, Register, Field11_9
<1>2. Field8_6(w) \in Register
  BY SMT DEF Word, Register, Field8_6
<1>3. Field2_0(w) \in Register
  BY SMT DEF Word, Register, Field2_0
<1> QED BY <1>1, <1>2, <1>3

\* A word sets one of the three condition codes.
LEMMA FlagOfFlags == \A w : FlagOf(w) \in Flags
  BY DEF FlagOf, Flags

-----------------------------------------------------------------------------
(* Decoding: what the fields of the words that the builders make hold *)

\* What the builders take.
Imm5(imm) == imm \in Int /\ -16 <= imm /\ imm <= 15
Off6(off) == off \in Int /\ -32 <= off /\ off <= 31
Off9(off) == off \in Int /\ -256 <= off /\ off <= 255
Off11(off) == off \in Int /\ 0 <= off /\ off <= 1023
Cond(cond) == cond \in Int /\ 0 <= cond /\ cond <= 7

\* opADD: the opcode, the three registers, and bit 5 off.
LEMMA DecodeADD ==
  ASSUME NEW d \in Register, NEW s \in Register, NEW t \in Register, NEW w, w = opADD(d, s, t)
  PROVE  Opcode(w) = op_ADD /\ Field11_9(w) = d /\ Field8_6(w) = s /\ ~IR_5(w) /\ Field2_0(w) = t
  BY DEF opADD, ThreeFields, op_ADD, Opcode, Field11_9, Field8_6, Field2_0, IR_5, Register, Bit

\* opADDi: bit 5 is on and the immediate is recovered, modulo 2^16.
LEMMA DecodeADDi ==
  ASSUME NEW d \in Register, NEW s \in Register, NEW imm, Imm5(imm), NEW w, w = opADDi(d, s, imm)
  PROVE  /\ Opcode(w) = op_ADD /\ Field11_9(w) = d /\ Field8_6(w) = s /\ IR_5(w)
         /\ sign5bit(w) = Wrap(imm)
  BY DEF Imm5, opADDi, ThreeFields, op_ADD, Opcode, Field11_9, Field8_6, IR_5, sign5bit, SignExtend,
         Wrap, Register, Bit

\* opAND: the opcode, the three registers, and bit 5 off.
LEMMA DecodeAND ==
  ASSUME NEW d \in Register, NEW s \in Register, NEW t \in Register, NEW w, w = opAND(d, s, t)
  PROVE  Opcode(w) = op_AND /\ Field11_9(w) = d /\ Field8_6(w) = s /\ ~IR_5(w) /\ Field2_0(w) = t
  BY DEF opAND, ThreeFields, op_AND, Opcode, Field11_9, Field8_6, Field2_0, IR_5, Register, Bit

\* opCLR: an AND of the register with the immediate 0.
LEMMA DecodeCLR ==
  ASSUME NEW d \in Register, NEW w, w = opCLR(d)
  PROVE  /\ Opcode(w) = op_AND /\ Field11_9(w) = d /\ Field8_6(w) = d /\ IR_5(w)
         /\ sign5bit(w) = 0
  BY DEF opCLR, ThreeFields, op_AND, Opcode, Field11_9, Field8_6, IR_5, sign5bit, SignExtend,
         Wrap, Register, Bit

\* opNOT: the opcode and the two registers.
LEMMA DecodeNOT ==
  ASSUME NEW d \in Register, NEW s \in Register, NEW w, w = opNOT(d, s)
  PROVE  Opcode(w) = op_NOT /\ Field11_9(w) = d /\ Field8_6(w) = s
  BY DEF opNOT, ThreeFields, op_NOT, Opcode, Field11_9, Field8_6, Register

\* opLDR: the opcode, the two registers and the offset, modulo 2^16.
LEMMA DecodeLDR ==
  ASSUME NEW d \in Register, NEW s \in Register, NEW off, Off6(off), NEW w, w = opLDR(d, s, off)
  PROVE  /\ Opcode(w) = op_LDR /\ Field11_9(w) = d /\ Field8_6(w) = s
         /\ sign6bit(w) = Wrap(off)
  BY DEF Off6, opLDR, ThreeFields, op_LDR, Opcode, Field11_9, Field8_6, sign6bit, SignExtend,
         Wrap, Register

\* opSTR: the opcode, the two registers and the offset, modulo 2^16.
LEMMA DecodeSTR ==
  ASSUME NEW d \in Register, NEW s \in Register, NEW off, Off6(off), NEW w, w = opSTR(d, s, off)
  PROVE  /\ Opcode(w) = op_STR /\ Field11_9(w) = d /\ Field8_6(w) = s
         /\ sign6bit(w) = Wrap(off)
  BY DEF Off6, opSTR, ThreeFields, op_STR, Opcode, Field11_9, Field8_6, sign6bit, SignExtend,
         Wrap, Register

\* opBR: bits 11:9 are the condition and the offset is recovered, modulo 2^16.
LEMMA DecodeBR ==
  ASSUME NEW cond, Cond(cond), NEW off, Off9(off), NEW w, w = opBR(cond, off)
  PROVE  /\ Opcode(w) = op_BR
         /\ Bit(w, 2048) <=> cond >= 4
         /\ Bit(w, 1024) <=> cond \in {2, 3, 6, 7}
         /\ Bit(w, 512) <=> cond \in {1, 3, 5, 7}
         /\ sign9bit(w) = Wrap(off)
<1>. USE DEF Cond, Off9
<1>. DEFINE low == off % 512
<1>1. low \in Int /\ 0 <= low /\ low <= 511 /\ low = IF off < 0 THEN off + 512 ELSE off
  OBVIOUS
<1>2. w = cond * 512 + low
  BY DEF opBR, op_BR
<1>. HIDE DEF low
<1>3. Opcode(w) = op_BR
  BY <1>1, <1>2 DEF Opcode, op_BR
<1>4. Bit(w, 2048) <=> cond >= 4
  BY <1>1, <1>2 DEF Bit
<1>5. Bit(w, 1024) <=> cond \in {2, 3, 6, 7}
  BY <1>1, <1>2 DEF Bit
<1>6. Bit(w, 512) <=> cond \in {1, 3, 5, 7}
  BY <1>1, <1>2 DEF Bit
<1>7. w % 512 = low
  BY <1>1, <1>2
<1>8. sign9bit(w) = Wrap(off)
  BY <1>1, <1>7 DEF sign9bit, SignExtend, Wrap
<1>. QED BY <1>3, <1>4, <1>5, <1>6, <1>8

\* opJMP: the opcode and the register of the target.
LEMMA DecodeJMP ==
  ASSUME NEW s \in Register, NEW w, w = opJMP(s)
  PROVE  Opcode(w) = op_JMP /\ Field8_6(w) = s
  BY DEF opJMP, ThreeFields, op_JMP, Opcode, Field8_6, Register

\* opJSR: bit 11 is on and a forward offset is recovered.
LEMMA DecodeJSR ==
  ASSUME NEW off, Off11(off), NEW w, w = opJSR(off)
  PROVE  Opcode(w) = op_JSR /\ IR_11(w) /\ sign11bit(w) = off
  BY DEF Off11, opJSR, op_JSR, Opcode, IR_11, Bit, sign11bit, SignExtend, Wrap

-----------------------------------------------------------------------------
(* What a step does, by the builder of the instruction *)

\* What Always says of the memory and the program counter.
LEMMA AlwaysFacts ==
  ASSUME Always
  PROVE  /\ MemSize = 256
         /\ pc \in Int /\ 0 <= pc
         /\ M \in [Cell -> Word]
  BY DEF Always, Setting, ISATypeOK, Word

\* What Always says of the registers, the display and the condition codes.
LEMMA AlwaysRegisters ==
  ASSUME Always
  PROVE  /\ R \in [Register -> Word] /\ R[0] = 0 /\ hex \in Word
         /\ cc \in SUBSET Flags /\ (pc # 0 => cc # {})
  BY Zenon DEF Always, ISATypeOK

\* What Always says of the history variables.
LEMMA AlwaysHistory ==
  ASSUME Always
  PROVE  /\ recent \in Seq(Word) /\ Len(recent) \in Nat /\ Len(recent) <= 16
         /\ unsorted \in [0..15 -> Word]
<1>1. recent \in Seq(Word) /\ Len(recent) <= 16 /\ unsorted \in [0..15 -> Word]
  BY Zenon DEF Always
<1>2. Len(recent) \in Nat
  BY <1>1, LenProperties
<1>. QED BY <1>1, <1>2, Zenon

\* A cell is read at its own address.
LEMMA Cells ==
  ASSUME Always, NEW a \in Int, 0 <= a, a < 256
  PROVE  a \in Cell /\ CellAt(a) = a /\ M[a] \in Word
<1>1. MemSize = 256
  BY AlwaysFacts
<1>2. a \in Cell /\ CellAt(a) = a
  BY <1>1 DEF Cell, CellAt
<1>3. M \in [Cell -> Word]
  BY AlwaysFacts
<1>. QED BY <1>2, <1>3, Zenon

\* The data are the sixteen words from cell 74.
LEMMA DataCells ==
  ASSUME Always
  PROVE  /\ Data \in [0..15 -> Word]
         /\ \A i \in Int : 0 <= i /\ i <= 15 => Data[i] = M[74 + i]
<1>1. ASSUME NEW i \in 0..15 PROVE M[DataAt + i] \in Word
  BY Cells DEF DataAt
<1>2. Data \in [0..15 -> Word]
  BY <1>1, Zenon DEF Data
<1>3. ASSUME NEW i \in Int, 0 <= i, i <= 15 PROVE Data[i] = M[74 + i]
  <2>1. i \in 0..15
    BY <1>3
  <2>. QED BY <2>1, Zenon DEF Data, DataAt
<1>. QED BY <1>2, <1>3

\* The instruction at pc, and what the user's side of a step keeps.
LEMMA Fetch ==
  ASSUME Always, ExecuteProgram, pc < 255
  PROVE  /\ mode = "running" /\ M[pc] \in Word
         /\ Instruction(M[pc])
         /\ UNCHANGED <<image, plan>>
         /\ IF LoadsSwitches(M[pc]) THEN LoadSwitches(M[pc], turn)
            ELSE turn' = turn /\ recent' = recent
         /\ unsorted' = IF pc' = SortAt /\ Opcode(M[pc]) = op_JSR THEN Data ELSE unsorted
<1>1. /\ pc # IOAddress /\ CellAt(pc) = pc /\ M[pc] \in Word
  BY AlwaysFacts, Cells DEF IOAddress
<1>. QED
  BY <1>1, Zenon DEF ExecuteProgram

\* The opcode chooses the instruction.
LEMMA Chosen ==
  ASSUME NEW w, Instruction(w)
  PROVE  /\ Opcode(w) = op_ADD => ADD(w)
         /\ Opcode(w) = op_AND => AND(w)
         /\ Opcode(w) = op_NOT => NOT(w)
         /\ Opcode(w) = op_LDR => LDR(w)
         /\ Opcode(w) = op_STR => STR(w)
         /\ Opcode(w) = op_BR => BR(w)
         /\ Opcode(w) = op_JMP => JMP(w)
         /\ Opcode(w) = op_JSR => JSR(w)
         /\ Opcode(w) = op_PSE => PSE(w)
  BY DEF Instruction, ADD, AND, NOT, LDR, STR, BR, JMP, JSR, PSE, Unknown, Opcodes,
         op_ADD, op_AND, op_NOT, op_LDR, op_STR, op_BR, op_JMP, op_JSR, op_PSE

\* What no instruction disturbs.
LEMMA LedAndMode ==
  ASSUME Always, NEW w \in Word, Instruction(w)
  PROVE  led' \in Word /\ mode' \in Modes
<1>1. led \in Word /\ mode \in Modes
  BY Zenon DEF Always, ISATypeOK
<1>2. LedVector(w) \in Word
  BY DEF LedVector, Word
<1>3. (led' = led \/ led' = LedVector(w)) /\ (mode' = mode \/ mode' = "press")
  BY Zenon DEF Instruction, ADD, AND, NOT, LDR, STR, BR, JMP, JSR, PSE, Unknown, WriteResult
<1>. QED BY <1>1, <1>2, <1>3, Zenon DEF Modes

\* The word a read of the switches gives is the user's next one, which becomes
\* the latest.
Reads ==
  /\ Latest(0)' = plan[turn]
  /\ Latest(0)' \in Word
  /\ Len(recent') \in Nat /\ 1 <= Len(recent') /\ Len(recent') <= 16
  /\ Len(recent') > Len(recent) \/ Len(recent') = 16
  /\ \A k \in Int : 0 <= k /\ k <= 14 /\ k < Len(recent) => Latest(k + 1)' = Latest(k)

Remembers ==
  recent' = IF Len(recent) < 16 THEN Append(recent, plan[turn])
            ELSE Append(Tail(recent), plan[turn])

\* A read of the switches appends to the last sixteen words read.
LEMMA ReadsRecent ==
  ASSUME recent \in Seq(Word), Len(recent) \in Nat, Len(recent) <= 16, plan[turn] \in Word,
         Remembers
  PROVE  recent' \in Seq(Word) /\ Len(recent') <= 16 /\ Reads
<1>1. CASE Len(recent) < 16
  <2>1. recent' = Append(recent, plan[turn])
    BY <1>1 DEF Remembers
  <2>2. /\ recent' \in Seq(Word) /\ Len(recent') = Len(recent) + 1
        /\ \A i \in 1..Len(recent) : recent'[i] = recent[i]
        /\ recent'[Len(recent) + 1] = plan[turn]
    BY <2>1, AppendProperties
  <2>3. ASSUME NEW k \in Int, 0 <= k, k < Len(recent) PROVE Latest(k + 1)' = Latest(k)
    <3>1. Len(recent) - k \in 1..Len(recent)
      BY <2>3
    <3>2. Len(recent') - (k + 1) = Len(recent) - k
      BY <2>2, <2>3
    <3>. QED BY <2>2, <3>1, <3>2 DEF Latest
  <2>4. Latest(0)' = plan[turn]
    BY <2>2 DEF Latest
  <2>. QED BY <1>1, <2>2, <2>3, <2>4 DEF Reads
<1>2. CASE Len(recent) = 16
  <2>. DEFINE tail == Tail(recent)
  <2>1. recent' = Append(tail, plan[turn])
    BY <1>2 DEF Remembers
  <2>2. /\ tail \in Seq(Word) /\ Len(tail) = Len(recent) - 1
        /\ \A i \in 1..Len(tail) : tail[i] = recent[i + 1]
    <3>1. recent # <<>>
      BY <1>2
    <3>. QED BY <3>1, HeadTailProperties
  <2>. HIDE DEF tail
  <2>3. /\ recent' \in Seq(Word) /\ Len(recent') = Len(tail) + 1
        /\ \A i \in 1..Len(tail) : recent'[i] = tail[i]
        /\ recent'[Len(tail) + 1] = plan[turn]
    BY <2>1, <2>2, AppendProperties
  <2>4. Len(tail) = 15 /\ Len(recent') = 16
    BY <1>2, <2>2, <2>3
  <2>5. ASSUME NEW k \in Int, 0 <= k, k <= 14 PROVE Latest(k + 1)' = Latest(k)
    <3>1. 15 - k \in 1..Len(tail)
      BY <2>4, <2>5
    <3>2. recent'[15 - k] = tail[15 - k] /\ tail[15 - k] = recent[(15 - k) + 1]
      BY <2>2, <2>3, <3>1, Zenon
    <3>3. Len(recent') - (k + 1) = 15 - k /\ Len(recent) - k = (15 - k) + 1
      BY <1>2, <2>4, <2>5
    <3>. QED BY <3>2, <3>3, Zenon DEF Latest
  <2>6. Latest(0)' = plan[turn]
    BY <2>3, <2>4 DEF Latest
  <2>7. \A k \in Int : 0 <= k /\ k <= 14 /\ k < Len(recent) => Latest(k + 1)' = Latest(k)
    BY <2>5
  <2>8. recent' \in Seq(Word) /\ Latest(0)' \in Word
    BY <2>3, <2>6, Zenon
  <2>. HIDE DEF tail
  <2>9. Len(recent') \in Nat /\ 1 <= Len(recent') /\ Len(recent') <= 16
    BY <2>4
  <2>. QED BY <2>4, <2>6, <2>7, <2>8, <2>9, Zenon DEF Reads
<1>3. \A m \in Nat : m <= 16 => m < 16 \/ m = 16
  OBVIOUS
<1>. QED BY <1>1, <1>2, <1>3, Zenon

\* A load from xFFFF writes the user's next word into the register.
LEMMA ReadSwitches ==
  ASSUME Always, ExecuteProgram, pc < 255, LoadsSwitches(M[pc])
  PROVE  /\ WriteResult(M[pc], plan[turn]) /\ plan[turn] \in Word
         /\ recent' \in Seq(Word) /\ Len(recent') <= 16 /\ Reads
<1>. DEFINE w == M[pc]
<1>1. /\ w \in Word /\ Instruction(w) /\ LoadSwitches(w, turn)
  BY Fetch, Zenon
<1>2. Opcode(w) = op_LDR /\ Address(w) = IOAddress
  BY DEF LoadsSwitches
<1>3. PICK value \in Switches : WriteResult(w, value)
  BY <1>1, <1>2, Chosen, Zenon DEF LDR, ReadWords
<1>4. Field11_9(w) \in Register
  BY <1>1, FieldRegister
<1>. HIDE DEF w
<1>5. plan[turn] = value
  <2>1. R' = [R EXCEPT ![Field11_9(w)] = value] /\ R'[Field11_9(w)] = plan[turn]
    BY <1>1, <1>3, Zenon DEF LoadSwitches, WriteResult
  <2>2. R \in [Register -> Word]
    BY AlwaysRegisters
  <2>. QED BY <1>4, <2>1, <2>2
<1>6. plan[turn] \in Word
  BY <1>3, <1>5, SwitchAssumption
<1>7. Remembers
  BY <1>1, Zenon DEF LoadSwitches, Remembers
<1>. QED
  BY <1>3, <1>5, <1>6, <1>7, AlwaysHistory, ReadsRecent, Zenon DEF w

\* Always' from what a step may disturb of it.
LEMMA AlwaysKept ==
  ASSUME Always, ExecuteProgram, pc < 255,
         pc' \in Word, R' \in [Register -> Word], R'[0] = 0, cc' \in SUBSET Flags, cc' # {},
         hex' \in Word, M' \in [Cell -> Word], Code'
  PROVE  Always'
<1>1. led' \in Word /\ mode' \in Modes
  BY Fetch, LedAndMode
<1>2. image' = image /\ plan' = plan
  BY Fetch
<1>3. recent' \in Seq(Word) /\ Len(recent') <= 16
  BY Fetch, ReadSwitches, AlwaysHistory
<1>4. unsorted' \in [0..15 -> Word]
  BY Fetch, AlwaysHistory, DataCells, Zenon
<1>5. Setting /\ image \in Images /\ image = memory_contents /\ ChoosesProgram
  BY Zenon DEF Always, ISATypeOK
<1>6. ISATypeOK'
  BY <1>1, <1>2, <1>5, Zenon DEF ISATypeOK
<1>7. ChoosesProgram' /\ image' = memory_contents
  BY <1>2, <1>5, Zenon DEF ChoosesProgram
<1>8. (pc # 0 => cc # {})'
  OBVIOUS
<1>9. Setting'
  BY <1>5 DEF Setting
<1>. QED BY <1>3, <1>4, <1>6, <1>7, <1>8, <1>9, Zenon DEF Always

\* Only register d changes.
OnlyRegister(d) ==
  /\ d # 1 => R'[1] = R[1]
  /\ d # 2 => R'[2] = R[2]
  /\ d # 3 => R'[3] = R[3]
  /\ d # 4 => R'[4] = R[4]
  /\ d # 5 => R'[5] = R[5]
  /\ d # 6 => R'[6] = R[6]
  /\ d # 7 => R'[7] = R[7]

\* A write of register d leaves the others alone, and register 0 zero.
LEMMA OneRegister ==
  ASSUME Always, NEW d \in Register, NEW value \in Word, R' = [R EXCEPT ![d] = value],
         d # 0 \/ value = 0
  PROVE  R' \in [Register -> Word] /\ R'[0] = 0 /\ R'[d] = value /\ OnlyRegister(d)
<1>1. R \in [Register -> Word] /\ R[0] = 0
  BY AlwaysRegisters
<1>2. R' \in [Register -> Word] /\ R'[d] = value
  BY <1>1
<1>3. ASSUME NEW e \in Register, e # d PROVE R'[e] = R[e]
  BY <1>1, <1>3
<1>4. R'[0] = 0
  <2>1. 0 \in Register
    BY DEF Register
  <2>. QED BY <1>1, <1>2, <1>3, <2>1
<1>5. 1 \in Register /\ 2 \in Register /\ 3 \in Register /\ 4 \in Register /\ 5 \in Register
      /\ 6 \in Register /\ 7 \in Register
  BY DEF Register
<1>6. OnlyRegister(d)
  BY <1>3, <1>5, Zenon DEF OnlyRegister
<1>. QED BY <1>2, <1>4, <1>6

\* The registers and the operands of the instructions.
LEMMA RegisterWord == ASSUME Always, NEW d \in Register PROVE R[d] \in Word
  BY AlwaysRegisters

\* The registers the programs use hold 16-bit words.
LEMMA RegisterRange ==
  ASSUME Always
  PROVE  /\ R[1] \in Int /\ 0 <= R[1] /\ R[1] <= 65535
         /\ R[2] \in Int /\ 0 <= R[2] /\ R[2] <= 65535
         /\ R[3] \in Int /\ 0 <= R[3] /\ R[3] <= 65535
         /\ R[4] \in Int /\ 0 <= R[4] /\ R[4] <= 65535
         /\ R[5] \in Int /\ 0 <= R[5] /\ R[5] <= 65535
         /\ R[6] \in Int /\ 0 <= R[6] /\ R[6] <= 65535
         /\ R[7] \in Int /\ 0 <= R[7] /\ R[7] <= 65535
<1>1. \A d \in Register : R[d] \in Word
  BY RegisterWord
<1>2. 1 \in Register /\ 2 \in Register /\ 3 \in Register /\ 4 \in Register /\ 5 \in Register
      /\ 6 \in Register /\ 7 \in Register
  BY DEF Register
<1>. QED BY <1>1, <1>2, SMT DEF Word

\* Nothing is stored, shown or read.
Quiet == M' = M /\ hex' = hex /\ recent' = recent /\ unsorted' = unsorted /\ turn' = turn

Writes(d, value) ==
  /\ R'[d] = value /\ OnlyRegister(d)
  /\ cc' = {FlagOf(value)}
  /\ pc' = pc + 1

\* Code that is not written does not change.
LEMMA CodeKept == Code /\ M' = M => Code'
  BY DEF Code

\* The program counter does not wrap within a program.
LEMMA NextPc == ASSUME Always, pc < 255 PROVE Next1 = pc + 1 /\ Next1 \in Word /\ pc + 1 \in Word
<1>1. pc \in Int /\ 0 <= pc
  BY AlwaysFacts
<1>. QED BY <1>1 DEF Next1, Plus, Wrap, Word

\* A step that writes a register: what it changes and what it keeps.
LEMMA StepWrite ==
  ASSUME Always, ExecuteProgram, pc < 255, NEW d \in Register, NEW value \in Word,
         Field11_9(M[pc]) = d, WriteResult(M[pc], value), d # 0 \/ value = 0
  PROVE  Always' /\ Writes(d, value) /\ M' = M /\ hex' = hex
<1>1. /\ R' = [R EXCEPT ![d] = value] /\ cc' = {FlagOf(value)} /\ pc' = Next1
      /\ M' = M /\ hex' = hex
  BY Zenon DEF WriteResult
<1>2. R' \in [Register -> Word] /\ R'[0] = 0 /\ R'[d] = value /\ OnlyRegister(d)
  BY <1>1, OneRegister, Zenon
<1>3. cc' \in SUBSET Flags /\ cc' # {}
  BY <1>1, FlagOfFlags
<1>4. pc' \in Word /\ pc' = pc + 1
  BY <1>1, NextPc, Zenon
<1>5. M' \in [Cell -> Word] /\ hex' \in Word
  <2>1. M \in [Cell -> Word]
    BY AlwaysFacts
  <2>2. hex \in Word
    BY AlwaysRegisters
  <2>. QED BY <1>1, <2>1, <2>2, Zenon
<1>6. Code'
  BY <1>1, CodeKept, Zenon DEF Always
<1>7. Always'
  BY <1>2, <1>3, <1>4, <1>5, <1>6, AlwaysKept, Zenon
<1>. QED BY <1>1, <1>2, <1>4, <1>7, Zenon DEF Writes

\* A step that is neither a read of the switches nor a call keeps the history.
LEMMA QuietStep ==
  ASSUME Always, ExecuteProgram, pc < 255, ~LoadsSwitches(M[pc]), Opcode(M[pc]) # op_JSR
  PROVE  recent' = recent /\ unsorted' = unsorted /\ turn' = turn
  BY Fetch, Zenon

\* An instruction has one opcode.
LEMMA Opcodes_differ ==
  ASSUME NEW w
  PROVE  /\ Opcode(w) \in {op_ADD, op_AND, op_NOT, op_STR, op_BR, op_JMP, op_PSE}
            => ~LoadsSwitches(w) /\ Opcode(w) # op_JSR
         /\ Opcode(w) = op_LDR => Opcode(w) # op_JSR
         /\ Opcode(w) = op_JSR => ~LoadsSwitches(w)
  BY DEF LoadsSwitches, op_ADD, op_AND, op_NOT, op_LDR, op_STR, op_BR, op_JMP, op_JSR, op_PSE

\* The step of an ADD of two registers.
LEMMA StepADD ==
  ASSUME Always, ExecuteProgram, pc < 255,
         NEW d \in Register, NEW s \in Register, NEW t \in Register,
         M[pc] = opADD(d, s, t), d # 0
  PROVE  Always' /\ Writes(d, Wrap(R[s] + R[t])) /\ Quiet
<1>. DEFINE w == M[pc]
<1>1. Opcode(w) = op_ADD /\ Field11_9(w) = d /\ Field8_6(w) = s /\ ~IR_5(w) /\ Field2_0(w) = t
  BY DecodeADD, Zenon
<1>2. Instruction(w)
  BY Fetch
<1>3. WriteResult(w, Wrap(R[s] + R[t]))
  BY <1>1, <1>2, Chosen, Zenon DEF ADD, BaseR, SR2, Plus
<1>4. Wrap(R[s] + R[t]) \in Word
  BY RegisterWord, WrapWord DEF Word
<1>5. recent' = recent /\ unsorted' = unsorted /\ turn' = turn
  BY <1>1, Opcodes_differ, QuietStep, Zenon
<1>. QED BY <1>1, <1>3, <1>4, <1>5, StepWrite, Zenon DEF Quiet

\* The step of an ADD of an immediate.
LEMMA StepADDi ==
  ASSUME Always, ExecuteProgram, pc < 255,
         NEW d \in Register, NEW s \in Register, NEW imm, Imm5(imm),
         M[pc] = opADDi(d, s, imm), d # 0
  PROVE  Always' /\ Writes(d, Wrap(R[s] + imm)) /\ Quiet
<1>. DEFINE w == M[pc]
<1>1. Opcode(w) = op_ADD /\ Field11_9(w) = d /\ Field8_6(w) = s /\ IR_5(w) /\ sign5bit(w) = Wrap(imm)
  BY DecodeADDi, Zenon
<1>2. Instruction(w)
  BY Fetch
<1>3. WriteResult(w, Wrap(R[s] + Wrap(imm)))
  BY <1>1, <1>2, Chosen, Zenon DEF ADD, BaseR, SR2, Plus
<1>4. Wrap(R[s] + Wrap(imm)) = Wrap(R[s] + imm) /\ Wrap(R[s] + imm) \in Word
  <2>1. R[s] \in Word
    BY RegisterWord
  <2>. QED BY <2>1 DEF Word, Wrap, Imm5
<1>5. recent' = recent /\ unsorted' = unsorted /\ turn' = turn
  BY <1>1, Opcodes_differ, QuietStep, Zenon
<1>6. WriteResult(w, Wrap(R[s] + imm))
  BY <1>3, <1>4, Zenon
<1>. QED BY <1>1, <1>4, <1>5, <1>6, StepWrite, Zenon DEF Quiet

\* The step of an AND of two registers.
LEMMA StepAND ==
  ASSUME Always, ExecuteProgram, pc < 255,
         NEW d \in Register, NEW s \in Register, NEW t \in Register,
         M[pc] = opAND(d, s, t), d # 0
  PROVE  Always' /\ Writes(d, And(R[s], R[t])) /\ Quiet
<1>. DEFINE w == M[pc]
<1>1. Opcode(w) = op_AND /\ Field11_9(w) = d /\ Field8_6(w) = s /\ ~IR_5(w) /\ Field2_0(w) = t
  BY DecodeAND, Zenon
<1>2. Instruction(w)
  BY Fetch
<1>3. WriteResult(w, And(R[s], R[t]))
  BY <1>1, <1>2, Chosen, Zenon DEF AND, BaseR, SR2
<1>4. And(R[s], R[t]) \in Word
  BY AndWord
<1>5. recent' = recent /\ unsorted' = unsorted /\ turn' = turn
  BY <1>1, Opcodes_differ, QuietStep, Zenon
<1>. QED BY <1>1, <1>3, <1>4, <1>5, StepWrite, Zenon DEF Quiet

\* Nothing and a word have no bit in common.
LEMMA AndZero == \A a : And(a, 0) = 0
<1>1. \A weight \in {1, 2, 4, 8, 16, 32, 64, 128, 256, 512, 1024, 2048, 4096, 8192, 16384, 32768} :
        ~Bit(0, weight)
  BY DEF Bit
<1>. QED BY <1>1 DEF And

\* The step of opCLR: the register becomes 0.
LEMMA StepCLR ==
  ASSUME Always, ExecuteProgram, pc < 255, NEW d \in Register, M[pc] = opCLR(d)
  PROVE  Always' /\ Writes(d, 0) /\ Quiet
<1>. DEFINE w == M[pc]
<1>1. Opcode(w) = op_AND /\ Field11_9(w) = d /\ Field8_6(w) = d /\ IR_5(w) /\ sign5bit(w) = 0
  BY DecodeCLR, Zenon
<1>2. Instruction(w)
  BY Fetch
<1>3. WriteResult(w, And(R[d], 0))
  BY <1>1, <1>2, Chosen, Zenon DEF AND, BaseR, SR2
<1>4. And(R[d], 0) = 0 /\ 0 \in Word
  BY AndZero DEF Word
<1>5. recent' = recent /\ unsorted' = unsorted /\ turn' = turn
  BY <1>1, Opcodes_differ, QuietStep, Zenon
<1>6. WriteResult(w, 0)
  BY <1>3, <1>4, Zenon
<1>. QED BY <1>1, <1>4, <1>5, <1>6, StepWrite, Zenon DEF Quiet

\* The step of a NOT.
LEMMA StepNOT ==
  ASSUME Always, ExecuteProgram, pc < 255, NEW d \in Register, NEW s \in Register,
         M[pc] = opNOT(d, s), d # 0
  PROVE  Always' /\ Writes(d, Not(R[s])) /\ Quiet
<1>. DEFINE w == M[pc]
<1>1. Opcode(w) = op_NOT /\ Field11_9(w) = d /\ Field8_6(w) = s
  BY DecodeNOT, Zenon
<1>2. Instruction(w)
  BY Fetch
<1>3. WriteResult(w, Not(R[s]))
  BY <1>1, <1>2, Chosen, Zenon DEF NOT, BaseR
<1>4. Not(R[s]) \in Word
  BY RegisterWord DEF Not, Word
<1>5. recent' = recent /\ unsorted' = unsorted /\ turn' = turn
  BY <1>1, Opcodes_differ, QuietStep, Zenon
<1>. QED BY <1>1, <1>3, <1>4, <1>5, StepWrite, Zenon DEF Quiet

\* A load from the memory.
Near(a) == 0 <= a /\ a < 255

\* The step of a load from a cell of the memory.
LEMMA StepLDR ==
  ASSUME Always, ExecuteProgram, pc < 255,
         NEW d \in Register, NEW s \in Register, NEW off, Off6(off), NEW a \in Int,
         M[pc] = opLDR(d, s, off), d # 0, R[s] + off = a, Near(a)
  PROVE  Always' /\ Writes(d, M[a]) /\ Quiet
<1>. DEFINE w == M[pc]
<1>1. Opcode(w) = op_LDR /\ Field11_9(w) = d /\ Field8_6(w) = s /\ sign6bit(w) = Wrap(off)
  BY DecodeLDR, Zenon
<1>2. Instruction(w)
  BY Fetch
<1>3. Address(w) = a
  <2>1. R[s] \in Word
    BY RegisterWord
  <2>2. Wrap(off) = IF off < 0 THEN off + 65536 ELSE off
    BY DEF Wrap, Off6
  <2>3. R[s] \in Int
    BY <2>1 DEF Word
  <2>4. R[s] + Wrap(off) = a \/ R[s] + Wrap(off) = a + 65536
    BY <2>2, <2>3 DEF Off6
  <2>5. Wrap(a) = a /\ Wrap(a + 65536) = a
    BY DEF Wrap, Near
  <2>6. Wrap(R[s] + Wrap(off)) = a
    BY <2>4, <2>5, SMT
  <2>. QED BY <1>1, <2>6, Zenon DEF Address, BaseR, Plus
<1>4. a # IOAddress /\ CellAt(a) = a /\ M[a] \in Word
  BY Cells DEF IOAddress, Near
<1>5. WriteResult(w, M[a])
  <2>1. PICK value \in ReadWords(a) : WriteResult(w, value)
    BY <1>1, <1>2, <1>3, Chosen, Zenon DEF LDR
  <2>2. value = M[a]
    BY <1>4, <2>1, Zenon DEF ReadWords
  <2>. QED BY <2>1, <2>2
<1>6. ~LoadsSwitches(w) /\ Opcode(w) # op_JSR
  BY <1>1, <1>3, <1>4, Opcodes_differ, Zenon DEF LoadsSwitches
<1>7. recent' = recent /\ unsorted' = unsorted /\ turn' = turn
  BY <1>6, QuietStep, Zenon
<1>. QED BY <1>1, <1>4, <1>5, <1>7, StepWrite, Zenon DEF Quiet

\* Offset -1 from register 0 is the address of the switches.
LEMMA SwitchOffset == 0 \in Register /\ Off6(inSW) /\ Wrap(inSW) = IOAddress
<1>1. 0 \in Register /\ Off6(inSW)
  BY SMT DEF Register, Off6, inSW
<1>2. \A x \in Int : x < 0 /\ x >= -65536 => Wrap(x) = x + 65536
  BY SMT DEF Wrap
<1>3. inSW \in Int /\ inSW = -1
  BY SMT DEF inSW
<1>. QED BY <1>1, <1>2, <1>3, SMT DEF IOAddress

\* A load from the switches.
LEMMA StepSwitches ==
  ASSUME Always, ExecuteProgram, pc < 255, NEW d \in Register, M[pc] = opLDR(d, 0, inSW), d # 0
  PROVE  /\ Always' /\ Writes(d, Latest(0)') /\ Reads
         /\ M' = M /\ hex' = hex /\ unsorted' = unsorted
<1>. DEFINE w == M[pc]
<1>1. Opcode(w) = op_LDR /\ Field11_9(w) = d /\ Field8_6(w) = 0 /\ sign6bit(w) = IOAddress
  <2>1. sign6bit(w) = Wrap(inSW) /\ Opcode(w) = op_LDR /\ Field11_9(w) = d /\ Field8_6(w) = 0
    BY SwitchOffset, DecodeLDR, Zenon
  <2>. QED BY <2>1, SwitchOffset, Zenon
<1>2. Address(w) = IOAddress
  <2>1. R[0] = 0
    BY AlwaysRegisters
  <2>2. Address(w) = Wrap(0 + IOAddress)
    BY <1>1, <2>1, Zenon DEF Address, BaseR, Plus
  <2>. QED BY <2>2, WrapWord, SMT DEF IOAddress
<1>3. /\ LoadsSwitches(w) /\ Opcode(w) # op_JSR
  BY <1>1, <1>2, Opcodes_differ, Zenon DEF LoadsSwitches
<1>4. /\ WriteResult(w, plan[turn]) /\ plan[turn] \in Word /\ Reads
  BY <1>3, ReadSwitches, Zenon
<1>5. unsorted' = unsorted
  BY <1>3, Fetch, Zenon
<1>6. Always' /\ Writes(d, plan[turn]) /\ M' = M /\ hex' = hex
  BY <1>1, <1>4, StepWrite, Zenon
<1>. QED BY <1>4, <1>5, <1>6, Zenon DEF Reads

\* Nothing changes but the place in the program and the lights.
LEMMA StepElse ==
  ASSUME Always, ExecuteProgram, pc < 255, pc' \in Word, pc # 0,
         R' = R, cc' = cc, M' = M, hex' = hex
  PROVE  Always'
<1>1. R' \in [Register -> Word] /\ R'[0] = 0
  BY AlwaysRegisters
<1>2. cc' \in SUBSET Flags /\ cc' # {}
  BY AlwaysRegisters
<1>3. hex' \in Word
  BY AlwaysRegisters
<1>4. M' \in [Cell -> Word]
  BY AlwaysFacts
<1>5. Code'
  BY CodeKept, Zenon DEF Always
<1>. QED BY <1>1, <1>2, <1>3, <1>4, <1>5, AlwaysKept, Zenon

Jumps(target) == pc' = target /\ R' = R /\ cc' = cc

\* The step of a PSE, whatever its LED vector.
LEMMA StepPSE ==
  ASSUME Always, ExecuteProgram, pc < 255, pc # 0, Opcode(M[pc]) = op_PSE
  PROVE  Always' /\ Jumps(pc + 1) /\ Quiet
<1>. DEFINE w == M[pc]
<1>2. Opcode(w) = op_PSE
  OBVIOUS
<1>3. PSE(w)
  BY <1>2, Fetch, Chosen, Zenon
<1>4. recent' = recent /\ unsorted' = unsorted /\ turn' = turn
  BY <1>2, Opcodes_differ, QuietStep, Zenon
<1>5. pc' = pc + 1 /\ pc' \in Word
  BY <1>3, NextPc, Zenon DEF PSE
<1>6. R' = R /\ cc' = cc /\ M' = M /\ hex' = hex
  BY <1>3, Zenon DEF PSE
<1>. QED BY <1>4, <1>5, <1>6, StepElse, Zenon DEF Jumps, Quiet

\* The target of a branch, and when it is taken.
Branches(cond, off) ==
  pc' = IF \/ cond >= 4 /\ "n" \in cc
           \/ cond \in {2, 3, 6, 7} /\ "z" \in cc
           \/ cond \in {1, 3, 5, 7} /\ "p" \in cc
        THEN pc + 1 + off ELSE pc + 1

\* The step of a branch.
LEMMA StepBR ==
  ASSUME Always, ExecuteProgram, pc < 255, pc # 0,
         NEW cond, Cond(cond), NEW off, Off9(off), M[pc] = opBR(cond, off), 0 <= pc + off
  PROVE  Always' /\ Branches(cond, off) /\ R' = R /\ cc' = cc /\ Quiet
<1>. DEFINE w == M[pc]
<1>1. Opcode(w) = op_BR
  BY DecodeBR
<1>2. BR(w)
  BY <1>1, Fetch, Chosen, Zenon
<1>3. recent' = recent /\ unsorted' = unsorted /\ turn' = turn
  BY <1>1, Opcodes_differ, QuietStep, Zenon
<1>4. R' = R /\ cc' = cc /\ M' = M /\ hex' = hex
  BY <1>2, Zenon DEF BR
<1>5. pc \in Int /\ 0 <= pc
  BY AlwaysFacts
<1>6. Plus(Next1, sign9bit(w)) = pc + 1 + off
  <2>1. sign9bit(w) = Wrap(off) /\ Next1 = pc + 1
    BY DecodeBR, NextPc
  <2>2. Wrap(pc + 1 + Wrap(off)) = pc + 1 + off
    BY <1>5 DEF Wrap, Off9
  <2>. QED BY <2>1, <2>2, Zenon DEF Plus
<1>7. Condition(w) \cap cc # {} <=>
        \/ cond >= 4 /\ "n" \in cc
        \/ cond \in {2, 3, 6, 7} /\ "z" \in cc
        \/ cond \in {1, 3, 5, 7} /\ "p" \in cc
  <2>1. /\ Bit(w, 2048) <=> cond >= 4
        /\ Bit(w, 1024) <=> cond \in {2, 3, 6, 7}
        /\ Bit(w, 512) <=> cond \in {1, 3, 5, 7}
    BY DecodeBR
  <2>2. Condition(w) \cap cc # {} <=>
          \/ Bit(w, 2048) /\ "n" \in cc
          \/ Bit(w, 1024) /\ "z" \in cc
          \/ Bit(w, 512) /\ "p" \in cc
    <3>1. cc \in SUBSET Flags
      BY AlwaysRegisters
    <3>. QED BY <3>1 DEF Condition, Flags
  <2>. QED BY <2>1, <2>2, SMT
<1>8. pc' = IF Condition(w) \cap cc # {} THEN Plus(Next1, sign9bit(w)) ELSE Next1
  BY <1>2, Zenon DEF BR
<1>9. Branches(cond, off)
  BY <1>6, <1>7, <1>8, NextPc, Zenon DEF Branches
<1>10. pc' \in Word
  <2>1. pc + 1 + off \in Word /\ pc + 1 \in Word
    BY <1>5 DEF Word, Off9
  <2>. QED BY <2>1, <1>9, Zenon DEF Branches
<1>. QED BY <1>3, <1>4, <1>9, <1>10, StepElse, Zenon DEF Quiet

\* The step of a JMP.
LEMMA StepJMP ==
  ASSUME Always, ExecuteProgram, pc < 255, pc # 0, NEW s \in Register, M[pc] = opJMP(s)
  PROVE  Always' /\ Jumps(R[s]) /\ Quiet
<1>. DEFINE w == M[pc]
<1>1. Opcode(w) = op_JMP /\ Field8_6(w) = s
  BY DecodeJMP, Zenon
<1>2. JMP(w)
  BY <1>1, Fetch, Chosen, Zenon
<1>3. recent' = recent /\ unsorted' = unsorted /\ turn' = turn
  BY <1>1, Opcodes_differ, QuietStep, Zenon
<1>4. R' = R /\ cc' = cc /\ M' = M /\ hex' = hex /\ pc' = R[s]
  BY <1>1, <1>2, Zenon DEF JMP, BaseR
<1>5. pc' \in Word
  BY <1>4, RegisterWord
<1>. QED BY <1>3, <1>4, <1>5, StepElse, Zenon DEF Jumps, Quiet

\* A call: register 7 holds the address to return to.
LEMMA StepJSR ==
  ASSUME Always, ExecuteProgram, pc < 255, pc # 0, NEW off, Off11(off), M[pc] = opJSR(off)
  PROVE  /\ Always' /\ R'[7] = pc + 1 /\ OnlyRegister(7) /\ cc' = cc /\ pc' = pc + 1 + off
         /\ M' = M /\ hex' = hex /\ recent' = recent
         /\ unsorted' = IF pc' = SortAt THEN Data ELSE unsorted
<1>. DEFINE w == M[pc]
<1>1. Opcode(w) = op_JSR /\ IR_11(w) /\ sign11bit(w) = off
  BY DecodeJSR, Zenon
<1>2. JSR(w)
  BY <1>1, Fetch, Chosen, Zenon
<1>3. recent' = recent /\ unsorted' = IF pc' = SortAt THEN Data ELSE unsorted
  BY <1>1, Opcodes_differ, Fetch, Zenon
<1>4. cc' = cc /\ M' = M /\ hex' = hex /\ pc' = Plus(Next1, off) /\ R' = [R EXCEPT ![7] = Next1]
  BY <1>1, <1>2, Zenon DEF JSR
<1>5. Next1 = pc + 1 /\ Next1 \in Word
  BY NextPc
<1>6. pc' = pc + 1 + off /\ pc' \in Word
  <2>1. pc \in Int /\ 0 <= pc
    BY AlwaysFacts
  <2>2. Wrap(pc + 1 + off) = pc + 1 + off /\ pc + 1 + off \in Word
    BY <2>1 DEF Wrap, Word, Off11
  <2>. QED BY <1>4, <1>5, <2>2, Zenon DEF Plus
<1>7. R' \in [Register -> Word] /\ R'[0] = 0 /\ R'[7] = pc + 1 /\ OnlyRegister(7)
  <2>1. 7 \in Register /\ 7 # 0
    BY DEF Register
  <2>. QED BY <1>4, <1>5, <2>1, OneRegister, Zenon
<1>8. cc' \in SUBSET Flags /\ cc' # {}
  BY <1>4, AlwaysRegisters
<1>9. hex' \in Word
  BY <1>4, AlwaysRegisters
<1>10. M' \in [Cell -> Word]
  BY <1>4, AlwaysFacts
<1>11. Code'
  BY <1>4, CodeKept, Zenon DEF Always
<1>12. Always'
  BY <1>6, <1>7, <1>8, <1>9, <1>10, <1>11, AlwaysKept, Zenon
<1>. QED BY <1>3, <1>4, <1>6, <1>7, <1>12, Zenon

-----------------------------------------------------------------------------
(* Stores *)

\* A store changes one cell.
LEMMA OneCell ==
  ASSUME NEW f \in [Cell -> Word], NEW x \in Cell, NEW value \in Word,
         NEW g, g = [f EXCEPT ![x] = value]
  PROVE  g \in [Cell -> Word] /\ g[x] = value /\ \A y \in Cell : y # x => g[y] = f[y]
  OBVIOUS

\* The display, the data, and for a PSE the pause of the display function.
Writable(a, value) ==
  \/ a = IOAddress
  \/ 74 <= a /\ a <= 89
  \/ a = 148 /\ 55298 <= value /\ value <= 55554

\* The step of a store to the display, to the data or to the rewritten pause.
LEMMA StepSTR ==
  ASSUME Always, ExecuteProgram, pc < 255, pc # 0,
         NEW d \in Register, NEW s \in Register, NEW off, Off6(off), NEW a \in Int,
         M[pc] = opSTR(d, s, off), Wrap(R[s] + off) = a,
         Writable(a, R[d])
  PROVE  /\ Always' /\ Jumps(pc + 1)
         /\ M' = [M EXCEPT ![CellAt(a)] = R[d]]
         /\ hex' = IF a = IOAddress THEN R[d] ELSE hex
         /\ recent' = recent /\ unsorted' = unsorted /\ turn' = turn
<1>. DEFINE w == M[pc]
<1>1. Opcode(w) = op_STR /\ Field11_9(w) = d /\ Field8_6(w) = s /\ sign6bit(w) = Wrap(off)
  BY DecodeSTR, Zenon
<1>2. STR(w)
  BY <1>1, Fetch, Chosen, Zenon
<1>3. recent' = recent /\ unsorted' = unsorted /\ turn' = turn
  BY <1>1, Opcodes_differ, QuietStep, Zenon
<1>4. Address(w) = a
  <2>1. R[s] \in Word
    BY RegisterWord
  <2>2. Wrap(R[s] + Wrap(off)) = Wrap(R[s] + off)
    <3>1. Wrap(off) = off \/ Wrap(off) = off + 65536
      BY SMT DEF Wrap, Off6
    <3>2. R[s] \in Int /\ off \in Int
      BY <2>1, SMT DEF Word, Off6
    <3>3. Wrap(R[s] + (off + 65536)) = Wrap(R[s] + off)
      BY <3>2, SMT DEF Wrap
    <3>4. CASE Wrap(off) = off
      BY <3>4, Zenon
    <3>5. CASE Wrap(off) = off + 65536
      BY <3>3, <3>5, SMT
    <3>. QED BY <3>1, <3>4, <3>5, SMT
  <2>. QED BY <1>1, <2>2, Zenon DEF Address, BaseR, Plus
<1>5. /\ R' = R /\ cc' = cc /\ pc' = Next1
      /\ M' = [M EXCEPT ![CellAt(a)] = R[d]]
      /\ hex' = IF a = IOAddress THEN R[d] ELSE hex
  BY <1>1, <1>2, <1>4, Zenon DEF STR
<1>6. pc' = pc + 1 /\ pc' \in Word
  BY <1>5, NextPc, Zenon
<1>7. R[d] \in Word
  BY RegisterWord
<1>8. R' \in [Register -> Word] /\ R'[0] = 0
  BY <1>5, AlwaysRegisters
<1>9. cc' \in SUBSET Flags /\ cc' # {}
  BY <1>5, AlwaysRegisters
<1>10. hex' \in Word
  <2>1. hex \in Word
    BY AlwaysRegisters
  <2>. QED BY <1>5, <1>7, <2>1, Zenon
<1>11. CellAt(a) = (IF a = IOAddress THEN 255 ELSE a) /\ CellAt(a) \in Cell
  <2>1. MemSize = 256
    BY AlwaysFacts
  <2>2. CellAt(a) = IF a = IOAddress THEN 255 ELSE a
    BY <2>1 DEF CellAt, Writable, IOAddress
  <2>3. 0 <= CellAt(a) /\ CellAt(a) < 256 /\ CellAt(a) \in Int
    BY <2>2 DEF Writable, IOAddress
  <2>. QED BY <2>2, <2>3, Cells, Zenon
<1>12. /\ M' \in [Cell -> Word] /\ M'[CellAt(a)] = R[d]
       /\ \A y \in Cell : y # CellAt(a) => M'[y] = M[y]
  <2>1. M \in [Cell -> Word]
    BY AlwaysFacts
  <2>. QED BY <1>5, <1>7, <1>11, <2>1, OneCell, Zenon
<1>13. Code'
  <2>1. Code
    BY Zenon DEF Always
  <2>2. ASSUME NEW cell \in Int, (0 <= cell /\ cell < 74) \/ (90 <= cell /\ cell < 156 /\ cell # 148)
        PROVE  M'[cell] = M[cell]
    <3>1. cell \in Cell
      BY <2>2, Cells
    <3>2. cell # CellAt(a)
      BY <1>11, <2>2 DEF Writable
    <3>. QED BY <1>12, <3>1, <3>2, Zenon
  <2>3. 55298 <= M'[148] /\ M'[148] <= 55554
    <3>1. 148 \in Cell
      BY Cells
    <3>2. CASE CellAt(a) = 148
      <4>1. M'[148] = R[d]
        BY <1>12, <3>2
      <4>2. a = 148
        BY <1>11, <3>2 DEF IOAddress
      <4>3. 55298 <= R[d] /\ R[d] <= 55554
        BY <4>2, SMT DEF Writable, IOAddress
      <4>. QED BY <4>1, <4>3
    <3>3. CASE CellAt(a) # 148
      <4>1. M'[148] = M[148]
        BY <1>12, <3>1, <3>3, Zenon
      <4>. QED BY <2>1, <4>1, SMT DEF Code
    <3>. QED BY <3>2, <3>3, SMT
  <2>. QED BY <2>1, <2>2, <2>3 DEF Code
<1>14. Always'
  BY <1>6, <1>8, <1>9, <1>10, <1>12, <1>13, AlwaysKept, Zenon
<1>. QED BY <1>3, <1>5, <1>6, <1>14, Zenon DEF Jumps

-----------------------------------------------------------------------------
(* The programs in the memory *)

\* The code in the memory is that of memory_contents.sv.
LEMMA CodeCells ==
  ASSUME Always, NEW cell \in Int, (0 <= cell /\ cell < 74) \/ (90 <= cell /\ cell < 156 /\ cell # 148)
  PROVE  M[cell] = memory_contents[cell]
<1>1. Code
  BY Zenon DEF Always
<1>. QED BY <1>1 DEF Code

\* The words of BootCode (memory_contents.sv:20-27).
LEMMA BootWords ==
  ASSUME Always
  PROVE  /\ M[0] = opCLR(0) /\ M[1] = opLDR(1, 0, inSW)
         /\ M[2] = opJMP(1)
<1>1. /\ BootCode[1] = opCLR(0) /\ BootCode[2] = opLDR(1, 0, inSW)
      /\ BootCode[3] = opJMP(1)
  BY SMT DEF BootCode
<1>2. /\ M[0] = BootCode[1] /\ M[1] = BootCode[2]
      /\ M[2] = BootCode[3]
  <2>1. \A c \in Int : 0 <= c /\ c < 3 => memory_contents[c] = BootCode[c + 1]
    BY Placed
  <2>2. \A c \in Int : 0 <= c /\ c < 3 /\ c # 148 => M[c] = BootCode[c + 1]
    BY <2>1, CodeCells
  <2>. QED BY <2>2
<1>. QED BY <1>1, <1>2, SMT

\* The words of the first I/O test.
LEMMA Test1Words ==
  ASSUME Always
  PROVE  /\ M[3] = opLDR(1, 0, inSW) /\ M[4] = opSTR(1, 0, outHEX)
         /\ M[5] = opBR(7, -3)
<1>1. /\ BasicIOTest1[1] = opLDR(1, 0, inSW) /\ BasicIOTest1[2] = opSTR(1, 0, outHEX)
      /\ BasicIOTest1[3] = opBR(7, -3)
  BY SMT DEF BasicIOTest1, n, np, nz, nzp, p, z
<1>2. /\ M[3] = BasicIOTest1[1] /\ M[4] = BasicIOTest1[2]
      /\ M[5] = BasicIOTest1[3]
  <2>1. \A c \in Int : 3 <= c /\ c < 6 => memory_contents[c] = BasicIOTest1[c - 3 + 1]
    BY Placed DEF IOTest1At
  <2>2. \A c \in Int : 3 <= c /\ c < 6 /\ c # 148 => M[c] = BasicIOTest1[c - 3 + 1]
    BY <2>1, CodeCells
  <2>. QED BY <2>2
<1>. QED BY <1>1, <1>2, SMT

\* The words of the second I/O test.
LEMMA EchoWords ==
  ASSUME Always
  PROVE  /\ Opcode(M[6]) = op_PSE /\ M[7] = opLDR(1, 0, inSW)
         /\ M[8] = opSTR(1, 0, outHEX) /\ Opcode(M[9]) = op_PSE
         /\ M[10] = opBR(7, -4)
<1>1. /\ Opcode(BasicIOTest2[1]) = op_PSE /\ BasicIOTest2[2] = opLDR(1, 0, inSW)
      /\ BasicIOTest2[3] = opSTR(1, 0, outHEX) /\ Opcode(BasicIOTest2[4]) = op_PSE
      /\ BasicIOTest2[5] = opBR(7, -4)
  BY SMT DEF BasicIOTest2, Opcode, n, np, nz, nzp, opPSE, op_PSE, p, z
<1>2. /\ M[6] = BasicIOTest2[1] /\ M[7] = BasicIOTest2[2]
      /\ M[8] = BasicIOTest2[3] /\ M[9] = BasicIOTest2[4]
      /\ M[10] = BasicIOTest2[5]
  <2>1. \A c \in Int : 6 <= c /\ c < 11 => memory_contents[c] = BasicIOTest2[c - 6 + 1]
    BY Placed DEF IOTest2At
  <2>2. \A c \in Int : 6 <= c /\ c < 11 /\ c # 148 => M[c] = BasicIOTest2[c - 6 + 1]
    BY <2>1, CodeCells
  <2>. QED BY <2>2
<1>. QED BY <1>1, <1>2, SMT

\* The words of the XOR test.
LEMMA XORWords ==
  ASSUME Always
  PROVE  /\ M[20] = opCLR(0) /\ Opcode(M[21]) = op_PSE
         /\ M[22] = opLDR(1, 0, inSW) /\ Opcode(M[23]) = op_PSE
         /\ M[24] = opLDR(2, 0, inSW) /\ M[25] = opNOT(3, 1)
         /\ M[26] = opAND(3, 3, 2) /\ M[27] = opNOT(3, 3)
         /\ M[28] = opNOT(4, 2) /\ M[29] = opAND(4, 4, 1)
         /\ M[30] = opNOT(4, 4) /\ M[31] = opAND(3, 3, 4)
         /\ M[32] = opNOT(3, 3) /\ M[33] = opSTR(3, 0, outHEX)
         /\ Opcode(M[34]) = op_PSE /\ M[35] = opBR(7, -15)
<1>1. /\ XORTest[1] = opCLR(0) /\ Opcode(XORTest[2]) = op_PSE
      /\ XORTest[3] = opLDR(1, 0, inSW) /\ Opcode(XORTest[4]) = op_PSE
      /\ XORTest[5] = opLDR(2, 0, inSW) /\ XORTest[6] = opNOT(3, 1)
      /\ XORTest[7] = opAND(3, 3, 2) /\ XORTest[8] = opNOT(3, 3)
      /\ XORTest[9] = opNOT(4, 2) /\ XORTest[10] = opAND(4, 4, 1)
      /\ XORTest[11] = opNOT(4, 4) /\ XORTest[12] = opAND(3, 3, 4)
      /\ XORTest[13] = opNOT(3, 3) /\ XORTest[14] = opSTR(3, 0, outHEX)
      /\ Opcode(XORTest[15]) = op_PSE /\ XORTest[16] = opBR(7, -15)
  BY SMT DEF Opcode, XORTest, n, np, nz, nzp, opPSE, op_PSE, p, z
<1>2. /\ M[20] = XORTest[1] /\ M[21] = XORTest[2]
      /\ M[22] = XORTest[3] /\ M[23] = XORTest[4]
      /\ M[24] = XORTest[5] /\ M[25] = XORTest[6]
      /\ M[26] = XORTest[7] /\ M[27] = XORTest[8]
      /\ M[28] = XORTest[9] /\ M[29] = XORTest[10]
      /\ M[30] = XORTest[11] /\ M[31] = XORTest[12]
      /\ M[32] = XORTest[13] /\ M[33] = XORTest[14]
      /\ M[34] = XORTest[15] /\ M[35] = XORTest[16]
  <2>1. \A c \in Int : 20 <= c /\ c < 36 => memory_contents[c] = XORTest[c - 20 + 1]
    BY Placed DEF XORAt
  <2>2. \A c \in Int : 20 <= c /\ c < 36 /\ c # 148 => M[c] = XORTest[c - 20 + 1]
    BY <2>1, CodeCells
  <2>. QED BY <2>2
<1>. QED BY <1>1, <1>2, SMT

\* The words of the multiplier.
LEMMA MultiplierWords ==
  ASSUME Always
  PROVE  /\ M[49] = opCLR(0) /\ M[50] = opJSR(0)
         /\ M[51] = opLDR(3, 7, 22) /\ M[52] = opCLR(4)
         /\ M[53] = opCLR(5) /\ Opcode(M[54]) = op_PSE
         /\ M[55] = opLDR(1, 0, inSW) /\ Opcode(M[56]) = op_PSE
         /\ M[57] = opLDR(2, 0, inSW) /\ M[58] = opADD(5, 5, 5)
         /\ M[59] = opAND(7, 3, 1) /\ M[60] = opBR(2, 1)
         /\ M[61] = opADD(5, 5, 2) /\ M[62] = opADDi(4, 4, 0)
         /\ M[63] = opBR(1, 2) /\ M[64] = opNOT(5, 5)
         /\ M[65] = opADDi(5, 5, 1) /\ M[66] = opADDi(4, 4, 1)
         /\ M[67] = opADD(1, 1, 1) /\ M[68] = opADDi(7, 4, -8)
         /\ M[69] = opBR(4, -12) /\ M[70] = opSTR(5, 0, outHEX)
         /\ Opcode(M[71]) = op_PSE /\ M[72] = opBR(7, -21)
         /\ M[73] = 128
<1>1. /\ MultiplierProgram[1] = opCLR(0) /\ MultiplierProgram[2] = opJSR(0)
      /\ MultiplierProgram[3] = opLDR(3, 7, 22) /\ MultiplierProgram[4] = opCLR(4)
      /\ MultiplierProgram[5] = opCLR(5) /\ Opcode(MultiplierProgram[6]) = op_PSE
      /\ MultiplierProgram[7] = opLDR(1, 0, inSW) /\ Opcode(MultiplierProgram[8]) = op_PSE
      /\ MultiplierProgram[9] = opLDR(2, 0, inSW) /\ MultiplierProgram[10] = opADD(5, 5, 5)
      /\ MultiplierProgram[11] = opAND(7, 3, 1) /\ MultiplierProgram[12] = opBR(2, 1)
      /\ MultiplierProgram[13] = opADD(5, 5, 2) /\ MultiplierProgram[14] = opADDi(4, 4, 0)
      /\ MultiplierProgram[15] = opBR(1, 2) /\ MultiplierProgram[16] = opNOT(5, 5)
      /\ MultiplierProgram[17] = opADDi(5, 5, 1) /\ MultiplierProgram[18] = opADDi(4, 4, 1)
      /\ MultiplierProgram[19] = opADD(1, 1, 1) /\ MultiplierProgram[20] = opADDi(7, 4, -8)
      /\ MultiplierProgram[21] = opBR(4, -12) /\ MultiplierProgram[22] = opSTR(5, 0, outHEX)
      /\ Opcode(MultiplierProgram[23]) = op_PSE /\ MultiplierProgram[24] = opBR(7, -21)
      /\ MultiplierProgram[25] = 128
  BY SMT DEF MultiplierProgram, Opcode, n, np, nz, nzp, opDEC, opINC, opPSE, op_PSE, p, z
<1>2. /\ M[49] = MultiplierProgram[1] /\ M[50] = MultiplierProgram[2]
      /\ M[51] = MultiplierProgram[3] /\ M[52] = MultiplierProgram[4]
      /\ M[53] = MultiplierProgram[5] /\ M[54] = MultiplierProgram[6]
      /\ M[55] = MultiplierProgram[7] /\ M[56] = MultiplierProgram[8]
      /\ M[57] = MultiplierProgram[9] /\ M[58] = MultiplierProgram[10]
      /\ M[59] = MultiplierProgram[11] /\ M[60] = MultiplierProgram[12]
      /\ M[61] = MultiplierProgram[13] /\ M[62] = MultiplierProgram[14]
      /\ M[63] = MultiplierProgram[15] /\ M[64] = MultiplierProgram[16]
      /\ M[65] = MultiplierProgram[17] /\ M[66] = MultiplierProgram[18]
      /\ M[67] = MultiplierProgram[19] /\ M[68] = MultiplierProgram[20]
      /\ M[69] = MultiplierProgram[21] /\ M[70] = MultiplierProgram[22]
      /\ M[71] = MultiplierProgram[23] /\ M[72] = MultiplierProgram[24]
      /\ M[73] = MultiplierProgram[25]
  <2>1. \A c \in Int : 49 <= c /\ c < 74 => memory_contents[c] = MultiplierProgram[c - 49 + 1]
    BY Placed DEF MultiplierAt
  <2>2. \A c \in Int : 49 <= c /\ c < 74 /\ c # 148 => M[c] = MultiplierProgram[c - 49 + 1]
    BY <2>1, CodeCells
  <2>. QED BY <2>2
<1>. QED BY <1>1, <1>2, SMT

\* The words of the menu of the sort.
LEMMA MenuWords ==
  ASSUME Always
  PROVE  /\ M[90] = opCLR(0) /\ M[91] = opJSR(0)
         /\ M[92] = opADDi(6, 7, -16) /\ M[93] = opADDi(6, 6, -2)
         /\ Opcode(M[94]) = op_PSE /\ M[95] = opLDR(1, 0, inSW)
         /\ M[96] = opBR(2, -3) /\ M[97] = opADDi(1, 1, -1)
         /\ M[98] = opBR(5, 2) /\ M[99] = opJSR(9)
         /\ M[100] = opBR(7, -7) /\ M[101] = opADDi(1, 1, -1)
         /\ M[102] = opBR(5, 2) /\ M[103] = opJSR(15)
         /\ M[104] = opBR(7, -11) /\ M[105] = opADDi(1, 1, -1)
         /\ M[106] = opBR(5, -13) /\ M[107] = opJSR(29)
         /\ M[108] = opBR(7, -15)
<1>1. /\ SortMenu[1] = opCLR(0) /\ SortMenu[2] = opJSR(0)
      /\ SortMenu[3] = opADDi(6, 7, -16) /\ SortMenu[4] = opADDi(6, 6, -2)
      /\ Opcode(SortMenu[5]) = op_PSE /\ SortMenu[6] = opLDR(1, 0, inSW)
      /\ SortMenu[7] = opBR(2, -3) /\ SortMenu[8] = opADDi(1, 1, -1)
      /\ SortMenu[9] = opBR(5, 2) /\ SortMenu[10] = opJSR(9)
      /\ SortMenu[11] = opBR(7, -7) /\ SortMenu[12] = opADDi(1, 1, -1)
      /\ SortMenu[13] = opBR(5, 2) /\ SortMenu[14] = opJSR(15)
      /\ SortMenu[15] = opBR(7, -11) /\ SortMenu[16] = opADDi(1, 1, -1)
      /\ SortMenu[17] = opBR(5, -13) /\ SortMenu[18] = opJSR(29)
      /\ SortMenu[19] = opBR(7, -15)
  BY SMT DEF Opcode, SortMenu, n, np, nz, nzp, opDEC, opINC, opPSE, op_PSE, p, z
<1>2. /\ M[90] = SortMenu[1] /\ M[91] = SortMenu[2]
      /\ M[92] = SortMenu[3] /\ M[93] = SortMenu[4]
      /\ M[94] = SortMenu[5] /\ M[95] = SortMenu[6]
      /\ M[96] = SortMenu[7] /\ M[97] = SortMenu[8]
      /\ M[98] = SortMenu[9] /\ M[99] = SortMenu[10]
      /\ M[100] = SortMenu[11] /\ M[101] = SortMenu[12]
      /\ M[102] = SortMenu[13] /\ M[103] = SortMenu[14]
      /\ M[104] = SortMenu[15] /\ M[105] = SortMenu[16]
      /\ M[106] = SortMenu[17] /\ M[107] = SortMenu[18]
      /\ M[108] = SortMenu[19]
  <2>1. \A c \in Int : 90 <= c /\ c < 109 => memory_contents[c] = SortMenu[c - 90 + 1]
    BY Placed DEF SortMenuAt
  <2>2. \A c \in Int : 90 <= c /\ c < 109 /\ c # 148 => M[c] = SortMenu[c - 90 + 1]
    BY <2>1, CodeCells
  <2>. QED BY <2>2
<1>. QED BY <1>1, <1>2, SMT

\* The words of the entry function.
LEMMA EntryWords ==
  ASSUME Always
  PROVE  /\ M[109] = opCLR(1) /\ M[110] = opSTR(1, 0, outHEX)
         /\ Opcode(M[111]) = op_PSE /\ M[112] = opLDR(2, 0, inSW)
         /\ M[113] = opADD(5, 6, 1) /\ M[114] = opSTR(2, 5, 0)
         /\ M[115] = opADDi(1, 1, 1) /\ M[116] = opADDi(3, 1, -16)
         /\ M[117] = opBR(4, -8) /\ M[118] = opJMP(7)
<1>1. /\ EntryFunction[1] = opCLR(1) /\ EntryFunction[2] = opSTR(1, 0, outHEX)
      /\ Opcode(EntryFunction[3]) = op_PSE /\ EntryFunction[4] = opLDR(2, 0, inSW)
      /\ EntryFunction[5] = opADD(5, 6, 1) /\ EntryFunction[6] = opSTR(2, 5, 0)
      /\ EntryFunction[7] = opADDi(1, 1, 1) /\ EntryFunction[8] = opADDi(3, 1, -16)
      /\ EntryFunction[9] = opBR(4, -8) /\ EntryFunction[10] = opJMP(7)
  BY SMT DEF EntryFunction, Opcode, n, np, nz, nzp, opDEC, opINC, opPSE, opRET, op_PSE, p, z
<1>2. /\ M[109] = EntryFunction[1] /\ M[110] = EntryFunction[2]
      /\ M[111] = EntryFunction[3] /\ M[112] = EntryFunction[4]
      /\ M[113] = EntryFunction[5] /\ M[114] = EntryFunction[6]
      /\ M[115] = EntryFunction[7] /\ M[116] = EntryFunction[8]
      /\ M[117] = EntryFunction[9] /\ M[118] = EntryFunction[10]
  <2>1. \A c \in Int : 109 <= c /\ c < 119 => memory_contents[c] = EntryFunction[c - 109 + 1]
    BY Placed DEF EntryAt
  <2>2. \A c \in Int : 109 <= c /\ c < 119 /\ c # 148 => M[c] = EntryFunction[c - 109 + 1]
    BY <2>1, CodeCells
  <2>. QED BY <2>2
<1>. QED BY <1>1, <1>2, SMT

\* The words of the sort function.
LEMMA SortWords ==
  ASSUME Always
  PROVE  /\ M[119] = opADDi(1, 0, -16) /\ M[120] = opADDi(2, 0, 1)
         /\ M[121] = opADD(3, 6, 2) /\ M[122] = opLDR(4, 3, -1)
         /\ M[123] = opLDR(5, 3, 0) /\ M[124] = opNOT(5, 5)
         /\ M[125] = opADDi(5, 5, 1) /\ M[126] = opADD(5, 4, 5)
         /\ M[127] = opBR(6, 3) /\ M[128] = opLDR(5, 3, 0)
         /\ M[129] = opSTR(5, 3, -1) /\ M[130] = opSTR(4, 3, 0)
         /\ M[131] = opADDi(2, 2, 1) /\ M[132] = opADD(3, 1, 2)
         /\ M[133] = opBR(4, -13) /\ M[134] = opADDi(1, 1, 1)
         /\ M[135] = opBR(4, -16) /\ M[136] = opJMP(7)
<1>1. /\ SortFunction[1] = opADDi(1, 0, -16) /\ SortFunction[2] = opADDi(2, 0, 1)
      /\ SortFunction[3] = opADD(3, 6, 2) /\ SortFunction[4] = opLDR(4, 3, -1)
      /\ SortFunction[5] = opLDR(5, 3, 0) /\ SortFunction[6] = opNOT(5, 5)
      /\ SortFunction[7] = opADDi(5, 5, 1) /\ SortFunction[8] = opADD(5, 4, 5)
      /\ SortFunction[9] = opBR(6, 3) /\ SortFunction[10] = opLDR(5, 3, 0)
      /\ SortFunction[11] = opSTR(5, 3, -1) /\ SortFunction[12] = opSTR(4, 3, 0)
      /\ SortFunction[13] = opADDi(2, 2, 1) /\ SortFunction[14] = opADD(3, 1, 2)
      /\ SortFunction[15] = opBR(4, -13) /\ SortFunction[16] = opADDi(1, 1, 1)
      /\ SortFunction[17] = opBR(4, -16) /\ SortFunction[18] = opJMP(7)
  BY SMT DEF SortFunction, n, np, nz, nzp, opDEC, opINC, opRET, p, z
<1>2. /\ M[119] = SortFunction[1] /\ M[120] = SortFunction[2]
      /\ M[121] = SortFunction[3] /\ M[122] = SortFunction[4]
      /\ M[123] = SortFunction[5] /\ M[124] = SortFunction[6]
      /\ M[125] = SortFunction[7] /\ M[126] = SortFunction[8]
      /\ M[127] = SortFunction[9] /\ M[128] = SortFunction[10]
      /\ M[129] = SortFunction[11] /\ M[130] = SortFunction[12]
      /\ M[131] = SortFunction[13] /\ M[132] = SortFunction[14]
      /\ M[133] = SortFunction[15] /\ M[134] = SortFunction[16]
      /\ M[135] = SortFunction[17] /\ M[136] = SortFunction[18]
  <2>1. \A c \in Int : 119 <= c /\ c < 137 => memory_contents[c] = SortFunction[c - 119 + 1]
    BY Placed DEF SortAt
  <2>2. \A c \in Int : 119 <= c /\ c < 137 /\ c # 148 => M[c] = SortFunction[c - 119 + 1]
    BY <2>1, CodeCells
  <2>. QED BY <2>2
<1>. QED BY <1>1, <1>2, SMT

\* The words of the display function, but for the pause it rewrites.
LEMMA DisplayWords ==
  ASSUME Always
  PROVE  /\ M[137] = opCLR(1) /\ M[138] = opADD(4, 7, 0)
         /\ M[139] = opJSR(0) /\ M[140] = opADD(5, 7, 0)
         /\ M[141] = opADD(7, 4, 0) /\ M[142] = opLDR(3, 5, 15)
         /\ M[143] = opADDi(2, 0, 8) /\ M[144] = opADD(2, 2, 2)
         /\ M[145] = opADD(4, 6, 1) /\ M[146] = opLDR(4, 4, 0)
         /\ M[147] = opSTR(4, 0, outHEX) /\ M[149] = opADD(3, 3, 2)
         /\ M[150] = opSTR(3, 5, 8) /\ M[151] = opADDi(1, 1, 1)
         /\ M[152] = opADDi(4, 1, -16) /\ M[153] = opBR(4, -9)
         /\ M[154] = opJMP(7) /\ M[155] = 55298
<1>1. /\ DisplayFunction[1] = opCLR(1) /\ DisplayFunction[2] = opADD(4, 7, 0)
      /\ DisplayFunction[3] = opJSR(0) /\ DisplayFunction[4] = opADD(5, 7, 0)
      /\ DisplayFunction[5] = opADD(7, 4, 0) /\ DisplayFunction[6] = opLDR(3, 5, 15)
      /\ DisplayFunction[7] = opADDi(2, 0, 8) /\ DisplayFunction[8] = opADD(2, 2, 2)
      /\ DisplayFunction[9] = opADD(4, 6, 1) /\ DisplayFunction[10] = opLDR(4, 4, 0)
      /\ DisplayFunction[11] = opSTR(4, 0, outHEX) /\ DisplayFunction[13] = opADD(3, 3, 2)
      /\ DisplayFunction[14] = opSTR(3, 5, 8) /\ DisplayFunction[15] = opADDi(1, 1, 1)
      /\ DisplayFunction[16] = opADDi(4, 1, -16) /\ DisplayFunction[17] = opBR(4, -9)
      /\ DisplayFunction[18] = opJMP(7) /\ DisplayFunction[19] = 55298
  BY SMT DEF DisplayFunction, n, np, nz, nzp, opDEC, opINC, opPSE, opRET, op_PSE, p, z
<1>2. /\ M[137] = DisplayFunction[1] /\ M[138] = DisplayFunction[2]
      /\ M[139] = DisplayFunction[3] /\ M[140] = DisplayFunction[4]
      /\ M[141] = DisplayFunction[5] /\ M[142] = DisplayFunction[6]
      /\ M[143] = DisplayFunction[7] /\ M[144] = DisplayFunction[8]
      /\ M[145] = DisplayFunction[9] /\ M[146] = DisplayFunction[10]
      /\ M[147] = DisplayFunction[11] /\ M[149] = DisplayFunction[13]
      /\ M[150] = DisplayFunction[14] /\ M[151] = DisplayFunction[15]
      /\ M[152] = DisplayFunction[16] /\ M[153] = DisplayFunction[17]
      /\ M[154] = DisplayFunction[18] /\ M[155] = DisplayFunction[19]
  <2>1. \A c \in Int : 137 <= c /\ c < 156 => memory_contents[c] = DisplayFunction[c - 137 + 1]
    BY Placed DEF DisplayAt
  <2>2. \A c \in Int : 137 <= c /\ c < 156 /\ c # 148 => M[c] = DisplayFunction[c - 137 + 1]
    BY <2>1, CodeCells
  <2>. QED BY <2>2
<1>. QED BY <1>1, <1>2, SMT

\* The data change with the memory only.
LEMMA SameData == M' = M => Data' = Data
  BY DEF Data

\* A store outside the data leaves them alone.
LEMMA OtherData ==
  ASSUME \A i \in Int : 0 <= i /\ i <= 15 => M'[74 + i] = M[74 + i]
  PROVE  Data' = Data
<1>1. \A i \in 0..15 : M'[DataAt + i] = M[DataAt + i]
  BY DEF DataAt
<1>. QED BY <1>1, Zenon DEF Data

\* A word is shown on the hex display.  It falls into the last cell too.
Shows(word) ==
  /\ hex' = word /\ Data' = Data
  /\ recent' = recent /\ unsorted' = unsorted /\ turn' = turn

\* A store to xFFFF shows the word and changes none of the data.
LEMMA StepShow ==
  ASSUME Always, ExecuteProgram, pc < 255, pc # 0, NEW d \in Register, M[pc] = opSTR(d, 0, outHEX)
  PROVE  Always' /\ Jumps(pc + 1) /\ Shows(R[d])
<1>1. 0 \in Register /\ Off6(outHEX) /\ Wrap(outHEX) = IOAddress
  BY SwitchOffset, SMT DEF outHEX, inSW
<1>2. R[0] = 0
  BY AlwaysRegisters
<1>3. Wrap(R[0] + outHEX) = IOAddress
  <2>1. R[0] + outHEX = outHEX
    BY <1>2, SMT DEF outHEX
  <2>. QED BY <1>1, <2>1, Zenon
<1>4. IOAddress \in Int /\ Writable(IOAddress, R[d])
  BY SMT DEF IOAddress, Writable
<1>5. CellAt(IOAddress) = 255
  <2>1. MemSize = 256
    BY AlwaysFacts
  <2>. QED BY <2>1, SMT DEF CellAt, IOAddress
<1>6. /\ Always' /\ Jumps(pc + 1)
      /\ M' = [M EXCEPT ![CellAt(IOAddress)] = R[d]]
      /\ hex' = IF IOAddress = IOAddress THEN R[d] ELSE hex
      /\ recent' = recent /\ unsorted' = unsorted /\ turn' = turn
  BY <1>1, <1>3, <1>4, StepSTR, Zenon
<1>7. Data' = Data
  <2>1. M' = [M EXCEPT ![255] = R[d]]
    BY <1>5, <1>6, Zenon
  <2>2. M \in [Cell -> Word] /\ 255 \in Cell
    BY AlwaysFacts, Cells
  <2>3. ASSUME NEW i \in Int, 0 <= i, i <= 15 PROVE M'[74 + i] = M[74 + i]
    <3>1. 74 + i \in Cell /\ 74 + i # 255
      BY <2>3, Cells
    <3>. QED BY <2>1, <2>2, <3>1
  <2>. QED BY <2>3, OtherData
<1>. QED BY <1>6, <1>7, Zenon DEF Shows

\* After a further read the latest word is the one before the latest.
LEMMA SecondRead ==
  ASSUME Reads, Len(recent) \in Nat, 1 <= Len(recent)
  PROVE  Latest(1)' = Latest(0) /\ Len(recent') \in Nat /\ 2 <= Len(recent')
<1>1. Latest(0 + 1)' = Latest(0)
  BY DEF Reads
<1>2. \A l, m \in Nat : 1 <= l /\ (m > l \/ m = 16) => 2 <= m
  OBVIOUS
<1>3. Len(recent') \in Nat /\ (Len(recent') > Len(recent) \/ Len(recent') = 16)
  BY DEF Reads
<1>4. 2 <= Len(recent')
  BY <1>2, <1>3, Zenon
<1>. QED BY <1>1, <1>3, <1>4

-----------------------------------------------------------------------------
(* The first test programs *)

\* Every instruction of the first I/O test keeps the program in it.
LEMMA Test1Steps ==
  ASSUME Always, Test1Inv, ExecuteProgram
  PROVE  Always' /\ Test1Inv'
<1>. pc \in Int /\ 3 <= pc /\ pc <= 5
  BY AlwaysFacts DEF Test1Inv
<1>3. CASE pc = 3
  <2>0. M[pc] = opLDR(1, 0, inSW)
    BY <1>3, Test1Words
  <2>1. Always' /\ Writes(1, Latest(0)') /\ Reads /\ M' = M /\ hex' = hex /\ unsorted' = unsorted
    BY <1>3, <2>0, StepSwitches DEF Register
  <2>. QED BY <1>3, <2>1 DEF Test1Inv, Writes, OnlyRegister, Reads
<1>4. CASE pc = 4
  <2>0. M[pc] = opSTR(1, 0, outHEX)
    BY <1>4, Test1Words
  <2>1. Always' /\ Jumps(5) /\ Shows(R[1])
    BY <1>4, <2>0, StepShow DEF Register
  <2>. QED BY <1>4, <2>1 DEF Test1Inv, Jumps, Shows
<1>5. CASE pc = 5
  <2>0. M[pc] = opBR(7, -3)
    BY <1>5, Test1Words
  <2>b. Cond(7) /\ Off9(-3) /\ 0 <= pc + (-3) /\ pc < 255 /\ pc # 0
    BY <1>5 DEF Cond, Off9
  <2>1. Always' /\ Branches(7, -3) /\ R' = R /\ cc' = cc /\ Quiet
    BY <2>0, <2>b, StepBR, Zenon
  <2>2. pc' = 3
    BY <1>5, <2>1, AlwaysRegisters DEF Branches, Flags
  <2>. QED BY <2>1, <2>2 DEF Test1Inv
<1>. QED BY <1>3, <1>4, <1>5

\* Every instruction of the second I/O test preserves its invariant.
LEMMA EchoSteps ==
  ASSUME Always, EchoInv, ExecuteProgram
  PROVE  Always' /\ EchoInv'
<1>. pc \in Int /\ 6 <= pc /\ pc <= 10
  BY AlwaysFacts DEF EchoInv
<1>6. CASE pc = 6
  <2>0. Opcode(M[pc]) = op_PSE
    BY <1>6, EchoWords
  <2>1. Always' /\ Jumps(7) /\ Quiet
    BY <1>6, <2>0, StepPSE
  <2>. QED BY <1>6, <2>1 DEF EchoInv, Jumps, Quiet, Latest
<1>7. CASE pc = 7
  <2>0. M[pc] = opLDR(1, 0, inSW)
    BY <1>7, EchoWords
  <2>1. Always' /\ Writes(1, Latest(0)') /\ Reads /\ M' = M /\ hex' = hex /\ unsorted' = unsorted
    BY <1>7, <2>0, StepSwitches DEF Register
  <2>. QED BY <1>7, <2>1 DEF EchoInv, Writes, OnlyRegister, Reads
<1>8. CASE pc = 8
  <2>0. M[pc] = opSTR(1, 0, outHEX)
    BY <1>8, EchoWords
  <2>1. Always' /\ Jumps(9) /\ Shows(R[1])
    BY <1>8, <2>0, StepShow DEF Register
  <2>. QED BY <1>8, <2>1 DEF EchoInv, Jumps, Shows, Latest
<1>9. CASE pc = 9
  <2>0. Opcode(M[pc]) = op_PSE
    BY <1>9, EchoWords
  <2>1. Always' /\ Jumps(10) /\ Quiet
    BY <1>9, <2>0, StepPSE
  <2>. QED BY <1>9, <2>1 DEF EchoInv, Jumps, Quiet, Latest
<1>10. CASE pc = 10
  <2>0. M[pc] = opBR(7, -4)
    BY <1>10, EchoWords
  <2>b. Cond(7) /\ Off9(-4) /\ 0 <= pc + (-4) /\ pc < 255 /\ pc # 0
    BY <1>10 DEF Cond, Off9
  <2>1. Always' /\ Branches(7, -4) /\ R' = R /\ cc' = cc /\ Quiet
    BY <2>0, <2>b, StepBR, Zenon
  <2>2. pc' = 7
    BY <1>10, <2>1, AlwaysRegisters DEF Branches, Flags
  <2>. QED BY <2>1, <2>2 DEF EchoInv
<1>. QED BY <1>6, <1>7, <1>8, <1>9, <1>10

\* Every instruction of the XOR test preserves its invariant.
LEMMA XORSteps ==
  ASSUME Always, XORInv, ExecuteProgram
  PROVE  Always' /\ XORInv'
<1>. pc \in Int /\ 20 <= pc /\ pc <= 35
  BY AlwaysFacts DEF XORInv
<1>20. CASE pc = 20
  <2>0. M[pc] = opCLR(0)
    BY <1>20, XORWords
  <2>1. Always' /\ Writes(0, 0) /\ Quiet
    BY <1>20, <2>0, StepCLR DEF Register
  <2>. QED BY <1>20, <2>1 DEF XORInv, Writes, OnlyRegister, Quiet, Latest
<1>21. CASE pc = 21
  <2>0. Opcode(M[pc]) = op_PSE
    BY <1>21, XORWords
  <2>1. Always' /\ Jumps(22) /\ Quiet
    BY <1>21, <2>0, StepPSE
  <2>. QED BY <1>21, <2>1 DEF XORInv, Jumps, Quiet, Latest
<1>22. CASE pc = 22
  <2>0. M[pc] = opLDR(1, 0, inSW)
    BY <1>22, XORWords
  <2>1. Always' /\ Writes(1, Latest(0)') /\ Reads /\ M' = M /\ hex' = hex /\ unsorted' = unsorted
    BY <1>22, <2>0, StepSwitches DEF Register
  <2>. QED BY <1>22, <2>1, AlwaysHistory, SecondRead DEF XORInv, Writes, OnlyRegister, Reads
<1>23. CASE pc = 23
  <2>0. Opcode(M[pc]) = op_PSE
    BY <1>23, XORWords
  <2>1. Always' /\ Jumps(24) /\ Quiet
    BY <1>23, <2>0, StepPSE
  <2>. QED BY <1>23, <2>1 DEF XORInv, Jumps, Quiet, Latest
<1>24. CASE pc = 24
  <2>0. M[pc] = opLDR(2, 0, inSW)
    BY <1>24, XORWords
  <2>1. Always' /\ Writes(2, Latest(0)') /\ Reads /\ M' = M /\ hex' = hex /\ unsorted' = unsorted
    BY <1>24, <2>0, StepSwitches DEF Register
  <2>. QED BY <1>24, <2>1, AlwaysHistory, SecondRead DEF XORInv, Writes, OnlyRegister, Reads
<1>25. CASE pc = 25
  <2>0. M[pc] = opNOT(3, 1)
    BY <1>25, XORWords
  <2>1. Always' /\ Writes(3, Not(R[1])) /\ Quiet
    BY <1>25, <2>0, StepNOT DEF Register
  <2>. QED BY <1>25, <2>1 DEF XORInv, Writes, OnlyRegister, Quiet, Latest
<1>26. CASE pc = 26
  <2>0. M[pc] = opAND(3, 3, 2)
    BY <1>26, XORWords
  <2>1. Always' /\ Writes(3, And(R[3], R[2])) /\ Quiet
    BY <1>26, <2>0, StepAND DEF Register
  <2>. QED BY <1>26, <2>1 DEF XORInv, Writes, OnlyRegister, Quiet, Latest, OneSide
<1>27. CASE pc = 27
  <2>0. M[pc] = opNOT(3, 3)
    BY <1>27, XORWords
  <2>1. Always' /\ Writes(3, Not(R[3])) /\ Quiet
    BY <1>27, <2>0, StepNOT DEF Register
  <2>. QED BY <1>27, <2>1 DEF XORInv, Writes, OnlyRegister, Quiet, Latest
<1>28. CASE pc = 28
  <2>0. M[pc] = opNOT(4, 2)
    BY <1>28, XORWords
  <2>1. Always' /\ Writes(4, Not(R[2])) /\ Quiet
    BY <1>28, <2>0, StepNOT DEF Register
  <2>. QED BY <1>28, <2>1 DEF XORInv, Writes, OnlyRegister, Quiet, Latest
<1>29. CASE pc = 29
  <2>0. M[pc] = opAND(4, 4, 1)
    BY <1>29, XORWords
  <2>1. Always' /\ Writes(4, And(R[4], R[1])) /\ Quiet
    BY <1>29, <2>0, StepAND DEF Register
  <2>. QED BY <1>29, <2>1 DEF XORInv, Writes, OnlyRegister, Quiet, Latest, OneSide
<1>30. CASE pc = 30
  <2>0. M[pc] = opNOT(4, 4)
    BY <1>30, XORWords
  <2>1. Always' /\ Writes(4, Not(R[4])) /\ Quiet
    BY <1>30, <2>0, StepNOT DEF Register
  <2>. QED BY <1>30, <2>1 DEF XORInv, Writes, OnlyRegister, Quiet, Latest
<1>31. CASE pc = 31
  <2>0. M[pc] = opAND(3, 3, 4)
    BY <1>31, XORWords
  <2>1. Always' /\ Writes(3, And(R[3], R[4])) /\ Quiet
    BY <1>31, <2>0, StepAND DEF Register
  <2>. QED BY <1>31, <2>1 DEF XORInv, Writes, OnlyRegister, Quiet, Latest
<1>32. CASE pc = 32
  <2>0. M[pc] = opNOT(3, 3)
    BY <1>32, XORWords
  <2>1. Always' /\ Writes(3, Not(R[3])) /\ Quiet
    BY <1>32, <2>0, StepNOT DEF Register
  <2>. QED BY <1>32, <2>1 DEF XORInv, Writes, OnlyRegister, Quiet, Latest, XorWord
<1>33. CASE pc = 33
  <2>0. M[pc] = opSTR(3, 0, outHEX)
    BY <1>33, XORWords
  <2>1. Always' /\ Jumps(34) /\ Shows(R[3])
    BY <1>33, <2>0, StepShow DEF Register
  <2>. QED BY <1>33, <2>1 DEF XORInv, Jumps, Shows, Latest
<1>34. CASE pc = 34
  <2>0. Opcode(M[pc]) = op_PSE
    BY <1>34, XORWords
  <2>1. Always' /\ Jumps(35) /\ Quiet
    BY <1>34, <2>0, StepPSE
  <2>. QED BY <1>34, <2>1 DEF XORInv, Jumps, Quiet, Latest
<1>35. CASE pc = 35
  <2>0. M[pc] = opBR(7, -15)
    BY <1>35, XORWords
  <2>b. Cond(7) /\ Off9(-15) /\ 0 <= pc + (-15) /\ pc < 255 /\ pc # 0
    BY <1>35 DEF Cond, Off9
  <2>1. Always' /\ Branches(7, -15) /\ R' = R /\ cc' = cc /\ Quiet
    BY <2>0, <2>b, StepBR, Zenon
  <2>2. pc' = 21
    BY <1>35, <2>1, AlwaysRegisters DEF Branches, Flags
  <2>. QED BY <2>1, <2>2 DEF XORInv, Quiet
<1>. QED BY <1>20, <1>21, <1>22, <1>23, <1>24, <1>25, <1>26, <1>27, <1>28, <1>29, <1>30, <1>31, <1>32, <1>33, <1>34, <1>35

-----------------------------------------------------------------------------
(* The boot code and the menu of the sort *)

\* The boot code clears register 0 and jumps to the program the user chose.
LEMMA BootSteps ==
  ASSUME Always, BootInv, ExecuteProgram
  PROVE  Always' /\ Where'
<1>. pc \in Int /\ 0 <= pc /\ pc <= 2
  BY AlwaysFacts DEF BootInv
<1>0. CASE pc = 0
  <2>0. M[pc] = opCLR(0)
    BY <1>0, BootWords
  <2>1. Always' /\ Writes(0, 0) /\ Quiet
    BY <1>0, <2>0, StepCLR DEF Register
  <2>2. turn' = 1 /\ pc' = 1
    BY <1>0, <2>1 DEF BootInv, Writes, Quiet
  <2>3. BootInv'
    BY <2>2 DEF BootInv
  <2>. QED BY <2>1, <2>3, Zenon DEF Where
<1>1. CASE pc = 1
  <2>0. M[pc] = opLDR(1, 0, inSW)
    BY <1>1, BootWords
  <2>1. Always' /\ Writes(1, Latest(0)') /\ Reads /\ M' = M /\ hex' = hex /\ unsorted' = unsorted
    BY <1>1, <2>0, StepSwitches DEF Register
  <2>2. pc' = 2 /\ R'[1] = plan[1] /\ 1 <= Len(recent')
    BY <1>1, <2>1 DEF BootInv, Writes, Reads
  <2>3. plan' = plan
    BY <1>1, Fetch
  <2>4. BootInv'
    BY <2>2, <2>3 DEF BootInv
  <2>. QED BY <2>1, <2>4, Zenon DEF Where
<1>2. CASE pc = 2
  <2>0. M[pc] = opJMP(1)
    BY <1>2, BootWords
  <2>1. Always' /\ Jumps(R[1]) /\ Quiet
    BY <1>2, <2>0, StepJMP DEF Register
  <2>2. pc' = plan[1] /\ 1 <= Len(recent')
    BY <1>2, <2>1 DEF BootInv, Jumps, Quiet
  <2>3. plan[1] \in Programs
    BY Zenon DEF Always, ChoosesProgram
  <2>4. CASE plan[1] = IOTest1At
    <3>1. Test1Inv'
      BY <2>2, <2>4 DEF IOTest1At, Test1Inv
    <3>. QED BY <2>1, <3>1, Zenon DEF Where
  <2>5. CASE plan[1] = IOTest2At
    <3>1. EchoInv'
      BY <2>2, <2>5 DEF IOTest2At, EchoInv
    <3>. QED BY <2>1, <3>1, Zenon DEF Where
  <2>6. CASE plan[1] = XORAt
    <3>1. XORInv'
      BY <2>2, <2>6 DEF XORAt, XORInv
    <3>. QED BY <2>1, <3>1, Zenon DEF Where
  <2>7. CASE plan[1] = MultiplierAt
    <3>1. MultiplierInv'
      BY <2>2, <2>7 DEF MultiplierAt, MultiplierInv
    <3>. QED BY <2>1, <3>1, Zenon DEF Where
  <2>8. CASE plan[1] = SortMenuAt
    <3>1. MenuInv'
      BY <2>2, <2>8 DEF SortMenuAt, MenuInv
    <3>. QED BY <2>1, <3>1, Zenon DEF Where
  <2>. QED BY <2>3, <2>4, <2>5, <2>6, <2>7, <2>8, Zenon DEF Programs
<1>. QED BY <1>0, <1>1, <1>2

\* The sort starts with the data it is called with.
LEMMA SortStarts ==
  ASSUME Always, M' = M, unsorted' = Data, pc' = 119, MenuInv, 94 <= pc, R'[7] = 104,
         OnlyRegister(7), recent' = recent
  PROVE  SortInv'
<1>1. Data' = Data
  BY Zenon DEF Data
<1>2. DataInSort' = Data
  BY <1>1, SMT DEF DataInSort, SortAt
<1>3. SameWords(DataInSort)'
  BY <1>2, Zenon DEF SameWords
<1>4. Among(DataInSort)'
  BY <1>2 DEF Among
<1>5. R'[6] = DataAt /\ 1 <= Len(recent')
  BY DEF MenuInv, OnlyRegister
<1>. QED BY <1>3, <1>4, <1>5 DEF SortInv, SortPlace, SortOrder

\* Every instruction of the menu, its three calls included.
LEMMA MenuSteps ==
  ASSUME Always, MenuInv, ExecuteProgram
  PROVE  Always' /\ Where'
<1>. pc \in Int /\ 90 <= pc /\ pc <= 108
  BY AlwaysFacts DEF MenuInv
<1>. SUFFICES Always' /\ (MenuInv' \/ EntryInv' \/ SortInv' \/ DisplayInv')
  BY Zenon DEF Where
<1>90. CASE pc = 90
  <2>0. M[pc] = opCLR(0)
    BY <1>90, MenuWords
  <2>1. Always' /\ Writes(0, 0) /\ Quiet
    BY <1>90, <2>0, StepCLR DEF Register
  <2>. QED BY <1>90, <2>1 DEF MenuInv, Writes, OnlyRegister, Quiet
<1>91. CASE pc = 91
  <2>0. M[pc] = opJSR(0)
    BY <1>91, MenuWords
  <2>1. /\ Always' /\ R'[7] = 92 /\ OnlyRegister(7) /\ cc' = cc /\ pc' = 92
        /\ M' = M /\ hex' = hex /\ recent' = recent
        /\ unsorted' = IF pc' = SortAt THEN Data ELSE unsorted
    BY <1>91, <2>0, StepJSR DEF Off11
  <2>2. MenuInv'
    BY <1>91, <2>1 DEF MenuInv, OnlyRegister
  <2>. QED BY <2>1, <2>2
<1>92. CASE pc = 92
  <2>0. M[pc] = opADDi(6, 7, -16)
    BY <1>92, MenuWords
  <2>1. Always' /\ Writes(6, Wrap(R[7] + (-16))) /\ Quiet
    BY <1>92, <2>0, StepADDi DEF Register, Imm5
  <2>. QED BY <1>92, <2>1 DEF MenuInv, Writes, OnlyRegister, Quiet, DataAt, Wrap
<1>93. CASE pc = 93
  <2>0. M[pc] = opADDi(6, 6, -2)
    BY <1>93, MenuWords
  <2>1. Always' /\ Writes(6, Wrap(R[6] + (-2))) /\ Quiet
    BY <1>93, <2>0, StepADDi DEF Register, Imm5
  <2>. QED BY <1>93, <2>1 DEF MenuInv, Writes, OnlyRegister, Quiet, DataAt, Wrap
<1>94. CASE pc = 94
  <2>0. Opcode(M[pc]) = op_PSE
    BY <1>94, MenuWords
  <2>1. Always' /\ Jumps(95) /\ Quiet
    BY <1>94, <2>0, StepPSE
  <2>. QED BY <1>94, <2>1 DEF MenuInv, Jumps, Quiet
<1>95. CASE pc = 95
  <2>0. M[pc] = opLDR(1, 0, inSW)
    BY <1>95, MenuWords
  <2>1. Always' /\ Writes(1, Latest(0)') /\ Reads /\ M' = M /\ hex' = hex /\ unsorted' = unsorted
    BY <1>95, <2>0, StepSwitches DEF Register
  <2>. QED BY <1>95, <2>1, AlwaysHistory DEF MenuInv, Writes, OnlyRegister, Reads
<1>96. CASE pc = 96
  <2>0. M[pc] = opBR(2, -3)
    BY <1>96, MenuWords
  <2>b. Cond(2) /\ Off9(-3) /\ 0 <= pc + (-3) /\ pc < 255 /\ pc # 0
    BY <1>96 DEF Cond, Off9
  <2>1. Always' /\ Branches(2, -3) /\ R' = R /\ cc' = cc /\ Quiet
    BY <2>0, <2>b, StepBR, Zenon
  <2>. QED BY <1>96, <2>1 DEF MenuInv, Branches, Quiet
<1>97. CASE pc = 97
  <2>0. M[pc] = opADDi(1, 1, -1)
    BY <1>97, MenuWords
  <2>1. Always' /\ Writes(1, Wrap(R[1] + (-1))) /\ Quiet
    BY <1>97, <2>0, StepADDi DEF Register, Imm5
  <2>. QED BY <1>97, <2>1 DEF MenuInv, Writes, OnlyRegister, Quiet
<1>98. CASE pc = 98
  <2>0. M[pc] = opBR(5, 2)
    BY <1>98, MenuWords
  <2>b. Cond(5) /\ Off9(2) /\ 0 <= pc + (2) /\ pc < 255 /\ pc # 0
    BY <1>98 DEF Cond, Off9
  <2>1. Always' /\ Branches(5, 2) /\ R' = R /\ cc' = cc /\ Quiet
    BY <2>0, <2>b, StepBR, Zenon
  <2>. QED BY <1>98, <2>1 DEF MenuInv, Branches, Quiet
<1>99. CASE pc = 99
  <2>0. M[pc] = opJSR(9)
    BY <1>99, MenuWords
  <2>1. /\ Always' /\ R'[7] = 100 /\ OnlyRegister(7) /\ cc' = cc /\ pc' = 109
        /\ M' = M /\ hex' = hex /\ recent' = recent
        /\ unsorted' = IF pc' = SortAt THEN Data ELSE unsorted
    BY <1>99, <2>0, StepJSR DEF Off11
  <2>2. EntryInv'
    BY <1>99, <2>1 DEF MenuInv, EntryInv, OnlyRegister
  <2>. QED BY <2>1, <2>2
<1>100. CASE pc = 100
  <2>0. M[pc] = opBR(7, -7)
    BY <1>100, MenuWords
  <2>b. Cond(7) /\ Off9(-7) /\ 0 <= pc + (-7) /\ pc < 255 /\ pc # 0
    BY <1>100 DEF Cond, Off9
  <2>1. Always' /\ Branches(7, -7) /\ R' = R /\ cc' = cc /\ Quiet
    BY <2>0, <2>b, StepBR, Zenon
  <2>. QED BY <1>100, <2>1 DEF MenuInv, Branches, Quiet
<1>101. CASE pc = 101
  <2>0. M[pc] = opADDi(1, 1, -1)
    BY <1>101, MenuWords
  <2>1. Always' /\ Writes(1, Wrap(R[1] + (-1))) /\ Quiet
    BY <1>101, <2>0, StepADDi DEF Register, Imm5
  <2>. QED BY <1>101, <2>1 DEF MenuInv, Writes, OnlyRegister, Quiet
<1>102. CASE pc = 102
  <2>0. M[pc] = opBR(5, 2)
    BY <1>102, MenuWords
  <2>b. Cond(5) /\ Off9(2) /\ 0 <= pc + (2) /\ pc < 255 /\ pc # 0
    BY <1>102 DEF Cond, Off9
  <2>1. Always' /\ Branches(5, 2) /\ R' = R /\ cc' = cc /\ Quiet
    BY <2>0, <2>b, StepBR, Zenon
  <2>. QED BY <1>102, <2>1 DEF MenuInv, Branches, Quiet
<1>103. CASE pc = 103
  <2>0. M[pc] = opJSR(15)
    BY <1>103, MenuWords
  <2>1. /\ Always' /\ R'[7] = 104 /\ OnlyRegister(7) /\ cc' = cc /\ pc' = 119
        /\ M' = M /\ hex' = hex /\ recent' = recent
        /\ unsorted' = IF pc' = SortAt THEN Data ELSE unsorted
    BY <1>103, <2>0, StepJSR DEF Off11
  <2>2. SortInv'
    BY <1>103, <2>1, SortStarts DEF SortAt
  <2>. QED BY <2>1, <2>2
<1>104. CASE pc = 104
  <2>0. M[pc] = opBR(7, -11)
    BY <1>104, MenuWords
  <2>b. Cond(7) /\ Off9(-11) /\ 0 <= pc + (-11) /\ pc < 255 /\ pc # 0
    BY <1>104 DEF Cond, Off9
  <2>1. Always' /\ Branches(7, -11) /\ R' = R /\ cc' = cc /\ Quiet
    BY <2>0, <2>b, StepBR, Zenon
  <2>. QED BY <1>104, <2>1 DEF MenuInv, Branches, Quiet
<1>105. CASE pc = 105
  <2>0. M[pc] = opADDi(1, 1, -1)
    BY <1>105, MenuWords
  <2>1. Always' /\ Writes(1, Wrap(R[1] + (-1))) /\ Quiet
    BY <1>105, <2>0, StepADDi DEF Register, Imm5
  <2>. QED BY <1>105, <2>1 DEF MenuInv, Writes, OnlyRegister, Quiet
<1>106. CASE pc = 106
  <2>0. M[pc] = opBR(5, -13)
    BY <1>106, MenuWords
  <2>b. Cond(5) /\ Off9(-13) /\ 0 <= pc + (-13) /\ pc < 255 /\ pc # 0
    BY <1>106 DEF Cond, Off9
  <2>1. Always' /\ Branches(5, -13) /\ R' = R /\ cc' = cc /\ Quiet
    BY <2>0, <2>b, StepBR, Zenon
  <2>. QED BY <1>106, <2>1 DEF MenuInv, Branches, Quiet
<1>107. CASE pc = 107
  <2>0. M[pc] = opJSR(29)
    BY <1>107, MenuWords
  <2>1. /\ Always' /\ R'[7] = 108 /\ OnlyRegister(7) /\ cc' = cc /\ pc' = 137
        /\ M' = M /\ hex' = hex /\ recent' = recent
        /\ unsorted' = IF pc' = SortAt THEN Data ELSE unsorted
    BY <1>107, <2>0, StepJSR DEF Off11
  <2>2. DisplayInv'
    BY <1>107, <2>1 DEF MenuInv, DisplayInv, OnlyRegister
  <2>. QED BY <2>1, <2>2
<1>108. CASE pc = 108
  <2>0. M[pc] = opBR(7, -15)
    BY <1>108, MenuWords
  <2>b. Cond(7) /\ Off9(-15) /\ 0 <= pc + (-15) /\ pc < 255 /\ pc # 0
    BY <1>108 DEF Cond, Off9
  <2>1. Always' /\ Branches(7, -15) /\ R' = R /\ cc' = cc /\ Quiet
    BY <2>0, <2>b, StepBR, Zenon
  <2>2. pc' = 94
    BY <1>108, <2>1, AlwaysRegisters DEF Branches, Flags
  <2>. QED BY <1>108, <2>1, <2>2 DEF MenuInv, Quiet
<1>. QED BY <1>90, <1>91, <1>92, <1>93, <1>94, <1>95, <1>96, <1>97, <1>98, <1>99, <1>100, <1>101, <1>102, <1>103, <1>104, <1>105, <1>106, <1>107, <1>108

\* The sign of a word is its bit 15.
LEMMA Signs ==
  ASSUME NEW w \in Word
  PROVE  FlagOf(w) = IF w >= 32768 THEN "n" ELSE IF w = 0 THEN "z" ELSE "p"
  BY SMT DEF FlagOf, Bit, Word

\* The counters of the loops: below sixteen, the difference is negative.
LEMMA BelowSixteen ==
  ASSUME NEW k \in Int, 1 <= k, k <= 16
  PROVE  FlagOf(Wrap(k - 16)) = (IF k = 16 THEN "z" ELSE "n")
<1>1. Wrap(k - 16) = IF k = 16 THEN 0 ELSE k + 65520
  BY SMT DEF Wrap
<1>2. Wrap(k - 16) \in Word
  BY <1>1, SMT DEF Word
<1>. QED BY <1>1, <1>2, Signs, SMT

\* The pause that is rewritten is a PSE.
LEMMA PauseWord == ASSUME Always PROVE Opcode(M[148]) = op_PSE
<1>1. M[148] \in Word
  BY Cells
<1>2. 55298 <= M[148] /\ M[148] <= 55554
  BY SMT DEF Always, Code
<1>. QED BY <1>1, <1>2, SMT DEF Opcode, op_PSE, Word

-----------------------------------------------------------------------------
(* The display function *)

\* Every instruction of the display function, the store into its own pause
\* included.
LEMMA DisplaySteps ==
  ASSUME Always, DisplayInv, ExecuteProgram
  PROVE  Always' /\ Where'
<1>. pc \in Int /\ 137 <= pc /\ pc <= 154
  BY AlwaysFacts DEF DisplayInv
<1>. SUFFICES Always' /\ (DisplayInv' \/ MenuInv')
  BY Zenon DEF Where
<1>137. CASE pc = 137
  <2>0. M[pc] = opCLR(1)
    BY <1>137, DisplayWords
  <2>1. Always' /\ Writes(1, 0) /\ Quiet
    BY <1>137, <2>0, StepCLR DEF Register
  <2>. QED BY <1>137, <2>1 DEF DisplayInv, Writes, OnlyRegister, Quiet
<1>138. CASE pc = 138
  <2>0. M[pc] = opADD(4, 7, 0)
    BY <1>138, DisplayWords
  <2>1. Always' /\ Writes(4, Wrap(R[7] + R[0])) /\ Quiet
    BY <1>138, <2>0, StepADD DEF Register
  <2>2. R[7] = 108 /\ R[0] = 0
    BY <1>138, AlwaysRegisters DEF DisplayInv
  <2>3. Wrap(R[7] + R[0]) = 108
    BY <2>2, WrapWord
  <2>4. R'[4] = 108
    BY <2>1, <2>3, Zenon DEF Writes
  <2>. QED BY <1>138, <2>1, <2>4 DEF DisplayInv, Writes, OnlyRegister, Quiet
<1>139. CASE pc = 139
  <2>0. M[pc] = opJSR(0)
    BY <1>139, DisplayWords
  <2>1. /\ Always' /\ R'[7] = 140 /\ OnlyRegister(7) /\ cc' = cc /\ pc' = 140
        /\ M' = M /\ hex' = hex /\ recent' = recent
        /\ unsorted' = IF pc' = SortAt THEN Data ELSE unsorted
    BY <1>139, <2>0, StepJSR DEF Off11
  <2>. QED BY <1>139, <2>1 DEF DisplayInv, OnlyRegister
<1>140. CASE pc = 140
  <2>0. M[pc] = opADD(5, 7, 0)
    BY <1>140, DisplayWords
  <2>1. Always' /\ Writes(5, Wrap(R[7] + R[0])) /\ Quiet
    BY <1>140, <2>0, StepADD DEF Register
  <2>2. R[7] = 140 /\ R[0] = 0
    BY <1>140, AlwaysRegisters DEF DisplayInv
  <2>3. Wrap(R[7] + R[0]) = 140
    BY <2>2, WrapWord
  <2>4. R'[5] = 140
    BY <2>1, <2>3, Zenon DEF Writes
  <2>. QED BY <1>140, <2>1, <2>4 DEF DisplayInv, Writes, OnlyRegister, Quiet
<1>141. CASE pc = 141
  <2>0. M[pc] = opADD(7, 4, 0)
    BY <1>141, DisplayWords
  <2>1. Always' /\ Writes(7, Wrap(R[4] + R[0])) /\ Quiet
    BY <1>141, <2>0, StepADD DEF Register
  <2>2. R[4] = 108 /\ R[0] = 0
    BY <1>141, AlwaysRegisters DEF DisplayInv
  <2>3. Wrap(R[4] + R[0]) = 108
    BY <2>2, WrapWord
  <2>4. R'[7] = 108
    BY <2>1, <2>3, Zenon DEF Writes
  <2>. QED BY <1>141, <2>1, <2>4 DEF DisplayInv, Writes, OnlyRegister, Quiet
<1>142. CASE pc = 142
  <2>c. R[5] + 15 = 155 /\ Near(155) /\ Off6(15)
    BY <1>142 DEF DisplayInv, Near, Off6
  <2>0. M[pc] = opLDR(3, 5, 15)
    BY <1>142, DisplayWords
  <2>1. Always' /\ Writes(3, M[155]) /\ Quiet
    BY <1>142, <2>0, StepLDR, <2>c DEF Register, Off6, Near
  <2>2. M[155] = 55298
    BY DisplayWords
  <2>. QED BY <1>142, <2>1, <2>2 DEF DisplayInv, Writes, OnlyRegister, Quiet
<1>143. CASE pc = 143
  <2>0. M[pc] = opADDi(2, 0, 8)
    BY <1>143, DisplayWords
  <2>1. Always' /\ Writes(2, Wrap(R[0] + 8)) /\ Quiet
    BY <1>143, <2>0, StepADDi DEF Register, Imm5
  <2>2. R[0] = 0
    BY <1>143, AlwaysRegisters
  <2>3. Wrap(R[0] + 8) = 8
    BY <2>2, WrapWord
  <2>4. R'[2] = 8
    BY <2>1, <2>3, Zenon DEF Writes
  <2>. QED BY <1>143, <2>1, <2>4 DEF DisplayInv, Writes, OnlyRegister, Quiet
<1>144. CASE pc = 144
  <2>0. M[pc] = opADD(2, 2, 2)
    BY <1>144, DisplayWords
  <2>1. Always' /\ Writes(2, Wrap(R[2] + R[2])) /\ Quiet
    BY <1>144, <2>0, StepADD DEF Register
  <2>2. R[2] = 8
    BY <1>144 DEF DisplayInv
  <2>3. Wrap(R[2] + R[2]) = 16
    BY <2>2, WrapWord
  <2>4. R'[2] = 16
    BY <2>1, <2>3, Zenon DEF Writes
  <2>. QED BY <1>144, <2>1, <2>4 DEF DisplayInv, Writes, OnlyRegister, Quiet
<1>145. CASE pc = 145
  <2>a. R[6] = 74 /\ R[1] \in Int /\ 0 <= R[1] /\ R[1] <= 15
    BY <1>145, RegisterRange DEF DisplayInv, DataAt
  <2>0. M[pc] = opADD(4, 6, 1)
    BY <1>145, DisplayWords
  <2>1. Always' /\ Writes(4, Wrap(R[6] + R[1])) /\ Quiet
    BY <1>145, <2>0, StepADD DEF Register
  <2>2. /\ R[6] + R[1] = DataAt + R[1] /\ R[1] \in Int
        /\ R[6] + R[1] \in Int /\ 0 <= R[6] + R[1] /\ R[6] + R[1] <= 65535
    BY <2>a DEF DataAt
  <2>3. Wrap(R[6] + R[1]) = DataAt + R[1]
    BY <2>2, WrapWord
  <2>4. R'[4] = DataAt + R[1]
    BY <2>1, <2>3, SMT DEF Writes
  <2>. QED BY <1>145, <2>1, <2>2, <2>4 DEF DisplayInv, Writes, OnlyRegister, Quiet
<1>146. CASE pc = 146
  <2>a. R[4] = 74 + R[1] /\ R[1] \in Int /\ 0 <= R[1] /\ R[1] <= 15
    BY <1>146, RegisterRange DEF DisplayInv, DataAt
  <2>c. R[4] + 0 = 74 + R[1] /\ Near(74 + R[1]) /\ Off6(0) /\ 74 + R[1] \in Int
    BY <2>a DEF Near, Off6
  <2>0. M[pc] = opLDR(4, 4, 0)
    BY <1>146, DisplayWords
  <2>1. Always' /\ Writes(4, M[74 + R[1]]) /\ Quiet
    BY <1>146, <2>0, StepLDR, <2>c DEF Register, Off6, Near
  <2>2. M[74 + R[1]] = Data[R[1]]
    BY <2>a, DataCells
  <2>3. Data' = Data
    BY <2>1, SameData DEF Quiet
  <2>. QED BY <1>146, <2>1, <2>2, <2>3 DEF DisplayInv, Writes, OnlyRegister, Quiet
<1>147. CASE pc = 147
  <2>0. M[pc] = opSTR(4, 0, outHEX)
    BY <1>147, DisplayWords
  <2>1. Always' /\ Jumps(148) /\ Shows(R[4])
    BY <1>147, <2>0, StepShow DEF Register
  <2>. QED BY <1>147, <2>1 DEF DisplayInv, Jumps, Shows
<1>148. CASE pc = 148
  <2>0. Opcode(M[pc]) = op_PSE
    BY <1>148, PauseWord
  <2>1. Always' /\ Jumps(149) /\ Quiet
    BY <1>148, <2>0, StepPSE
  <2>2. Data' = Data
    BY <2>1, SameData DEF Quiet
  <2>. QED BY <1>148, <2>1, <2>2 DEF DisplayInv, Jumps, Quiet
<1>149. CASE pc = 149
  <2>0. M[pc] = opADD(3, 3, 2)
    BY <1>149, DisplayWords
  <2>1. Always' /\ Writes(3, Wrap(R[3] + R[2])) /\ Quiet
    BY <1>149, <2>0, StepADD DEF Register
  <2>2. /\ R[3] + R[2] = 55298 + 16 * R[1] + 16 /\ R[1] \in Int
        /\ R[3] + R[2] \in Int /\ 0 <= R[3] + R[2] /\ R[3] + R[2] <= 65535
    BY <1>149, RegisterRange, SMTT(30) DEF DisplayInv, DataAt
  <2>3. Wrap(R[3] + R[2]) = 55298 + 16 * R[1] + 16
    BY <2>2, WrapWord
  <2>4. R'[3] = 55298 + 16 * R[1] + 16
    BY <2>1, <2>3, SMT DEF Writes
  <2>. QED BY <1>149, <2>1, <2>2, <2>4 DEF DisplayInv, Writes, OnlyRegister, Quiet
<1>150. CASE pc = 150
  <2>a. R[5] = 140 /\ R[1] \in Int /\ R[3] = 55298 + 16 * R[1] + 16 /\ 0 <= R[1] /\ R[1] <= 15
    BY <1>150, RegisterRange DEF DisplayInv
  <2>c. Wrap(R[5] + 8) = 148 /\ Writable(148, R[3]) /\ Off6(8)
    BY <2>a, WrapWord, SMT DEF Writable, Off6
  <2>0. M[pc] = opSTR(3, 5, 8)
    BY <1>150, DisplayWords
  <2>1. /\ Always' /\ Jumps(pc + 1)
        /\ hex' = IF 148 = IOAddress THEN R[3] ELSE hex
        /\ recent' = recent /\ unsorted' = unsorted /\ turn' = turn
    BY <1>150, <2>0, StepSTR, <2>c DEF Register, Off6, Writable
  <2>2. R' = R /\ pc' = 151 /\ recent' = recent
    BY <1>150, <2>1 DEF Jumps
  <2>3. /\ R[6] = DataAt /\ 1 <= Len(recent) /\ R[7] = 108 /\ R[5] = 140 /\ R[1] <= 15
        /\ R[2] = 16 /\ R[3] = 55298 + 16 * R[1] + 16
    BY <1>150 DEF DisplayInv
  <2>4. DisplayInv'
    BY <2>2, <2>3, SMT DEF DisplayInv
  <2>. QED BY <2>1, <2>4, Zenon
<1>151. CASE pc = 151
  <2>0. M[pc] = opADDi(1, 1, 1)
    BY <1>151, DisplayWords
  <2>1. Always' /\ Writes(1, Wrap(R[1] + 1)) /\ Quiet
    BY <1>151, <2>0, StepADDi DEF Register, Imm5
  <2>2. /\ R[1] + 1 = R[1] + 1 /\ R[1] \in Int
        /\ R[1] + 1 \in Int /\ 0 <= R[1] + 1 /\ R[1] + 1 <= 65535
    BY <1>151, RegisterRange, SMTT(30) DEF DisplayInv, DataAt
  <2>3. Wrap(R[1] + 1) = R[1] + 1
    BY <2>2, WrapWord
  <2>4. R'[1] = R[1] + 1
    BY <2>1, <2>3, SMT DEF Writes
  <2>5. R[1] <= 15 /\ R[3] = 55298 + 16 * R[1] + 16
    BY <1>151 DEF DisplayInv
  <2>6. R'[3] = 55298 + 16 * R'[1] /\ 1 <= R'[1] /\ R'[1] <= 16
    BY <2>1, <2>2, <2>4, <2>5, RegisterRange, SMT DEF Writes, OnlyRegister
  <2>. QED BY <1>151, <2>1, <2>2, <2>4, <2>5, <2>6, SMTT(30) DEF DisplayInv, Writes, OnlyRegister, Quiet
<1>152. CASE pc = 152
  <2>0. M[pc] = opADDi(4, 1, -16)
    BY <1>152, DisplayWords
  <2>1. Always' /\ Writes(4, Wrap(R[1] + (-16))) /\ Quiet
    BY <1>152, <2>0, StepADDi DEF Register, Imm5
  <2>2. R[1] \in Int /\ R[1] + (-16) = R[1] - 16
    BY <1>152, RegisterRange
  <2>3. cc' = {FlagOf(Wrap(R[1] - 16))}
    BY <2>1, <2>2, Zenon DEF Writes
  <2>. QED BY <1>152, <2>1, <2>2, <2>3 DEF DisplayInv, Writes, OnlyRegister, Quiet
<1>153. CASE pc = 153
  <2>0. M[pc] = opBR(4, -9)
    BY <1>153, DisplayWords
  <2>b. Cond(4) /\ Off9(-9) /\ 0 <= pc + (-9) /\ pc < 255 /\ pc # 0
    BY <1>153 DEF Cond, Off9
  <2>1. Always' /\ Branches(4, -9) /\ R' = R /\ cc' = cc /\ Quiet
    BY <2>0, <2>b, StepBR, Zenon
  <2>2. pc' = IF R[1] < 16 THEN 145 ELSE 154
    <3>0. R[1] \in Int /\ 1 <= R[1] /\ R[1] <= 16 /\ cc = {FlagOf(Wrap(R[1] - 16))}
      BY <1>153, RegisterRange DEF DisplayInv
    <3>1. CASE R[1] < 16
      <4>1. cc = {"n"}
        BY <3>0, <3>1, BelowSixteen
      <4>. QED BY <1>153, <2>1, <3>1, <4>1 DEF Branches
    <3>2. CASE R[1] = 16
      <4>1. cc = {"z"}
        BY <3>0, <3>2, BelowSixteen
      <4>. QED BY <1>153, <2>1, <3>2, <4>1 DEF Branches
    <3>. QED BY <3>0, <3>1, <3>2
  <2>3. R[1] \in Int /\ 1 <= R[1] /\ R[1] <= 16
    BY <1>153, RegisterRange DEF DisplayInv
  <2>4. CASE R[1] < 16
    <3>1. pc' = 145 /\ R[1] <= 15 /\ 0 <= R[1]
      BY <2>2, <2>3, <2>4
    <3>. QED BY <1>153, <2>1, <3>1 DEF DisplayInv, Quiet
  <2>5. CASE R[1] = 16
    <3>1. pc' = 154
      BY <2>2, <2>5
    <3>. QED BY <1>153, <2>1, <2>3, <3>1 DEF DisplayInv, Quiet
  <2>. QED BY <2>3, <2>4, <2>5
<1>154. CASE pc = 154
  <2>0. M[pc] = opJMP(7)
    BY <1>154, DisplayWords
  <2>1. Always' /\ Jumps(R[7]) /\ Quiet
    BY <1>154, <2>0, StepJMP DEF Register
  <2>. QED BY <1>154, <2>1 DEF DisplayInv, MenuInv, Jumps, Quiet
<1>. QED BY <1>137, <1>138, <1>139, <1>140, <1>141, <1>142, <1>143, <1>144, <1>145, <1>146, <1>147, <1>148, <1>149, <1>150, <1>151, <1>152, <1>153, <1>154

-----------------------------------------------------------------------------
(* The entry function *)

\* The data stored stay so when neither they nor the words read change.
LEMMA StoredKept ==
  ASSUME Data' = Data, recent' = recent, R'[1] = R[1]
  PROVE  /\ Stored(R[1]) => Stored(R[1])'
         /\ OneBehind(R[1]) => OneBehind(R[1])'
         /\ Stored(R[1] + 1) => Stored(R[1] + 1)'
  BY DEF Stored, OneBehind, Latest

\* A further word read leaves the stored data one word behind.
LEMMA StoredRead ==
  ASSUME Data' = Data, R'[1] = R[1], Reads, R[1] \in Int, R[1] <= 15,
         Len(recent) \in Nat, R[1] <= Len(recent), Stored(R[1])
  PROVE  OneBehind(R[1])' /\ R'[1] < Len(recent')
<1>1. ASSUME NEW i \in Int, 0 <= i, i < R[1] PROVE Data'[i] = Latest(R[1] - i)'
  <2>. PICK k \in Int : k = R[1] - 1 - i
    OBVIOUS
  <2>1. k \in Int /\ 0 <= k /\ k <= 14 /\ k < Len(recent) /\ k + 1 = R[1] - i
    BY <1>1
  <2>2. Data[i] = Latest(k)
    BY <1>1 DEF Stored
  <2>3. Latest(k + 1)' = Latest(k)
    BY <2>1, Zenon DEF Reads
  <2>. QED BY <2>1, <2>2, <2>3
<1>2. OneBehind(R[1])'
  BY <1>1 DEF OneBehind
<1>3. R'[1] < Len(recent')
  <2>1. \A l, m \in Nat : R[1] <= l /\ (m > l \/ m = 16) => R[1] < m
    OBVIOUS
  <2>2. Len(recent') \in Nat /\ (Len(recent') > Len(recent) \/ Len(recent') = 16)
    BY DEF Reads
  <2>. QED BY <2>1, <2>2, Zenon
<1>. QED BY <1>2, <1>3

\* Storing the word just read brings the data up to date.
LEMMA StoredWord ==
  ASSUME Always, R[1] \in Int, 0 <= R[1], R[1] <= 15, OneBehind(R[1]), R[2] = Latest(0),
         M' = [M EXCEPT ![74 + R[1]] = R[2]], recent' = recent, R' = R, Always'
  PROVE  Stored(R[1] + 1)'
<1>1. M \in [Cell -> Word] /\ \A i \in Int : 0 <= i /\ i <= 15 => 74 + i \in Cell
  BY AlwaysFacts, Cells
<1>2. \A i \in Int : 0 <= i /\ i <= 15 => Data[i] = M[74 + i]
  BY DataCells
<1>3. \A i \in Int : 0 <= i /\ i <= 15 => Data'[i] = M'[74 + i]
  <2>1. ASSUME NEW i \in Int, 0 <= i, i <= 15 PROVE Data'[i] = M'[74 + i]
    <3>1. i \in 0..15
      BY <2>1
    <3>. QED BY <3>1, Zenon DEF Data, DataAt
  <2>. QED BY <2>1
<1>4. ASSUME NEW i \in Int, 0 <= i, i < R[1] + 1 PROVE Data'[i] = Latest(R[1] - i)
  <2>0. 0 <= i /\ i <= 15 /\ i <= R[1]
    BY <1>4
  <2>1. CASE i = R[1]
    <3>1. Data'[i] = R[2]
      BY <1>1, <1>3, <2>0, <2>1
    <3>2. R[1] - i = 0
      BY <2>1
    <3>. QED BY <3>1, <3>2, Zenon
  <2>2. CASE i # R[1]
    <3>1. Data'[i] = Data[i]
      BY <1>1, <1>2, <1>3, <2>0, <2>2
    <3>2. i < R[1]
      BY <2>0, <2>2
    <3>3. Data[i] = Latest(R[1] - i)
      BY <1>4, <3>2, Zenon DEF OneBehind
    <3>. QED BY <3>1, <3>3, Zenon
  <2>. QED BY <2>1, <2>2
<1>5. ASSUME NEW i \in Int, 0 <= i, i < R'[1] + 1 PROVE Data'[i] = Latest((R[1] + 1) - 1 - i)'
  <2>1. R'[1] = R[1] /\ (R[1] + 1) - 1 - i = R[1] - i
    OBVIOUS
  <2>2. Data'[i] = Latest(R[1] - i)
    BY <1>4, <1>5, <2>1
  <2>. QED BY <2>1, <2>2 DEF Latest
<1>. QED BY <1>5 DEF Stored

\* Every instruction of the entry function.
LEMMA EntrySteps ==
  ASSUME Always, EntryInv, ExecuteProgram
  PROVE  Always' /\ Where'
<1>. pc \in Int /\ 109 <= pc /\ pc <= 118
  BY AlwaysFacts DEF EntryInv
<1>. SUFFICES Always' /\ (EntryInv' \/ MenuInv')
  BY Zenon DEF Where
<1>109. CASE pc = 109
  <2>0. M[pc] = opCLR(1)
    BY <1>109, EntryWords
  <2>1. Always' /\ Writes(1, 0) /\ Quiet
    BY <1>109, <2>0, StepCLR DEF Register
  <2>2. R'[1] = 0 /\ Stored(R[1])'
    BY <2>1 DEF Writes, Stored
  <2>. QED BY <1>109, <2>1, <2>2, AlwaysHistory DEF EntryInv, Writes, OnlyRegister, Quiet
<1>110. CASE pc = 110
  <2>0. M[pc] = opSTR(1, 0, outHEX)
    BY <1>110, EntryWords
  <2>1. Always' /\ Jumps(111) /\ Shows(R[1])
    BY <1>110, <2>0, StepShow DEF Register
  <2>2. Stored(R[1])'
    BY <1>110, <2>1, StoredKept DEF EntryInv, Jumps, Shows
  <2>. QED BY <1>110, <2>1, <2>2 DEF EntryInv, Jumps, Shows
<1>111. CASE pc = 111
  <2>0. Opcode(M[pc]) = op_PSE
    BY <1>111, EntryWords
  <2>1. Always' /\ Jumps(112) /\ Quiet
    BY <1>111, <2>0, StepPSE
  <2>2. Data' = Data
    BY <2>1, SameData DEF Quiet
  <2>3. Stored(R[1])'
    BY <1>111, <2>1, <2>2, StoredKept DEF EntryInv, Jumps, Quiet
  <2>. QED BY <1>111, <2>1, <2>3 DEF EntryInv, Jumps, Quiet
<1>112. CASE pc = 112
  <2>0. M[pc] = opLDR(2, 0, inSW)
    BY <1>112, EntryWords
  <2>1. Always' /\ Writes(2, Latest(0)') /\ Reads /\ M' = M /\ hex' = hex /\ unsorted' = unsorted
    BY <1>112, <2>0, StepSwitches DEF Register
  <2>2. Data' = Data /\ R'[1] = R[1] /\ R[1] \in Int /\ Len(recent) \in Nat
    BY <2>1, SameData, RegisterRange, AlwaysHistory DEF Writes, OnlyRegister
  <2>3. OneBehind(R[1])' /\ R'[1] < Len(recent')
    BY <1>112, <2>1, <2>2, StoredRead DEF EntryInv
  <2>4. R'[1] <= Len(recent') /\ 1 <= Len(recent')
    <3>1. \A m \in Nat : R[1] < m => R[1] <= m
      BY <2>2
    <3>. QED BY <2>1, <2>2, <2>3, <3>1, Zenon DEF Reads
  <2>. QED BY <1>112, <2>1, <2>2, <2>3, <2>4 DEF EntryInv, Writes, OnlyRegister
<1>113. CASE pc = 113
  <2>0. M[pc] = opADD(5, 6, 1)
    BY <1>113, EntryWords
  <2>1. Always' /\ Writes(5, Wrap(R[6] + R[1])) /\ Quiet
    BY <1>113, <2>0, StepADD DEF Register
  <2>2. R[6] = 74 /\ R[1] \in Int /\ 0 <= R[1] /\ R[1] <= 15
    BY <1>113, RegisterRange DEF EntryInv, DataAt
  <2>3. Wrap(R[6] + R[1]) = DataAt + R[1]
    BY <2>2, WrapWord, SMT DEF DataAt
  <2>4. Data' = Data /\ R'[1] = R[1] /\ recent' = recent /\ R'[5] = DataAt + R[1]
    BY <2>1, <2>3, SameData DEF Writes, OnlyRegister, Quiet
  <2>5. OneBehind(R[1])' /\ R'[2] = Latest(0)'
    BY <1>113, <2>1, <2>4, StoredKept DEF EntryInv, Writes, OnlyRegister, Latest
  <2>. QED BY <1>113, <2>1, <2>4, <2>5 DEF EntryInv, Writes, OnlyRegister
<1>114. CASE pc = 114
  <2>a. R[5] = 74 + R[1] /\ R[1] \in Int /\ 0 <= R[1] /\ R[1] <= 15 /\ OneBehind(R[1]) /\ R[2] = Latest(0)
    BY <1>114, RegisterRange DEF EntryInv, DataAt
  <2>c. /\ Wrap(R[5] + 0) = 74 + R[1] /\ Writable(74 + R[1], R[2]) /\ Off6(0) /\ 74 + R[1] \in Int
        /\ 74 + R[1] # IOAddress
    BY <2>a, WrapWord, SMT DEF Writable, Off6, IOAddress
  <2>0. M[pc] = opSTR(2, 5, 0)
    BY <1>114, EntryWords
  <2>1. /\ Always' /\ Jumps(pc + 1)
        /\ M' = [M EXCEPT ![CellAt(74 + R[1])] = R[2]]
        /\ hex' = IF 74 + R[1] = IOAddress THEN R[2] ELSE hex
        /\ recent' = recent /\ unsorted' = unsorted /\ turn' = turn
    BY <1>114, <2>0, StepSTR, <2>c DEF Register, Off6, Writable
  <2>2. CellAt(74 + R[1]) = 74 + R[1]
    BY <2>a, Cells
  <2>3. Stored(R[1] + 1)'
    BY <2>a, <2>1, <2>2, StoredWord, Zenon DEF Jumps
  <2>. QED BY <1>114, <2>1, <2>3 DEF EntryInv, Jumps
<1>115. CASE pc = 115
  <2>0. M[pc] = opADDi(1, 1, 1)
    BY <1>115, EntryWords
  <2>1. Always' /\ Writes(1, Wrap(R[1] + 1)) /\ Quiet
    BY <1>115, <2>0, StepADDi DEF Register, Imm5
  <2>2. R[1] \in Int /\ 0 <= R[1] /\ R[1] <= 15 /\ R[1] < Len(recent) /\ Stored(R[1] + 1)
    BY <1>115, RegisterRange DEF EntryInv
  <2>3. Wrap(R[1] + 1) = R[1] + 1
    BY <2>2, WrapWord
  <2>4. Data' = Data /\ R'[1] = R[1] + 1 /\ recent' = recent
    BY <2>1, <2>3, SameData DEF Writes, OnlyRegister, Quiet
  <2>5. Stored(R[1])'
    BY <2>2, <2>4, Zenon DEF Stored, Latest
  <2>6. R'[1] <= Len(recent') /\ 1 <= R'[1] /\ R'[1] <= 16
    BY <2>2, <2>4, AlwaysHistory
  <2>. QED BY <1>115, <2>1, <2>4, <2>5, <2>6 DEF EntryInv, Writes, OnlyRegister
<1>116. CASE pc = 116
  <2>0. M[pc] = opADDi(3, 1, -16)
    BY <1>116, EntryWords
  <2>1. Always' /\ Writes(3, Wrap(R[1] + (-16))) /\ Quiet
    BY <1>116, <2>0, StepADDi DEF Register, Imm5
  <2>2. R[1] \in Int /\ R[1] + (-16) = R[1] - 16
    BY <1>116, RegisterRange
  <2>4. Data' = Data /\ R'[1] = R[1] /\ recent' = recent
    BY <2>1, SameData DEF Writes, OnlyRegister, Quiet
  <2>3. cc' = {FlagOf(Wrap(R'[1] - 16))}
    BY <2>1, <2>2, <2>4, Zenon DEF Writes
  <2>5. Stored(R[1])'
    BY <1>116, <2>4, StoredKept DEF EntryInv
  <2>. QED BY <1>116, <2>1, <2>2, <2>3, <2>4, <2>5 DEF EntryInv, Writes, OnlyRegister
<1>117. CASE pc = 117
  <2>0. M[pc] = opBR(4, -8)
    BY <1>117, EntryWords
  <2>b. Cond(4) /\ Off9(-8) /\ 0 <= pc + (-8) /\ pc < 255 /\ pc # 0
    BY <1>117 DEF Cond, Off9
  <2>1. Always' /\ Branches(4, -8) /\ R' = R /\ cc' = cc /\ Quiet
    BY <2>0, <2>b, StepBR, Zenon
  <2>3. R[1] \in Int /\ 1 <= R[1] /\ R[1] <= 16 /\ cc = {FlagOf(Wrap(R[1] - 16))}
    BY <1>117, RegisterRange DEF EntryInv
  <2>4. Data' = Data /\ R'[1] = R[1] /\ recent' = recent
    BY <2>1, SameData DEF Quiet
  <2>5. Stored(R[1])'
    BY <1>117, <2>4, StoredKept DEF EntryInv
  <2>6. CASE R[1] < 16
    <3>1. cc = {"n"} /\ R[1] <= 15
      BY <2>3, <2>6, BelowSixteen
    <3>2. pc' = 110
      BY <1>117, <2>1, <3>1 DEF Branches
    <3>. QED BY <1>117, <2>1, <2>5, <3>1, <3>2 DEF EntryInv, Quiet
  <2>7. CASE R[1] = 16
    <3>1. cc = {"z"}
      BY <2>3, <2>7, BelowSixteen
    <3>2. pc' = 118
      BY <1>117, <2>1, <3>1 DEF Branches
    <3>. QED BY <1>117, <2>1, <2>5, <2>7, <3>2 DEF EntryInv, Quiet
  <2>. QED BY <2>3, <2>6, <2>7
<1>118. CASE pc = 118
  <2>0. M[pc] = opJMP(7)
    BY <1>118, EntryWords
  <2>1. Always' /\ Jumps(R[7]) /\ Quiet
    BY <1>118, <2>0, StepJMP DEF Register
  <2>. QED BY <1>118, <2>1 DEF EntryInv, MenuInv, Jumps, Quiet
<1>. QED BY <1>109, <1>110, <1>111, <1>112, <1>113, <1>114, <1>115, <1>116, <1>117, <1>118

-----------------------------------------------------------------------------
(* Sixteen words and the order of the sort *)

Sixteen(d) == \A i \in Int : 0 <= i /\ i <= 15 => d[i] \in Int /\ 0 <= d[i] /\ d[i] <= 65535

\* Data are sixteen words.
LEMMA SixteenWords == ASSUME NEW d \in [0..15 -> Word] PROVE Sixteen(d)
<1>1. \A i \in Int : 0 <= i /\ i <= 15 => d[i] \in Word
  OBVIOUS
<1>. QED BY <1>1, SMT DEF Sixteen, Word

\* A first datum alone is the largest.
LEMMA FrontStarts == ASSUME NEW d, Sixteen(d) PROVE Front(d, 1)
  BY SMT DEF Sixteen, Front

\* The pass has carried the larger of two data one place on.
LEMMA FrontGrows ==
  ASSUME NEW d, Sixteen(d), NEW j \in Int, 1 <= j, j <= 15, Front(d, j), d[j - 1] <= d[j]
  PROVE  Front(d, j + 1)
<1>1. ASSUME NEW a \in Int, 0 <= a, a < j + 1 PROVE d[a] <= d[j]
  <2>1. d[a] \in Int /\ d[j - 1] \in Int /\ d[j] \in Int
    BY <1>1, SMT DEF Sixteen
  <2>2. CASE a = j
    BY <2>1, <2>2
  <2>3. CASE a # j
    <3>1. d[a] <= d[j - 1]
      BY <1>1, <2>3, SMT DEF Front
    <3>. QED BY <2>1, <3>1, SMT
  <2>. QED BY <2>2, <2>3
<1>2. (j + 1) - 1 = j
  OBVIOUS
<1>. QED BY <1>1, <1>2, Zenon DEF Front

\* The largest of the words that are not in their places is the next one that is.
LEMMA TopsGrow ==
  ASSUME NEW d, Sixteen(d), NEW i \in Int, 0 <= i, i <= 15, Tops(d, i),
         i <= 14 => Front(d, 16 - i)
  PROVE  Tops(d, i + 1)
<1>1. ASSUME NEW a \in Int, NEW b \in Int, 0 <= a, a < b, b <= 15, 16 - (i + 1) <= b
      PROVE  d[a] <= d[b]
  <2>1. CASE 16 - i <= b
    BY <1>1, <2>1, Zenon DEF Tops
  <2>2. CASE b = 15 - i
    <3>1. i <= 14 /\ a < 16 - i /\ (16 - i) - 1 = b
      BY <1>1, <2>2
    <3>2. d[a] <= d[(16 - i) - 1]
      BY <1>1, <3>1, Zenon DEF Front
    <3>. QED BY <3>1, <3>2, Zenon
  <2>. QED BY <1>1, <2>1, <2>2
<1>. QED BY <1>1, Zenon DEF Tops

\* Words j - 1 and j change places.
Swapped(d, e, j) ==
  /\ e[j - 1] = d[j] /\ e[j] = d[j - 1]
  /\ \A i \in Int : 0 <= i /\ i <= 15 /\ i # j /\ i # j - 1 => e[i] = d[i]

\* After a swap the larger of the two is behind.
LEMMA SwapFront ==
  ASSUME NEW d, NEW e, Sixteen(d), Sixteen(e), NEW j \in Int, 1 <= j, j <= 15, Front(d, j), d[j - 1] > d[j],
         Swapped(d, e, j)
  PROVE  Front(e, j + 1)
<1>1. ASSUME NEW a \in Int, 0 <= a, a < j + 1 PROVE e[a] <= e[j]
  <2>1. d[a] \in Int /\ d[j - 1] \in Int /\ d[j] \in Int /\ e[a] \in Int
    BY <1>1, SMT DEF Sixteen
  <2>2. CASE a = j
    BY <2>1, <2>2
  <2>3. CASE a = j - 1
    BY <2>1, <2>3, SMT DEF Swapped
  <2>4. CASE a # j /\ a # j - 1
    <3>1. d[a] <= d[j - 1]
      BY <1>1, <2>4, SMT DEF Front
    <3>2. e[a] = d[a] /\ e[j] = d[j - 1]
      BY <1>1, <2>4, SMT DEF Swapped
    <3>. QED BY <3>1, <3>2, Zenon
  <2>. QED BY <2>2, <2>3, <2>4
<1>2. (j + 1) - 1 = j
  OBVIOUS
<1>. QED BY <1>1, <1>2, Zenon DEF Front

\* The words that are in their places are not disturbed: in the last pass nothing is.
LEMMA SwapTops ==
  ASSUME NEW d, NEW e, Sixteen(d), Sixteen(e), NEW i \in Int, 0 <= i, i <= 15, NEW j \in Int, 1 <= j,
         j <= LastInPass(i), Tops(d, i), d[j - 1] > d[j], Swapped(d, e, j)
  PROVE  Tops(e, i)
<1>1. i # 15
  <2>1. ASSUME i = 15 PROVE FALSE
    <3>1. j = 1
      BY <2>1, SMT DEF LastInPass
    <3>2. d[0] <= d[1]
      BY <2>1, SMT DEF Tops
    <3>3. d[0] > d[1]
      BY <3>1
    <3>4. d[0] \in Int /\ d[1] \in Int
      BY SMT DEF Sixteen
    <3>. QED BY <3>2, <3>3, <3>4, SMT
  <2>. QED BY <2>1
<1>2. j < 16 - i
  BY <1>1, SMT DEF LastInPass
<1>3. ASSUME NEW a \in Int, NEW b \in Int, 0 <= a, a < b, b <= 15, 16 - i <= b
      PROVE  e[a] <= e[b]
  <2>1. e[b] = d[b] /\ j < b /\ j - 1 < b
    BY <1>2, <1>3, SMT DEF Swapped
  <2>2. PICK c \in Int : 0 <= c /\ c < b /\ e[a] = d[c]
    <3>1. CASE a = j
      <4>1. e[a] = d[j - 1] /\ 0 <= j - 1
        BY <3>1, SMT DEF Swapped
      <4>. QED BY <2>1, <4>1
    <3>2. CASE a = j - 1
      <4>1. e[a] = d[j] /\ 0 <= j
        BY <3>2, SMT DEF Swapped
      <4>. QED BY <2>1, <4>1
    <3>3. CASE a # j /\ a # j - 1
      <4>1. e[a] = d[a]
        BY <1>3, <3>3, SMT DEF Swapped
      <4>. QED BY <1>3, <4>1
    <3>. QED BY <3>1, <3>2, <3>3
  <2>3. d[c] <= d[b]
    BY <1>3, <2>2, Zenon DEF Tops
  <2>. QED BY <2>1, <2>2, <2>3, Zenon
<1>. QED BY <1>3, Zenon DEF Tops

\* A swap brings no new word.
LEMMA SwapAmong ==
  ASSUME NEW d, NEW e, NEW j \in Int, 1 <= j, j <= 15, Swapped(d, e, j), Among(d)
  PROVE  Among(e)
<1>1. ASSUME NEW i \in Int, 0 <= i, i <= 15 PROVE \E c \in Int : 0 <= c /\ c <= 15 /\ e[i] = d[c]
  <2>1. CASE i = j
    <3>1. e[i] = d[j - 1] /\ 0 <= j - 1 /\ j - 1 <= 15
      BY <2>1, SMT DEF Swapped
    <3>. QED BY <3>1
  <2>2. CASE i = j - 1
    <3>1. e[i] = d[j]
      BY <2>2, SMT DEF Swapped
    <3>. QED BY <3>1
  <2>3. CASE i # j /\ i # j - 1
    <3>1. e[i] = d[i]
      BY <1>1, <2>3, SMT DEF Swapped
    <3>. QED BY <1>1, <3>1
  <2>. QED BY <2>1, <2>2, <2>3
<1>2. ASSUME NEW i \in Int, 0 <= i, i <= 15 PROVE \E k \in Int : 0 <= k /\ k <= 15 /\ e[i] = unsorted[k]
  <2>1. PICK c \in Int : 0 <= c /\ c <= 15 /\ e[i] = d[c]
    BY <1>1, <1>2
  <2>2. PICK k \in Int : 0 <= k /\ k <= 15 /\ d[c] = unsorted[k]
    BY <2>1, Zenon DEF Among
  <2>. QED BY <2>1, <2>2, Zenon
<1>. QED BY <1>2, Zenon DEF Among

\* A swap leaves sixteen words.
LEMMA SwapSixteen ==
  ASSUME NEW d, NEW e, NEW j \in Int, 1 <= j, j <= 15, Swapped(d, e, j), Sixteen(d)
  PROVE  Sixteen(e)
<1>1. ASSUME NEW i \in Int, 0 <= i, i <= 15 PROVE e[i] = d[i] \/ e[i] = d[j] \/ e[i] = d[j - 1]
  BY <1>1, SMT DEF Swapped
<1>2. 0 <= j - 1 /\ j - 1 <= 15 /\ j - 1 \in Int /\ 0 <= j
  OBVIOUS
<1>. QED BY <1>1, <1>2, SMT DEF Sixteen

\* A swap permutes the places of every word.
LEMMA SwapCount ==
  ASSUME NEW d, NEW e, NEW j \in Int, 1 <= j, j <= 15, Swapped(d, e, j), NEW word
  PROVE  Count(e, word) = Count(d, word)
<1>. DEFINE S == {i \in 0..15 : d[i] = word}
            T == {i \in 0..15 : e[i] = word}
            f == [i \in S |-> IF i = j THEN j - 1 ELSE IF i = j - 1 THEN j ELSE i]
<1>1. IsFiniteSet(S)
  <2>1. IsFiniteSet(0..15)
    <3>1. 0 \in Int /\ 15 \in Int
      OBVIOUS
    <3>. QED BY <3>1, FS_Interval, Zenon
  <2>. QED BY <2>1, FS_Subset
<1>2. \A i \in 0..15 : e[i] = IF i = j THEN d[j - 1] ELSE IF i = j - 1 THEN d[j] ELSE d[i]
  BY SMT DEF Swapped
<1>3. j \in 0..15 /\ j - 1 \in 0..15 /\ j # j - 1
  OBVIOUS
<1>4. f \in [S -> T]
  BY <1>2, <1>3
<1>5. \A a, b \in S : f[a] = f[b] => a = b
  BY <1>3
<1>6. \A t \in T : \E s \in S : f[s] = t
  <2>1. ASSUME NEW t \in T PROVE \E s \in S : f[s] = t
    <3>1. CASE t = j
      <4>1. j - 1 \in S /\ f[j - 1] = j
        BY <1>2, <1>3, <3>1
      <4>. QED BY <3>1, <4>1
    <3>2. CASE t = j - 1
      <4>1. j \in S /\ f[j] = j - 1
        BY <1>2, <1>3, <3>2
      <4>. QED BY <3>2, <4>1
    <3>3. CASE t # j /\ t # j - 1
      <4>1. t \in S /\ f[t] = t
        BY <1>2, <3>3
      <4>. QED BY <4>1
    <3>. QED BY <3>1, <3>2, <3>3
  <2>. QED BY <2>1
<1>. HIDE DEF f
<1>7. ExistsBijection(S, T)
  <2>1. f \in Injection(S, T)
    BY <1>4, <1>5, Zenon DEF Injection, IsInjective
  <2>2. f \in Surjection(S, T)
    BY <1>4, <1>6, Zenon DEF Surjection
  <2>. QED BY <2>1, <2>2, Zenon DEF Bijection, ExistsBijection
<1>8. Cardinality(T) = Cardinality(S)
  BY <1>1, <1>7, FS_Bijection, Zenon
<1>. QED BY <1>8, Zenon DEF Count

\* The words that are sorted differ by no more than those the sort was called with.
LEMMA AmongSpread ==
  ASSUME NEW d, Among(d), SmallSpread(unsorted), NEW a \in Int, 0 <= a, a <= 15,
         NEW b \in Int, 0 <= b, b <= 15
  PROVE  d[a] - d[b] <= 32767
<1>1. PICK k \in Int : 0 <= k /\ k <= 15 /\ d[a] = unsorted[k]
  BY Zenon DEF Among
<1>2. PICK l \in Int : 0 <= l /\ l <= 15 /\ d[b] = unsorted[l]
  BY Zenon DEF Among
<1>3. unsorted[k] - unsorted[l] <= 32767
  BY <1>1, <1>2, SMT DEF SmallSpread
<1>. QED BY <1>1, <1>2, <1>3, SMT

\* The comparison: by the sign of the difference, when it does not overflow.
LEMMA Compare ==
  ASSUME NEW x \in Int, 0 <= x, x <= 65535, NEW y \in Int, 0 <= y, y <= 65535,
         x - y <= 32767, y - x <= 32767
  PROVE  FlagOf(Wrap(x - y)) = IF x < y THEN "n" ELSE IF x = y THEN "z" ELSE "p"
<1>1. Wrap(x - y) = IF x < y THEN x - y + 65536 ELSE x - y
  BY SMT DEF Wrap
<1>2. Wrap(x - y) \in Word
  BY <1>1, SMT DEF Word
<1>. QED BY <1>1, <1>2, Signs, SMT

\* A word is subtracted by adding its complement and one.
LEMMA Negation ==
  ASSUME NEW x \in Word, NEW y \in Word
  PROVE  Wrap(Not(y) + 1) = Wrap(-y) /\ Wrap(x + Wrap(-y)) = Wrap(x - y)
<1>. x \in Int /\ 0 <= x /\ x <= 65535 /\ y \in Int /\ 0 <= y /\ y <= 65535
  BY SMT DEF Word
<1>1. Not(y) = 65535 - y
  BY SMT DEF Not
<1>2. Wrap(-y) = IF y = 0 THEN 0 ELSE 65536 - y
  BY SMT DEF Wrap
<1>3. Wrap(Not(y) + 1) = IF y = 0 THEN 0 ELSE 65536 - y
  BY <1>1, SMT DEF Wrap
<1>4. Wrap(x + Wrap(-y)) = Wrap(x - y)
  BY <1>2, SMT DEF Wrap
<1>. QED BY <1>2, <1>3, <1>4, SMT

-----------------------------------------------------------------------------
(* The sort *)

\* A step that stores nothing keeps what the sort promises of the data.
LEMMA SortQuiet ==
  ASSUME Always, SortInv, M' = M, unsorted' = unsorted, pc # 130, pc' # 130
  PROVE  /\ Data' = Data /\ DataInSort = Data /\ DataInSort' = Data
         /\ SameWords(DataInSort)' /\ Among(DataInSort)'
         /\ SmallSpread(unsorted)' => SmallSpread(unsorted)
<1>1. Data' = Data
  BY SameData
<1>2. DataInSort = Data /\ DataInSort' = Data
  BY <1>1, SMT DEF DataInSort, SortAt
<1>3. SameWords(DataInSort)'
  BY <1>2, Zenon DEF SortInv, SameWords
<1>4. Among(DataInSort)'
  BY <1>2, Zenon DEF SortInv, Among
<1>. QED BY <1>1, <1>2, <1>3, <1>4, Zenon

\* A word is stored among the data.
LEMMA DataStored ==
  ASSUME Always, NEW i \in Int, 0 <= i, i <= 15, NEW value \in Word,
         M' = [M EXCEPT ![CellAt(74 + i)] = value]
  PROVE  Data' = [Data EXCEPT ![i] = value]
<1>1. M \in [Cell -> Word] /\ \A k \in Int : 0 <= k /\ k <= 15 => 74 + k \in Cell /\ CellAt(74 + k) = 74 + k
  BY AlwaysFacts, Cells
<1>2. Data \in [0..15 -> Word] /\ \A k \in Int : 0 <= k /\ k <= 15 => Data[k] = M[74 + k]
  BY DataCells
<1>3. Data' = [k \in 0..15 |-> M'[DataAt + k]]
  BY Zenon DEF Data
<1>4. ASSUME NEW k \in 0..15 PROVE M'[DataAt + k] = IF k = i THEN value ELSE Data[k]
  <2>1. DataAt + k = 74 + k /\ 0 <= k /\ k <= 15
    BY DEF DataAt
  <2>. QED BY <1>1, <1>2, <2>1
<1>5. ASSUME NEW k \in 0..15 PROVE Data'[k] = IF k = i THEN value ELSE Data[k]
  BY <1>3, <1>4
<1>6. Data' = [k \in 0..15 |-> Data'[k]]
  BY <1>3
<1>. QED BY <1>2, <1>5, <1>6

\* Register 1 counts the passes up from -16.
LEMMA PassRange ==
  ASSUME Always, 0 <= Pass, Pass <= 15
  PROVE  R[1] = 65520 + Pass /\ Pass \in Int
  BY RegisterRange, SMT DEF Pass

\* The number of passes is a number.
LEMMA PassInt == ASSUME Always PROVE Pass \in Int
  BY RegisterRange, SMT DEF Pass

\* The pass changes with register 1 only.
LEMMA SamePass == R'[1] = R[1] => Pass' = Pass
  BY SMT DEF Pass

\* The datum compared is one of the sixteen.
LEMMA PlaceRange ==
  ASSUME SortPlace, 121 <= pc, pc <= 131, pc \in Int, Pass \in Int, R[2] \in Int
  PROVE  1 <= R[2] /\ R[2] <= 15 /\ 0 <= Pass /\ Pass <= 15 /\ R[2] <= LastInPass(Pass)
<1>1. 1 <= R[2] /\ 0 <= Pass /\ Pass <= 15 /\ R[2] <= LastInPass(Pass)
  BY SMT DEF SortPlace
<1>. QED BY <1>1, SMT DEF LastInPass

\* The end of a pass: the counters of the loops add up to nought.
LEMMA PassSign ==
  ASSUME NEW i \in Int, 0 <= i, i <= 15, NEW j \in Int, 2 <= j, j <= 16,
         NEW r, r = 65520 + i
  PROVE  FlagOf(Wrap(r + j)) = "n" <=> i + j < 16
<1>1. Wrap(r + j) = IF i + j < 16 THEN 65520 + i + j ELSE i + j - 16
  BY SMT DEF Wrap
<1>2. Wrap(r + j) \in Word
  BY <1>1, SMT DEF Word
<1>. QED BY <1>1, <1>2, Signs, SMT

\* Every instruction of the sort, between the two stores of a swap too.
LEMMA SortSteps ==
  ASSUME Always, SortInv, ExecuteProgram
  PROVE  Always' /\ Where'
<1>. pc \in Int /\ 119 <= pc /\ pc <= 136
  BY AlwaysFacts DEF SortInv, SortPlace
<1>. SUFFICES Always' /\ (SortInv' \/ MenuInv')
  BY Zenon DEF Where
<1>. R[1] \in Int /\ R[2] \in Int /\ R[3] \in Int /\ R[4] \in Int /\ R[5] \in Int /\ Pass \in Int
  BY RegisterRange, PassInt
<1>a. Sixteen(Data)
  BY DataCells, SixteenWords
<1>b. SortPlace
  BY Zenon DEF SortInv
<1>119. CASE pc = 119
  <2>0. M[pc] = opADDi(1, 0, -16)
    BY <1>119, SortWords
  <2>1. Always' /\ Writes(1, Wrap(R[0] + (-16))) /\ Quiet
    BY <1>119, <2>0, StepADDi DEF Register, Imm5
  <2>2. /\ Data' = Data /\ DataInSort = Data /\ DataInSort' = Data
        /\ SameWords(DataInSort)' /\ Among(DataInSort)'
        /\ SmallSpread(unsorted)' => SmallSpread(unsorted)
    BY <1>119, <2>1, SortQuiet DEF Quiet, Writes
  <2>3. R[0] = 0
    BY AlwaysRegisters
  <2>4. Wrap(R[0] + (-16)) = 65520
    <3>1. \A x \in Int : x < 0 /\ x >= -65536 => Wrap(x) = x + 65536
      BY SMT DEF Wrap
    <3>2. R[0] + (-16) \in Int /\ R[0] + (-16) < 0 /\ R[0] + (-16) + 65536 = 65520
      BY <2>3, SMT
    <3>. QED BY <3>1, <3>2, SMT
  <2>5. R'[1] = 65520
    BY <2>1, <2>4, SMT DEF Writes
  <2>6. Pass' = 0
    BY <2>5, SMT DEF Pass
  <2>7. Tops(Data, 0)
    BY DEF Tops
  <2>8. SortPlace'
    BY <1>119, <1>b, <2>1, <2>2, <2>6 DEF SortPlace, Quiet, Writes, OnlyRegister
  <2>9. ASSUME SmallSpread(unsorted) PROVE SortOrder'
    BY <1>119, <2>1, <2>2, <2>9, <2>6, <2>7 DEF SortInv, SortOrder, Writes, OnlyRegister
  <2>. QED BY <2>1, <2>2, <2>8, <2>9, Zenon DEF SortInv
<1>120. CASE pc = 120
  <2>0. M[pc] = opADDi(2, 0, 1)
    BY <1>120, SortWords
  <2>1. Always' /\ Writes(2, Wrap(R[0] + 1)) /\ Quiet
    BY <1>120, <2>0, StepADDi DEF Register, Imm5
  <2>2. /\ Data' = Data /\ DataInSort = Data /\ DataInSort' = Data
        /\ SameWords(DataInSort)' /\ Among(DataInSort)'
        /\ SmallSpread(unsorted)' => SmallSpread(unsorted)
    BY <1>120, <2>1, SortQuiet DEF Quiet, Writes
  <2>3. Pass' = Pass
    BY <2>1, SamePass DEF Writes, OnlyRegister
  <2>4. R'[2] = 1
    <3>1. R[0] = 0
      BY AlwaysRegisters
    <3>2. Wrap(R[0] + 1) = 1
      BY <3>1, WrapWord
    <3>. QED BY <2>1, <3>2, Zenon DEF Writes
  <2>5. 0 <= Pass /\ Pass <= 15
    BY <1>120, <1>b DEF SortPlace
  <2>6. 1 <= LastInPass(Pass)
    BY <2>5 DEF LastInPass
  <2>7. Front(Data, 1)
    BY <1>a, FrontStarts
  <2>8. SortPlace'
    BY <1>120, <1>b, <2>1, <2>2, <2>3, <2>4, <2>5, <2>6 DEF SortPlace, Quiet, Writes, OnlyRegister
  <2>9. ASSUME SmallSpread(unsorted) PROVE SortOrder'
    BY <1>120, <2>1, <2>2, <2>9, <2>3, <2>4, <2>7 DEF SortInv, SortOrder, Writes, OnlyRegister
  <2>. QED BY <2>1, <2>2, <2>8, <2>9, Zenon DEF SortInv
<1>121. CASE pc = 121
  <2>0. M[pc] = opADD(3, 6, 2)
    BY <1>121, SortWords
  <2>1. Always' /\ Writes(3, Wrap(R[6] + R[2])) /\ Quiet
    BY <1>121, <2>0, StepADD DEF Register
  <2>2. /\ Data' = Data /\ DataInSort = Data /\ DataInSort' = Data
        /\ SameWords(DataInSort)' /\ Among(DataInSort)'
        /\ SmallSpread(unsorted)' => SmallSpread(unsorted)
    BY <1>121, <2>1, SortQuiet DEF Quiet, Writes
  <2>3. Pass' = Pass
    BY <2>1, SamePass DEF Writes, OnlyRegister
  <2>4. R[6] = 74 /\ 1 <= R[2] /\ R[2] <= 15
    BY <1>121, <1>b, PlaceRange DEF SortPlace, DataAt
  <2>5. Wrap(R[6] + R[2]) = DataAt + R[2]
    BY <2>4, WrapWord, SMT DEF DataAt
  <2>8. SortPlace'
    BY <1>121, <1>b, <2>1, <2>2, <2>3, <2>5 DEF SortPlace, Quiet, Writes, OnlyRegister
  <2>9. ASSUME SmallSpread(unsorted) PROVE SortOrder'
    BY <1>121, <2>1, <2>2, <2>9, <2>3 DEF SortInv, SortOrder, Writes, OnlyRegister
  <2>. QED BY <2>1, <2>2, <2>8, <2>9, Zenon DEF SortInv
<1>122. CASE pc = 122
  <2>a. 1 <= R[2] /\ R[2] <= 15 /\ R[3] = 74 + R[2]
    BY <1>122, <1>b, PlaceRange DEF SortPlace, DataAt
  <2>c. R[3] + (-1) = 73 + R[2] /\ Near(73 + R[2]) /\ Off6((-1)) /\ 73 + R[2] \in Int
    BY <2>a DEF Near, Off6
  <2>0. M[pc] = opLDR(4, 3, -1)
    BY <1>122, SortWords
  <2>1. Always' /\ Writes(4, M[73 + R[2]]) /\ Quiet
    BY <1>122, <2>0, StepLDR, <2>c DEF Register, Off6, Near
  <2>2. /\ Data' = Data /\ DataInSort = Data /\ DataInSort' = Data
        /\ SameWords(DataInSort)' /\ Among(DataInSort)'
        /\ SmallSpread(unsorted)' => SmallSpread(unsorted)
    BY <1>122, <2>1, SortQuiet DEF Quiet, Writes
  <2>3. Pass' = Pass
    BY <2>1, SamePass DEF Writes, OnlyRegister
  <2>4. M[73 + R[2]] = Data[R[2] - 1]
    BY <2>a, DataCells
  <2>5. R'[4] = Data[R[2] - 1]
    BY <2>1, <2>4, Zenon DEF Writes
  <2>8. SortPlace'
    BY <1>122, <1>b, <2>1, <2>2, <2>3, <2>5 DEF SortPlace, Quiet, Writes, OnlyRegister
  <2>9. ASSUME SmallSpread(unsorted) PROVE SortOrder'
    BY <1>122, <2>1, <2>2, <2>9, <2>3 DEF SortInv, SortOrder, Writes, OnlyRegister
  <2>. QED BY <2>1, <2>2, <2>8, <2>9, Zenon DEF SortInv
<1>123. CASE pc = 123
  <2>a. 1 <= R[2] /\ R[2] <= 15 /\ R[3] = 74 + R[2]
    BY <1>123, <1>b, PlaceRange DEF SortPlace, DataAt
  <2>c. R[3] + 0 = 74 + R[2] /\ Near(74 + R[2]) /\ Off6(0) /\ 74 + R[2] \in Int
    BY <2>a DEF Near, Off6
  <2>0. M[pc] = opLDR(5, 3, 0)
    BY <1>123, SortWords
  <2>1. Always' /\ Writes(5, M[74 + R[2]]) /\ Quiet
    BY <1>123, <2>0, StepLDR, <2>c DEF Register, Off6, Near
  <2>2. /\ Data' = Data /\ DataInSort = Data /\ DataInSort' = Data
        /\ SameWords(DataInSort)' /\ Among(DataInSort)'
        /\ SmallSpread(unsorted)' => SmallSpread(unsorted)
    BY <1>123, <2>1, SortQuiet DEF Quiet, Writes
  <2>3. Pass' = Pass
    BY <2>1, SamePass DEF Writes, OnlyRegister
  <2>4. M[74 + R[2]] = Data[R[2]]
    BY <2>a, DataCells
  <2>5. R'[5] = Data[R[2]]
    BY <2>1, <2>4, Zenon DEF Writes
  <2>8. SortPlace'
    BY <1>123, <1>b, <2>1, <2>2, <2>3, <2>5 DEF SortPlace, Quiet, Writes, OnlyRegister
  <2>9. ASSUME SmallSpread(unsorted) PROVE SortOrder'
    BY <1>123, <2>1, <2>2, <2>9, <2>3 DEF SortInv, SortOrder, Writes, OnlyRegister
  <2>. QED BY <2>1, <2>2, <2>8, <2>9, Zenon DEF SortInv
<1>124. CASE pc = 124
  <2>0. M[pc] = opNOT(5, 5)
    BY <1>124, SortWords
  <2>1. Always' /\ Writes(5, Not(R[5])) /\ Quiet
    BY <1>124, <2>0, StepNOT DEF Register
  <2>2. /\ Data' = Data /\ DataInSort = Data /\ DataInSort' = Data
        /\ SameWords(DataInSort)' /\ Among(DataInSort)'
        /\ SmallSpread(unsorted)' => SmallSpread(unsorted)
    BY <1>124, <2>1, SortQuiet DEF Quiet, Writes
  <2>3. Pass' = Pass
    BY <2>1, SamePass DEF Writes, OnlyRegister
  <2>8. SortPlace'
    BY <1>124, <1>b, <2>1, <2>2, <2>3 DEF SortPlace, Quiet, Writes, OnlyRegister
  <2>9. ASSUME SmallSpread(unsorted) PROVE SortOrder'
    BY <1>124, <2>1, <2>2, <2>9, <2>3 DEF SortInv, SortOrder, Writes, OnlyRegister
  <2>. QED BY <2>1, <2>2, <2>8, <2>9, Zenon DEF SortInv
<1>125. CASE pc = 125
  <2>0. M[pc] = opADDi(5, 5, 1)
    BY <1>125, SortWords
  <2>1. Always' /\ Writes(5, Wrap(R[5] + 1)) /\ Quiet
    BY <1>125, <2>0, StepADDi DEF Register, Imm5
  <2>2. /\ Data' = Data /\ DataInSort = Data /\ DataInSort' = Data
        /\ SameWords(DataInSort)' /\ Among(DataInSort)'
        /\ SmallSpread(unsorted)' => SmallSpread(unsorted)
    BY <1>125, <2>1, SortQuiet DEF Quiet, Writes
  <2>3. Pass' = Pass
    BY <2>1, SamePass DEF Writes, OnlyRegister
  <2>4. 1 <= R[2] /\ R[2] <= 15 /\ R[5] = Not(Data[R[2]])
    BY <1>125, <1>b, PlaceRange DEF SortPlace
  <2>5. Data[R[2]] \in Int /\ 0 <= Data[R[2]] /\ Data[R[2]] <= 65535
    BY <1>a, <2>4, SMT DEF Sixteen
  <2>6. R'[5] = Wrap(-Data[R[2]])
    <3>1. Data[R[2]] \in Word
      BY <2>5, SMT DEF Word
    <3>. QED BY <2>1, <2>4, <3>1, Negation, Zenon DEF Writes
  <2>8. SortPlace'
    BY <1>125, <1>b, <2>1, <2>2, <2>3, <2>6 DEF SortPlace, Quiet, Writes, OnlyRegister
  <2>9. ASSUME SmallSpread(unsorted) PROVE SortOrder'
    BY <1>125, <2>1, <2>2, <2>9, <2>3 DEF SortInv, SortOrder, Writes, OnlyRegister
  <2>. QED BY <2>1, <2>2, <2>8, <2>9, Zenon DEF SortInv
<1>126. CASE pc = 126
  <2>0. M[pc] = opADD(5, 4, 5)
    BY <1>126, SortWords
  <2>1. Always' /\ Writes(5, Wrap(R[4] + R[5])) /\ Quiet
    BY <1>126, <2>0, StepADD DEF Register
  <2>2. /\ Data' = Data /\ DataInSort = Data /\ DataInSort' = Data
        /\ SameWords(DataInSort)' /\ Among(DataInSort)'
        /\ SmallSpread(unsorted)' => SmallSpread(unsorted)
    BY <1>126, <2>1, SortQuiet DEF Quiet, Writes
  <2>3. Pass' = Pass
    BY <2>1, SamePass DEF Writes, OnlyRegister
  <2>4. 1 <= R[2] /\ R[2] <= 15 /\ R[5] = Wrap(-Data[R[2]]) /\ R[4] = Data[R[2] - 1]
    BY <1>126, <1>b, PlaceRange DEF SortPlace
  <2>5. /\ Data[R[2]] \in Int /\ 0 <= Data[R[2]] /\ Data[R[2]] <= 65535
        /\ Data[R[2] - 1] \in Int /\ 0 <= Data[R[2] - 1] /\ Data[R[2] - 1] <= 65535
    BY <1>a, <2>4, SMT DEF Sixteen
  <2>6. Wrap(R[4] + R[5]) = Wrap(Data[R[2] - 1] - Data[R[2]])
    <3>1. Data[R[2] - 1] \in Word /\ Data[R[2]] \in Word
      BY <2>5, SMT DEF Word
    <3>. QED BY <2>4, <3>1, Negation, Zenon
  <2>7. cc' = {FlagOf(Wrap(Data[R[2] - 1] - Data[R[2]]))}
    BY <2>1, <2>6, Zenon DEF Writes
  <2>8. SortPlace'
    <3>1. pc' = 127 /\ OnlyRegister(5) /\ recent' = recent
      BY <1>126, <2>1 DEF Writes, Quiet
    <3>. QED BY <1>126, <1>b, <2>2, <2>3, <2>5, <2>7, <3>1, SMTT(30) DEF SortPlace, OnlyRegister
  <2>9. ASSUME SmallSpread(unsorted) PROVE SortOrder'
    BY <1>126, <2>1, <2>2, <2>9, <2>3 DEF SortInv, SortOrder, Writes, OnlyRegister
  <2>. QED BY <2>1, <2>2, <2>8, <2>9, Zenon DEF SortInv
<1>127. CASE pc = 127
  <2>0. M[pc] = opBR(6, 3)
    BY <1>127, SortWords
  <2>b. Cond(6) /\ Off9(3) /\ 0 <= pc + (3) /\ pc < 255 /\ pc # 0
    BY <1>127 DEF Cond, Off9
  <2>1. Always' /\ Branches(6, 3) /\ R' = R /\ cc' = cc /\ Quiet
    BY <2>0, <2>b, StepBR, Zenon
  <2>2. /\ Data' = Data /\ DataInSort = Data /\ DataInSort' = Data
        /\ SameWords(DataInSort)' /\ Among(DataInSort)'
        /\ SmallSpread(unsorted)' => SmallSpread(unsorted)
    BY <1>127, <2>1, SortQuiet DEF Quiet, Branches
  <2>3. Pass' = Pass
    BY <2>1, SamePass
  <2>4. 1 <= R[2] /\ R[2] <= 15
    BY <1>127, <1>b, PlaceRange
  <2>5. cc = {FlagOf(Wrap(Data[R[2] - 1] - Data[R[2]]))}
    BY <1>127, <1>b DEF SortPlace
  <2>6. pc' = IF "p" \in cc THEN 128 ELSE 131
    BY <1>127, <2>1, <2>5, FlagOfFlags DEF Branches, Flags
  <2>8. SortPlace'
    BY <1>127, <1>b, <2>1, <2>2, <2>3, <2>6 DEF SortPlace, Quiet
  <2>9. ASSUME SmallSpread(unsorted) PROVE SortOrder'
    <3>1. /\ Data[R[2]] \in Int /\ 0 <= Data[R[2]] /\ Data[R[2]] <= 65535
          /\ Data[R[2] - 1] \in Int /\ 0 <= Data[R[2] - 1] /\ Data[R[2] - 1] <= 65535
      BY <1>a, <2>4, SMT DEF Sixteen
    <3>2. Among(Data)
      BY <2>2, Zenon DEF SortInv
    <3>3. /\ Data[R[2] - 1] - Data[R[2]] <= 32767
          /\ Data[R[2]] - Data[R[2] - 1] <= 32767
      <4>1. R[2] - 1 \in Int /\ 0 <= R[2] - 1 /\ R[2] - 1 <= 15 /\ 0 <= R[2]
        BY <2>4
      <4>. QED BY <2>4, <2>9, <3>2, <4>1, AmongSpread
    <3>4. FlagOf(Wrap(Data[R[2] - 1] - Data[R[2]])) = "p" <=> Data[R[2] - 1] > Data[R[2]]
      BY <3>1, <3>3, Compare, SMT
    <3>5. Tops(Data, Pass) /\ Front(Data, R[2])
      BY <1>127, <2>2, <2>9 DEF SortInv, SortOrder
    <3>6. CASE "p" \in cc
      <4>1. Data[R[2] - 1] > Data[R[2]] /\ pc' = 128
        BY <2>5, <2>6, <3>4, <3>6
      <4>. QED BY <2>1, <2>2, <2>3, <3>5, <4>1 DEF SortOrder
    <3>7. CASE "p" \notin cc
      <4>1. Data[R[2] - 1] <= Data[R[2]] /\ pc' = 131
        BY <2>5, <2>6, <3>1, <3>4, <3>7
      <4>2. Front(Data, R[2] + 1)
        BY <1>a, <2>4, <3>5, <4>1, FrontGrows
      <4>. QED BY <2>1, <2>2, <2>3, <3>5, <4>1, <4>2 DEF SortOrder
    <3>. QED BY <3>6, <3>7
  <2>. QED BY <2>1, <2>2, <2>8, <2>9, Zenon DEF SortInv
<1>128. CASE pc = 128
  <2>a. 1 <= R[2] /\ R[2] <= 15 /\ R[3] = 74 + R[2]
    BY <1>128, <1>b, PlaceRange DEF SortPlace, DataAt
  <2>c. R[3] + 0 = 74 + R[2] /\ Near(74 + R[2]) /\ Off6(0) /\ 74 + R[2] \in Int
    BY <2>a DEF Near, Off6
  <2>0. M[pc] = opLDR(5, 3, 0)
    BY <1>128, SortWords
  <2>1. Always' /\ Writes(5, M[74 + R[2]]) /\ Quiet
    BY <1>128, <2>0, StepLDR, <2>c DEF Register, Off6, Near
  <2>2. /\ Data' = Data /\ DataInSort = Data /\ DataInSort' = Data
        /\ SameWords(DataInSort)' /\ Among(DataInSort)'
        /\ SmallSpread(unsorted)' => SmallSpread(unsorted)
    BY <1>128, <2>1, SortQuiet DEF Quiet, Writes
  <2>3. Pass' = Pass
    BY <2>1, SamePass DEF Writes, OnlyRegister
  <2>4. M[74 + R[2]] = Data[R[2]]
    BY <2>a, DataCells
  <2>5. R'[5] = Data[R[2]]
    BY <2>1, <2>4, Zenon DEF Writes
  <2>8. SortPlace'
    BY <1>128, <1>b, <2>1, <2>2, <2>3, <2>5 DEF SortPlace, Quiet, Writes, OnlyRegister
  <2>9. ASSUME SmallSpread(unsorted) PROVE SortOrder'
    BY <1>128, <2>1, <2>2, <2>9, <2>3 DEF SortInv, SortOrder, Writes, OnlyRegister
  <2>. QED BY <2>1, <2>2, <2>8, <2>9, Zenon DEF SortInv
<1>129. CASE pc = 129
  <2>a. 1 <= R[2] /\ R[2] <= 15 /\ R[3] = 74 + R[2] /\ 0 <= Pass /\ Pass <= 15 /\ R[2] <= LastInPass(Pass)
    BY <1>129, <1>b, PlaceRange DEF SortPlace, DataAt
  <2>c. /\ Wrap(R[3] + (-1)) = 74 + (R[2] - 1) /\ Writable(74 + (R[2] - 1), R[5]) /\ Off6((-1)) /\ 74 + (R[2] - 1) \in Int
        /\ 74 + (R[2] - 1) # IOAddress
    BY <2>a, WrapWord, SMT DEF Writable, Off6, IOAddress
  <2>0. M[pc] = opSTR(5, 3, -1)
    BY <1>129, SortWords
  <2>1. /\ Always' /\ Jumps(pc + 1)
        /\ M' = [M EXCEPT ![CellAt(74 + (R[2] - 1))] = R[5]]
        /\ hex' = IF 74 + (R[2] - 1) = IOAddress THEN R[5] ELSE hex
        /\ recent' = recent /\ unsorted' = unsorted /\ turn' = turn
    BY <1>129, <2>0, StepSTR, <2>c DEF Register, Off6, Writable
  <2>2. Data' = [Data EXCEPT ![R[2] - 1] = R[5]]
    <3>1. R[5] \in Word
      BY RegisterWord DEF Register
    <3>2. R[2] - 1 \in Int /\ 0 <= R[2] - 1 /\ R[2] - 1 <= 15
      BY <2>a
    <3>. QED BY <2>1, <3>1, <3>2, DataStored
  <2>3. Pass' = Pass
    BY <2>1, SamePass DEF Jumps
  <2>4. R[5] = Data[R[2]] /\ R[4] = Data[R[2] - 1]
    BY <1>129, <1>b DEF SortPlace
  <2>. DEFINE d == Data
  <2>5. PICK e : e = DataInSort'
    OBVIOUS
  <2>6. Swapped(d, e, R[2])
    <3>1. DataInSort' = [Data' EXCEPT ![R'[3] - 74] = R'[4]]
      BY <1>129, <2>1 DEF DataInSort, SortAt, DataAt, Jumps
    <3>2. R'[3] - 74 = R[2] /\ R'[4] = Data[R[2] - 1]
      BY <2>a, <2>1, <2>4 DEF Jumps
    <3>3. e = [Data' EXCEPT ![R[2]] = Data[R[2] - 1]]
      BY <2>5, <3>1, <3>2
    <3>4. Data \in [0..15 -> Word]
      BY DataCells
    <3>5. R[2] \in 0..15 /\ R[2] - 1 \in 0..15 /\ \A i \in Int : 0 <= i /\ i <= 15 => i \in 0..15
      BY <2>a
    <3>. QED BY <2>2, <2>4, <3>3, <3>4, <3>5 DEF Swapped
  <2>7. DataInSort = Data
    BY <1>129, SMT DEF DataInSort, SortAt
  <2>8. SortPlace'
    BY <1>129, <1>b, <2>1, <2>3 DEF SortPlace, Jumps
  <2>9. SameWords(DataInSort)'
    <3>1. SameWords(d)
      BY <2>7, Zenon DEF SortInv
    <3>2. \A word : Count(e, word) = Count(d, word)
      BY <2>a, <2>6, SwapCount
    <3>3. SameWords(e)
      BY <3>1, <3>2, Zenon DEF SameWords
    <3>. QED BY <2>1, <2>5, <3>3, Zenon DEF SameWords
  <2>10. Among(DataInSort)'
    <3>1. Among(d)
      BY <2>7, Zenon DEF SortInv
    <3>2. Among(e)
      BY <2>a, <2>6, <3>1, SwapAmong
    <3>. QED BY <2>1, <2>5, <3>2, Zenon DEF Among
  <2>11. ASSUME SmallSpread(unsorted) PROVE SortOrder'
    <3>1. Tops(d, Pass) /\ Front(d, R[2]) /\ d[R[2] - 1] > d[R[2]]
      BY <1>129, <2>7, <2>11 DEF SortInv, SortOrder
    <3>2. Sixteen(e)
      BY <1>a, <2>a, <2>6, SwapSixteen
    <3>3. Tops(e, Pass)
      BY <1>a, <2>a, <2>6, <3>1, <3>2, SwapTops
    <3>4. Front(e, R[2] + 1)
      BY <1>a, <2>a, <2>6, <3>1, <3>2, SwapFront
    <3>. QED BY <1>129, <2>1, <2>3, <2>5, <3>3, <3>4 DEF SortOrder, Jumps
  <2>. QED BY <2>1, <2>8, <2>9, <2>10, <2>11, Zenon DEF SortInv
<1>130. CASE pc = 130
  <2>a. 1 <= R[2] /\ R[2] <= 15 /\ R[3] = 74 + R[2] /\ 0 <= Pass /\ Pass <= 15 /\ R[2] <= LastInPass(Pass)
    BY <1>130, <1>b, PlaceRange DEF SortPlace, DataAt
  <2>c. /\ Wrap(R[3] + 0) = 74 + R[2] /\ Writable(74 + R[2], R[4]) /\ Off6(0) /\ 74 + R[2] \in Int
        /\ 74 + R[2] # IOAddress
    BY <2>a, WrapWord, SMT DEF Writable, Off6, IOAddress
  <2>0. M[pc] = opSTR(4, 3, 0)
    BY <1>130, SortWords
  <2>1. /\ Always' /\ Jumps(pc + 1)
        /\ M' = [M EXCEPT ![CellAt(74 + R[2])] = R[4]]
        /\ hex' = IF 74 + R[2] = IOAddress THEN R[4] ELSE hex
        /\ recent' = recent /\ unsorted' = unsorted /\ turn' = turn
    BY <1>130, <2>0, StepSTR, <2>c DEF Register, Off6, Writable
  <2>2. Data' = [Data EXCEPT ![R[2]] = R[4]]
    <3>1. R[4] \in Word
      BY RegisterWord DEF Register
    <3>2. R[2] \in Int /\ 0 <= R[2] /\ R[2] <= 15
      BY <2>a
    <3>. QED BY <2>1, <3>1, <3>2, DataStored
  <2>3. Pass' = Pass
    BY <2>1, SamePass DEF Jumps
  <2>4. DataInSort' = DataInSort
    <3>1. DataInSort = [Data EXCEPT ![R[3] - 74] = R[4]]
      BY <1>130, SMT DEF DataInSort, SortAt, DataAt
    <3>2. R[3] - 74 = R[2]
      BY <2>a
    <3>3. DataInSort' = Data'
      BY <1>130, <2>1, SMT DEF DataInSort, SortAt, Jumps
    <3>. QED BY <2>2, <3>1, <3>2, <3>3, Zenon
  <2>8. SortPlace'
    BY <1>130, <1>b, <2>1, <2>3 DEF SortPlace, Jumps
  <2>9. SameWords(DataInSort)'
    BY <2>1, <2>4, Zenon DEF SortInv, SameWords
  <2>10. Among(DataInSort)'
    BY <2>1, <2>4, Zenon DEF SortInv, Among
  <2>11. ASSUME SmallSpread(unsorted) PROVE SortOrder'
    BY <1>130, <2>1, <2>3, <2>4, <2>11 DEF SortInv, SortOrder, Jumps
  <2>. QED BY <2>1, <2>8, <2>9, <2>10, <2>11, Zenon DEF SortInv
<1>131. CASE pc = 131
  <2>0. M[pc] = opADDi(2, 2, 1)
    BY <1>131, SortWords
  <2>1. Always' /\ Writes(2, Wrap(R[2] + 1)) /\ Quiet
    BY <1>131, <2>0, StepADDi DEF Register, Imm5
  <2>2. /\ Data' = Data /\ DataInSort = Data /\ DataInSort' = Data
        /\ SameWords(DataInSort)' /\ Among(DataInSort)'
        /\ SmallSpread(unsorted)' => SmallSpread(unsorted)
    BY <1>131, <2>1, SortQuiet DEF Quiet, Writes
  <2>3. Pass' = Pass
    BY <2>1, SamePass DEF Writes, OnlyRegister
  <2>4. 1 <= R[2] /\ R[2] <= 15 /\ R[2] <= LastInPass(Pass) /\ 0 <= Pass /\ Pass <= 15
    BY <1>131, <1>b, PlaceRange
  <2>5. R'[2] = R[2] + 1
    <3>1. Wrap(R[2] + 1) = R[2] + 1
      BY <2>4, WrapWord, SMT
    <3>. QED BY <2>1, <3>1, Zenon DEF Writes
  <2>6. LastInPass(Pass) \in Int
    BY <2>4 DEF LastInPass
  <2>8. SortPlace'
    BY <1>131, <1>b, <2>1, <2>2, <2>3, <2>4, <2>5, <2>6 DEF SortPlace, Quiet, Writes, OnlyRegister
  <2>9. ASSUME SmallSpread(unsorted) PROVE SortOrder'
    BY <1>131, <2>1, <2>2, <2>9, <2>3, <2>4, <2>5 DEF SortInv, SortOrder, Writes, OnlyRegister
  <2>. QED BY <2>1, <2>2, <2>8, <2>9, Zenon DEF SortInv
<1>132. CASE pc = 132
  <2>0. M[pc] = opADD(3, 1, 2)
    BY <1>132, SortWords
  <2>1. Always' /\ Writes(3, Wrap(R[1] + R[2])) /\ Quiet
    BY <1>132, <2>0, StepADD DEF Register
  <2>2. /\ Data' = Data /\ DataInSort = Data /\ DataInSort' = Data
        /\ SameWords(DataInSort)' /\ Among(DataInSort)'
        /\ SmallSpread(unsorted)' => SmallSpread(unsorted)
    BY <1>132, <2>1, SortQuiet DEF Quiet, Writes
  <2>3. Pass' = Pass
    BY <2>1, SamePass DEF Writes, OnlyRegister
  <2>8. SortPlace'
    BY <1>132, <1>b, <2>1, <2>2, <2>3 DEF SortPlace, Quiet, Writes, OnlyRegister
  <2>9. ASSUME SmallSpread(unsorted) PROVE SortOrder'
    BY <1>132, <2>1, <2>2, <2>9, <2>3 DEF SortInv, SortOrder, Writes, OnlyRegister
  <2>. QED BY <2>1, <2>2, <2>8, <2>9, Zenon DEF SortInv
<1>133. CASE pc = 133
  <2>0. M[pc] = opBR(4, -13)
    BY <1>133, SortWords
  <2>b. Cond(4) /\ Off9(-13) /\ 0 <= pc + (-13) /\ pc < 255 /\ pc # 0
    BY <1>133 DEF Cond, Off9
  <2>1. Always' /\ Branches(4, -13) /\ R' = R /\ cc' = cc /\ Quiet
    BY <2>0, <2>b, StepBR, Zenon
  <2>2. /\ Data' = Data /\ DataInSort = Data /\ DataInSort' = Data
        /\ SameWords(DataInSort)' /\ Among(DataInSort)'
        /\ SmallSpread(unsorted)' => SmallSpread(unsorted)
    BY <1>133, <2>1, SortQuiet DEF Quiet, Branches
  <2>3. Pass' = Pass
    BY <2>1, SamePass
  <2>4. 0 <= Pass /\ Pass <= 15 /\ 2 <= R[2] /\ R[2] <= LastInPass(Pass) + 1
    BY <1>133, <1>b DEF SortPlace
  <2>5. R[1] = 65520 + Pass /\ R[2] <= 16
    BY <2>4, PassRange, SMT DEF LastInPass
  <2>6. cc = {FlagOf(Wrap(R[1] + R[2]))}
    BY <1>133, <1>b DEF SortPlace
  <2>7. "n" \in cc <=> Pass + R[2] < 16
    <3>1. FlagOf(Wrap(R[1] + R[2])) = "n" <=> Pass + R[2] < 16
      BY <2>4, <2>5, PassSign, SMT
    <3>. QED BY <2>6, <3>1, Zenon
  <2>10. CASE Pass + R[2] < 16
    <3>1. pc' = 121
      BY <1>133, <2>1, <2>7, <2>10 DEF Branches
    <3>2. 1 <= R[2] /\ R[2] <= LastInPass(Pass)
      BY <2>4, <2>10 DEF LastInPass
    <3>3. SortPlace'
      BY <1>133, <1>b, <2>1, <2>2, <2>3, <2>4, <3>1, <3>2 DEF SortPlace, Quiet
    <3>4. ASSUME SmallSpread(unsorted) PROVE SortOrder'
      BY <1>133, <2>1, <2>2, <2>3, <3>1, <3>4 DEF SortInv, SortOrder
    <3>. QED BY <2>1, <2>2, <3>3, <3>4, Zenon DEF SortInv
  <2>11. CASE ~(Pass + R[2] < 16)
    <3>1. pc' = 134
      BY <1>133, <2>1, <2>6, <2>7, <2>11 DEF Branches
    <3>2. Pass <= 14 => R[2] = 16 - Pass
      BY <2>4, <2>11 DEF LastInPass
    <3>3. SortPlace'
      BY <1>133, <1>b, <2>1, <2>2, <2>3, <2>4, <3>1 DEF SortPlace, Quiet
    <3>4. ASSUME SmallSpread(unsorted) PROVE SortOrder'
      <4>1. Tops(Data, Pass) /\ Front(Data, R[2])
        BY <1>133, <2>2, <3>4 DEF SortInv, SortOrder
      <4>2. Tops(Data, Pass + 1)
        BY <1>a, <2>4, <3>2, <4>1, TopsGrow
      <4>. QED BY <2>2, <2>3, <3>1, <4>2 DEF SortOrder
    <3>. QED BY <2>1, <2>2, <3>3, <3>4, Zenon DEF SortInv
  <2>. QED BY <2>10, <2>11
<1>134. CASE pc = 134
  <2>0. M[pc] = opADDi(1, 1, 1)
    BY <1>134, SortWords
  <2>1. Always' /\ Writes(1, Wrap(R[1] + 1)) /\ Quiet
    BY <1>134, <2>0, StepADDi DEF Register, Imm5
  <2>2. /\ Data' = Data /\ DataInSort = Data /\ DataInSort' = Data
        /\ SameWords(DataInSort)' /\ Among(DataInSort)'
        /\ SmallSpread(unsorted)' => SmallSpread(unsorted)
    BY <1>134, <2>1, SortQuiet DEF Quiet, Writes
  <2>4. 0 <= Pass /\ Pass <= 15
    BY <1>134, <1>b DEF SortPlace
  <2>5. R[1] = 65520 + Pass
    BY <2>4, PassRange
  <2>6. R'[1] = IF Pass = 15 THEN 0 ELSE 65520 + Pass + 1
    <3>1. Wrap(R[1] + 1) = IF Pass = 15 THEN 0 ELSE 65520 + Pass + 1
      BY <2>4, <2>5, SMT DEF Wrap
    <3>. QED BY <2>1, <3>1, SMT DEF Writes
  <2>7. Pass' = Pass + 1 /\ cc' = {FlagOf(R'[1])}
    BY <2>1, <2>4, <2>6, SMT DEF Pass, Writes
  <2>8. SortPlace'
    BY <1>134, <1>b, <2>1, <2>2, <2>4, <2>7 DEF SortPlace, Quiet, Writes, OnlyRegister
  <2>9. ASSUME SmallSpread(unsorted) PROVE SortOrder'
    BY <1>134, <2>1, <2>2, <2>9, <2>7 DEF SortInv, SortOrder, Writes, OnlyRegister
  <2>. QED BY <2>1, <2>2, <2>8, <2>9, Zenon DEF SortInv
<1>135. CASE pc = 135
  <2>0. M[pc] = opBR(4, -16)
    BY <1>135, SortWords
  <2>b. Cond(4) /\ Off9(-16) /\ 0 <= pc + (-16) /\ pc < 255 /\ pc # 0
    BY <1>135 DEF Cond, Off9
  <2>1. Always' /\ Branches(4, -16) /\ R' = R /\ cc' = cc /\ Quiet
    BY <2>0, <2>b, StepBR, Zenon
  <2>2. /\ Data' = Data /\ DataInSort = Data /\ DataInSort' = Data
        /\ SameWords(DataInSort)' /\ Among(DataInSort)'
        /\ SmallSpread(unsorted)' => SmallSpread(unsorted)
    BY <1>135, <2>1, SortQuiet DEF Quiet, Branches
  <2>3. Pass' = Pass
    BY <2>1, SamePass
  <2>4. 1 <= Pass /\ Pass <= 16 /\ cc = {FlagOf(R[1])}
    BY <1>135, <1>b DEF SortPlace
  <2>5. FlagOf(R[1]) = IF Pass = 16 THEN "z" ELSE "n"
    <3>1. R[1] = 0 \/ R[1] = 65520 + Pass
      BY RegisterRange, SMT DEF Pass
    <3>2. R[1] \in Word
      BY RegisterWord DEF Register
    <3>. QED BY <2>4, <3>1, <3>2, Signs, SMT DEF Pass, Word
  <2>6. pc' = IF Pass = 16 THEN 136 ELSE 120
    BY <1>135, <2>1, <2>4, <2>5 DEF Branches
  <2>8. SortPlace'
    BY <1>135, <1>b, <2>1, <2>2, <2>3, <2>4, <2>6 DEF SortPlace, Quiet
  <2>9. ASSUME SmallSpread(unsorted) PROVE SortOrder'
    BY <1>135, <2>1, <2>2, <2>3, <2>6, <2>9 DEF SortInv, SortOrder
  <2>. QED BY <2>1, <2>2, <2>8, <2>9, Zenon DEF SortInv
<1>136. CASE pc = 136
  <2>0. M[pc] = opJMP(7)
    BY <1>136, SortWords
  <2>1. Always' /\ Jumps(R[7]) /\ Quiet
    BY <1>136, <2>0, StepJMP DEF Register
  <2>. QED BY <1>136, <1>b, <2>1 DEF SortPlace, MenuInv, Jumps, Quiet
<1>. QED BY <1>119, <1>120, <1>121, <1>122, <1>123, <1>124, <1>125, <1>126, <1>127, <1>128, <1>129, <1>130, <1>131, <1>132, <1>133, <1>134, <1>135, <1>136

-----------------------------------------------------------------------------
(* The arithmetic of the multiplier *)

\* What was read is a word.
LEMMA LatestWord ==
  ASSUME Always
  PROVE  /\ 1 <= Len(recent) => Latest(0) \in Word
         /\ 2 <= Len(recent) => Latest(1) \in Word
<1>1. \A s \in Seq(Word) : \A m \in 1..Len(s) : s[m] \in Word
  OBVIOUS
<1>2. \A m \in Nat : /\ 1 <= m => m - 0 \in 1..m
                     /\ 2 <= m => m - 1 \in 1..m
  OBVIOUS
<1>. QED BY <1>1, <1>2, AlwaysHistory, Zenon DEF Latest

\* Bit 7 of a word is the top bit of its low byte.
LEMMA LowByte ==
  ASSUME NEW w \in Word
  PROVE  /\ w % 256 \in Int /\ 0 <= w % 256 /\ w % 256 <= 255
         /\ Bit(w, 128) <=> w % 256 >= 128
<1>1. w \in Int /\ 0 <= w /\ w <= 65535
  BY SMT DEF Word
<1>2. PICK h \in Int, x \in Int : w = 256 * h + x /\ 0 <= x /\ x <= 255
  <2>1. /\ w \div 256 \in Int /\ w % 256 \in Int /\ w = 256 * (w \div 256) + (w % 256)
        /\ 0 <= w % 256 /\ w % 256 <= 255
    BY <1>1, SMT
  <2>. QED BY <2>1, Zenon
<1>3. w % 256 = x
  BY <1>2, SMT
<1>4. w \div 128 = 2 * h + (IF x >= 128 THEN 1 ELSE 0)
  BY <1>2, SMT
<1>5. (w \div 128) % 2 = IF x >= 128 THEN 1 ELSE 0
  BY <1>4, SMT
<1>. QED BY <1>2, <1>3, <1>5 DEF Bit

\* The bit that the multiplier tests, as the top digit of the low byte.
LEMMA DigitByte ==
  ASSUME NEW w \in Word
  PROVE  Digit(w) = (IF w % 256 >= 128 THEN 1 ELSE 0)
  BY LowByte, Zenon DEF Digit

\* How the program tests the digit: an and with 128.
LEMMA AndHigh == ASSUME NEW w PROVE And(128, w) = (IF Bit(w, 128) THEN 128 ELSE 0)
<1>1. /\ Bit(128, 128)
      /\ ~Bit(128, 1) /\ ~Bit(128, 2) /\ ~Bit(128, 4) /\ ~Bit(128, 8) /\ ~Bit(128, 16)
      /\ ~Bit(128, 32) /\ ~Bit(128, 64) /\ ~Bit(128, 256) /\ ~Bit(128, 512) /\ ~Bit(128, 1024)
      /\ ~Bit(128, 2048) /\ ~Bit(128, 4096) /\ ~Bit(128, 8192) /\ ~Bit(128, 16384)
      /\ ~Bit(128, 32768)
  BY SMT DEF Bit
<1>. QED BY <1>1, SMT DEF And

\* The bits that are left, shifted once more.
LEMMA LeftShifts ==
  ASSUME NEW a \in Word, NEW w \in Word, NEW k \in Int, 0 <= k, k <= 7, w % 256 = Left(k, a)
  PROVE  Wrap(w + w) % 256 = Left(k + 1, a)
<1>1. PICK x \in Int : x = a % 256 /\ 0 <= x /\ x <= 255
  BY LowByte
<1>2. Wrap(w + w) % 256 = (2 * (w % 256)) % 256
  <2>1. w \in Int
    BY SMT DEF Word
  <2>2. PICK h \in Int, y \in Int : w = 256 * h + y /\ 0 <= y /\ y <= 255
    BY <2>1, SMT
  <2>. QED BY <2>1, <2>2, SMT DEF Wrap
<1>10. CASE k = 0
  <2>1. w % 256 = (x % 256) * 1
    BY <1>1, <1>10, SMT DEF Left, Power
  <2>2. Left(k + 1, a) = (x % 128) * 2
    BY <1>1, <1>10, SMT DEF Left, Power
  <2>3. (2 * ((x % 256) * 1)) % 256 = (x % 128) * 2
    BY <1>1, SMT
  <2>. QED BY <1>2, <2>1, <2>2, <2>3, SMT
<1>11. CASE k = 1
  <2>1. w % 256 = (x % 128) * 2
    BY <1>1, <1>11, SMT DEF Left, Power
  <2>2. Left(k + 1, a) = (x % 64) * 4
    BY <1>1, <1>11, SMT DEF Left, Power
  <2>3. (2 * ((x % 128) * 2)) % 256 = (x % 64) * 4
    BY <1>1, SMT
  <2>. QED BY <1>2, <2>1, <2>2, <2>3, SMT
<1>12. CASE k = 2
  <2>1. w % 256 = (x % 64) * 4
    BY <1>1, <1>12, SMT DEF Left, Power
  <2>2. Left(k + 1, a) = (x % 32) * 8
    BY <1>1, <1>12, SMT DEF Left, Power
  <2>3. (2 * ((x % 64) * 4)) % 256 = (x % 32) * 8
    BY <1>1, SMT
  <2>. QED BY <1>2, <2>1, <2>2, <2>3, SMT
<1>13. CASE k = 3
  <2>1. w % 256 = (x % 32) * 8
    BY <1>1, <1>13, SMT DEF Left, Power
  <2>2. Left(k + 1, a) = (x % 16) * 16
    BY <1>1, <1>13, SMT DEF Left, Power
  <2>3. (2 * ((x % 32) * 8)) % 256 = (x % 16) * 16
    BY <1>1, SMT
  <2>. QED BY <1>2, <2>1, <2>2, <2>3, SMT
<1>14. CASE k = 4
  <2>1. w % 256 = (x % 16) * 16
    BY <1>1, <1>14, SMT DEF Left, Power
  <2>2. Left(k + 1, a) = (x % 8) * 32
    BY <1>1, <1>14, SMT DEF Left, Power
  <2>3. (2 * ((x % 16) * 16)) % 256 = (x % 8) * 32
    BY <1>1, SMT
  <2>. QED BY <1>2, <2>1, <2>2, <2>3, SMT
<1>15. CASE k = 5
  <2>1. w % 256 = (x % 8) * 32
    BY <1>1, <1>15, SMT DEF Left, Power
  <2>2. Left(k + 1, a) = (x % 4) * 64
    BY <1>1, <1>15, SMT DEF Left, Power
  <2>3. (2 * ((x % 8) * 32)) % 256 = (x % 4) * 64
    BY <1>1, SMT
  <2>. QED BY <1>2, <2>1, <2>2, <2>3, SMT
<1>16. CASE k = 6
  <2>1. w % 256 = (x % 4) * 64
    BY <1>1, <1>16, SMT DEF Left, Power
  <2>2. Left(k + 1, a) = (x % 2) * 128
    BY <1>1, <1>16, SMT DEF Left, Power
  <2>3. (2 * ((x % 4) * 64)) % 256 = (x % 2) * 128
    BY <1>1, SMT
  <2>. QED BY <1>2, <2>1, <2>2, <2>3, SMT
<1>17. CASE k = 7
  <2>1. w % 256 = (x % 2) * 128
    BY <1>1, <1>17, SMT DEF Left, Power
  <2>2. Left(k + 1, a) = (x % 1) * 256
    BY <1>1, <1>17, SMT DEF Left, Power
  <2>3. (2 * ((x % 2) * 128)) % 256 = (x % 1) * 256
    BY <1>1, SMT
  <2>. QED BY <1>2, <2>1, <2>2, <2>3, SMT
<1>3. k = 0 \/ k = 1 \/ k = 2 \/ k = 3 \/ k = 4 \/ k = 5 \/ k = 6 \/ k = 7
  OBVIOUS
<1>. QED BY <1>3, <1>10, <1>11, <1>12, <1>13, <1>14, <1>15, <1>16, <1>17, Zenon

\* The bits that are out, with the next one.
LEMMA OutGrows ==
  ASSUME NEW a \in Word, NEW w \in Word, NEW k \in Int, 1 <= k, k <= 7, w % 256 = Left(k, a)
  PROVE  Out(k + 1, a) = 2 * Out(k, a) + Digit(w)
<1>1. PICK x \in Int : x = a % 256 /\ 0 <= x /\ x <= 255
  BY LowByte
<1>2. Digit(w) = IF w % 256 >= 128 THEN 1 ELSE 0
  BY DigitByte
<1>11. CASE k = 1
  <2>1. w % 256 = (x % 128) * 2
    BY <1>1, <1>11, SMT DEF Left, Power
  <2>2. /\ Out(k, a) = (x \div 128) - (IF Bit(a, 128) THEN 2 ELSE 0)
        /\ Out(k + 1, a) = (x \div 64) - (IF Bit(a, 128) THEN 4 ELSE 0)
    BY <1>1, <1>11, SMT DEF Out, Power
  <2>3. x \div 64 = 2 * (x \div 128) + (IF (x % 128) * 2 >= 128 THEN 1 ELSE 0)
    BY <1>1, SMT
  <2>. QED BY <1>1, <1>2, <2>1, <2>2, <2>3, SMT
<1>12. CASE k = 2
  <2>1. w % 256 = (x % 64) * 4
    BY <1>1, <1>12, SMT DEF Left, Power
  <2>2. /\ Out(k, a) = (x \div 64) - (IF Bit(a, 128) THEN 4 ELSE 0)
        /\ Out(k + 1, a) = (x \div 32) - (IF Bit(a, 128) THEN 8 ELSE 0)
    BY <1>1, <1>12, SMT DEF Out, Power
  <2>3. x \div 32 = 2 * (x \div 64) + (IF (x % 64) * 4 >= 128 THEN 1 ELSE 0)
    BY <1>1, SMT
  <2>. QED BY <1>1, <1>2, <2>1, <2>2, <2>3, SMT
<1>13. CASE k = 3
  <2>1. w % 256 = (x % 32) * 8
    BY <1>1, <1>13, SMT DEF Left, Power
  <2>2. /\ Out(k, a) = (x \div 32) - (IF Bit(a, 128) THEN 8 ELSE 0)
        /\ Out(k + 1, a) = (x \div 16) - (IF Bit(a, 128) THEN 16 ELSE 0)
    BY <1>1, <1>13, SMT DEF Out, Power
  <2>3. x \div 16 = 2 * (x \div 32) + (IF (x % 32) * 8 >= 128 THEN 1 ELSE 0)
    BY <1>1, SMT
  <2>. QED BY <1>1, <1>2, <2>1, <2>2, <2>3, SMT
<1>14. CASE k = 4
  <2>1. w % 256 = (x % 16) * 16
    BY <1>1, <1>14, SMT DEF Left, Power
  <2>2. /\ Out(k, a) = (x \div 16) - (IF Bit(a, 128) THEN 16 ELSE 0)
        /\ Out(k + 1, a) = (x \div 8) - (IF Bit(a, 128) THEN 32 ELSE 0)
    BY <1>1, <1>14, SMT DEF Out, Power
  <2>3. x \div 8 = 2 * (x \div 16) + (IF (x % 16) * 16 >= 128 THEN 1 ELSE 0)
    BY <1>1, SMT
  <2>. QED BY <1>1, <1>2, <2>1, <2>2, <2>3, SMT
<1>15. CASE k = 5
  <2>1. w % 256 = (x % 8) * 32
    BY <1>1, <1>15, SMT DEF Left, Power
  <2>2. /\ Out(k, a) = (x \div 8) - (IF Bit(a, 128) THEN 32 ELSE 0)
        /\ Out(k + 1, a) = (x \div 4) - (IF Bit(a, 128) THEN 64 ELSE 0)
    BY <1>1, <1>15, SMT DEF Out, Power
  <2>3. x \div 4 = 2 * (x \div 8) + (IF (x % 8) * 32 >= 128 THEN 1 ELSE 0)
    BY <1>1, SMT
  <2>. QED BY <1>1, <1>2, <2>1, <2>2, <2>3, SMT
<1>16. CASE k = 6
  <2>1. w % 256 = (x % 4) * 64
    BY <1>1, <1>16, SMT DEF Left, Power
  <2>2. /\ Out(k, a) = (x \div 4) - (IF Bit(a, 128) THEN 64 ELSE 0)
        /\ Out(k + 1, a) = (x \div 2) - (IF Bit(a, 128) THEN 128 ELSE 0)
    BY <1>1, <1>16, SMT DEF Out, Power
  <2>3. x \div 2 = 2 * (x \div 4) + (IF (x % 4) * 64 >= 128 THEN 1 ELSE 0)
    BY <1>1, SMT
  <2>. QED BY <1>1, <1>2, <2>1, <2>2, <2>3, SMT
<1>17. CASE k = 7
  <2>1. w % 256 = (x % 2) * 128
    BY <1>1, <1>17, SMT DEF Left, Power
  <2>2. /\ Out(k, a) = (x \div 2) - (IF Bit(a, 128) THEN 128 ELSE 0)
        /\ Out(k + 1, a) = (x \div 1) - (IF Bit(a, 128) THEN 256 ELSE 0)
    BY <1>1, <1>17, SMT DEF Out, Power
  <2>3. x \div 1 = 2 * (x \div 2) + (IF (x % 2) * 128 >= 128 THEN 1 ELSE 0)
    <3>0. \A y \in Int : y \div 1 = y
      BY SMT
    <3>1. x \div 1 = x /\ (x % 2 = 0 \/ x % 2 = 1) /\ x = 2 * (x \div 2) + (x % 2)
      BY <3>0, SMT
    <3>. QED BY <1>1, <3>1, SMT
  <2>. QED BY <1>1, <1>2, <2>1, <2>2, <2>3, SMT
<1>3. k = 1 \/ k = 2 \/ k = 3 \/ k = 4 \/ k = 5 \/ k = 6 \/ k = 7
  OBVIOUS
<1>. QED BY <1>3, <1>11, <1>12, <1>13, <1>14, <1>15, <1>16, <1>17, Zenon

\* The number shifted out is an integer.
LEMMA OutInt == ASSUME NEW a \in Word, NEW k \in Int, 0 <= k, k <= 8 PROVE Out(k, a) \in Int
<1>1. PICK x \in Int : x = a % 256
  BY LowByte
<1>2. \A i \in Int : Power(i) \in Int /\ Power(i) > 0
  BY DEF Power
<1>3. x \div Power(8 - k) \in Int
  BY <1>1, <1>2
<1>. QED BY <1>1, <1>2, <1>3 DEF Out

\* Nothing is out at first.  The first bit to come is the sign.
LEMMA OutStarts ==
  ASSUME NEW a \in Word
  PROVE  /\ Out(0, a) = 0 /\ Left(0, a) = a % 256
         /\ \A w \in Word : w % 256 = Left(0, a) => Out(1, a) = -Digit(w)
<1>1. PICK x \in Int : x = a % 256 /\ 0 <= x /\ x <= 255
  BY LowByte
<1>2. Out(0, a) = 0 /\ Left(0, a) = x
  BY <1>1 DEF Out, Left, Power
<1>3. Out(1, a) = (x \div 128) - (IF Bit(a, 128) THEN 2 ELSE 0)
  BY <1>1, SMT DEF Out, Power
<1>4. Out(1, a) = IF x >= 128 THEN -1 ELSE 0
  BY <1>1, <1>3, LowByte
<1>5. ASSUME NEW w \in Word, w % 256 = Left(0, a) PROVE Out(1, a) = -Digit(w)
  BY <1>2, <1>4, <1>5, DigitByte
<1>. QED BY <1>1, <1>2, <1>5

\* When all eight are out, they are the signed byte.
LEMMA OutEnds == ASSUME NEW a \in Word PROVE Out(8, a) = SignedByte(a)
<1>1. PICK x \in Int : x = a % 256 /\ 0 <= x /\ x <= 255
  BY LowByte
<1>2. Out(8, a) = (x \div 1) - (IF Bit(a, 128) THEN 256 ELSE 0)
  BY <1>1, SMT DEF Out, Power
<1>. QED BY <1>1, <1>2 DEF SignedByte

\* Sums and complements, of products modulo 2^16.
LEMMA WrapSums ==
  ASSUME NEW x \in Int, NEW y \in Int
  PROVE  /\ Wrap(Wrap(x) + Wrap(y)) = Wrap(x + y)
         /\ Wrap(Not(Wrap(x)) + 1) = Wrap(-x)
<1>1. PICK h \in Int, u \in Int : x = 65536 * h + u /\ 0 <= u /\ u <= 65535
  <2>. DEFINE h == x \div 65536
             u == x % 65536
  <2>1. h \in Int /\ u \in Int /\ x = 65536 * h + u /\ 0 <= u /\ u <= 65535
    BY SMT
  <2>. HIDE DEF h, u
  <2>. QED BY <2>1, SMT
<1>2. PICK g \in Int, v \in Int : y = 65536 * g + v /\ 0 <= v /\ v <= 65535
  <2>. DEFINE g == y \div 65536
             v == y % 65536
  <2>1. g \in Int /\ v \in Int /\ y = 65536 * g + v /\ 0 <= v /\ v <= 65535
    BY SMT
  <2>. HIDE DEF g, v
  <2>. QED BY <2>1, SMT
<1>3. Wrap(x) = u /\ Wrap(y) = v
  BY <1>1, <1>2, SMT DEF Wrap
<1>4. Wrap(u + v) = Wrap(x + y)
  BY <1>1, <1>2, SMT DEF Wrap
<1>5. Wrap(Not(u) + 1) = Wrap(-x)
  BY <1>1, SMT DEF Wrap, Not
<1>. QED BY <1>3, <1>4, <1>5, Zenon

\* Sums and complements of products, modulo 2^16.
LEMMA Products ==
  ASSUME NEW b \in Word, NEW f \in Int, NEW g \in Int
  PROVE  /\ Wrap(Product(f, b) + Product(g, b)) = Product(f + g, b)
         /\ Wrap(Not(Product(f, b)) + 1) = Product(-f, b)
         /\ Product(1, b) = b /\ Product(0, b) = 0
<1>0. b \in Int /\ 0 <= b /\ b <= 65535
  BY SMT DEF Word
<1>1. f * b \in Int /\ g * b \in Int /\ (f + g) * b = f * b + g * b /\ (-f) * b = -(f * b)
  BY <1>0, SMT
<1>2. 1 * b = b /\ 0 * b = 0
  BY <1>0
<1>3. Wrap(b) = b /\ Wrap(0) = 0
  BY <1>0, WrapWord, SMT
<1>4. /\ Wrap(Wrap(f * b) + Wrap(g * b)) = Wrap(f * b + g * b)
      /\ Wrap(Not(Wrap(f * b)) + 1) = Wrap(-(f * b))
  BY <1>1, WrapSums, Zenon
<1>. QED BY <1>1, <1>2, <1>3, <1>4, Zenon DEF Product

-----------------------------------------------------------------------------
(* The multiplier *)

\* The sign of R[4] - 8 is on while R[4] is below 8.
LEMMA BelowEight ==
  ASSUME NEW k \in Int, 1 <= k, k <= 8
  PROVE  FlagOf(Wrap(k - 8)) = (IF k = 8 THEN "z" ELSE "n")
<1>1. Wrap(k - 8) = IF k = 8 THEN 0 ELSE k + 65528
  BY SMT DEF Wrap
<1>2. Wrap(k - 8) \in Word
  BY <1>1, SMT DEF Word
<1>. QED BY <1>1, <1>2, Signs, SMT

\* The latest words change with a read only.
LEMMA SameLatest == recent' = recent => Latest(0)' = Latest(0) /\ Latest(1)' = Latest(1)
  BY DEF Latest

\* Every instruction of the multiplier.
LEMMA MultiplierSteps ==
  ASSUME Always, MultiplierInv, ExecuteProgram
  PROVE  Always' /\ MultiplierInv'
<1>. pc \in Int /\ 49 <= pc /\ pc <= 72
  BY AlwaysFacts DEF MultiplierInv
<1>. R[1] \in Int /\ R[2] \in Int /\ R[3] \in Int /\ R[4] \in Int /\ 0 <= R[4] /\ R[5] \in Int
  BY RegisterRange
<1>w. R[1] \in Word /\ R[2] \in Word
  BY RegisterWord DEF Register
<1>a. 58 <= pc => Latest(0) \in Word /\ Latest(1) \in Word
  <2>1. \A m \in Nat : 2 <= m => 1 <= m
    OBVIOUS
  <2>2. 58 <= pc => 1 <= Len(recent) /\ 2 <= Len(recent)
    BY <2>1, AlwaysHistory, Zenon DEF MultiplierInv
  <2>. QED BY <2>2, LatestWord, Zenon
<1>49. CASE pc = 49
  <2>0. M[pc] = opCLR(0)
    BY <1>49, MultiplierWords
  <2>1. Always' /\ Writes(0, 0) /\ Quiet
    BY <1>49, <2>0, StepCLR DEF Register
  <2>2. Latest(0)' = Latest(0) /\ Latest(1)' = Latest(1) /\ recent' = recent
    BY <2>1, SameLatest DEF Quiet
  <2>. QED BY <1>49, <2>1, <2>2 DEF MultiplierInv, Writes, OnlyRegister, Quiet
<1>50. CASE pc = 50
  <2>0. M[pc] = opJSR(0)
    BY <1>50, MultiplierWords
  <2>1. /\ Always' /\ R'[7] = 51 /\ OnlyRegister(7) /\ cc' = cc /\ pc' = 51
        /\ M' = M /\ hex' = hex /\ recent' = recent
        /\ unsorted' = IF pc' = SortAt THEN Data ELSE unsorted
    BY <1>50, <2>0, StepJSR DEF Off11
  <2>. QED BY <1>50, <2>1 DEF MultiplierInv, OnlyRegister
<1>51. CASE pc = 51
  <2>c. R[7] + 22 = 73 /\ Near(73) /\ Off6(22)
    BY <1>51 DEF MultiplierInv, Near, Off6
  <2>0. M[pc] = opLDR(3, 7, 22)
    BY <1>51, MultiplierWords
  <2>1. Always' /\ Writes(3, M[73]) /\ Quiet
    BY <1>51, <2>0, StepLDR, <2>c DEF Register, Off6, Near
  <2>2. Latest(0)' = Latest(0) /\ Latest(1)' = Latest(1) /\ recent' = recent
    BY <2>1, SameLatest DEF Quiet
  <2>3. M[73] = 128
    BY MultiplierWords
  <2>. QED BY <1>51, <2>1, <2>2, <2>3 DEF MultiplierInv, Writes, OnlyRegister, Quiet
<1>52. CASE pc = 52
  <2>0. M[pc] = opCLR(4)
    BY <1>52, MultiplierWords
  <2>1. Always' /\ Writes(4, 0) /\ Quiet
    BY <1>52, <2>0, StepCLR DEF Register
  <2>2. Latest(0)' = Latest(0) /\ Latest(1)' = Latest(1) /\ recent' = recent
    BY <2>1, SameLatest DEF Quiet
  <2>. QED BY <1>52, <2>1, <2>2 DEF MultiplierInv, Writes, OnlyRegister, Quiet
<1>53. CASE pc = 53
  <2>0. M[pc] = opCLR(5)
    BY <1>53, MultiplierWords
  <2>1. Always' /\ Writes(5, 0) /\ Quiet
    BY <1>53, <2>0, StepCLR DEF Register
  <2>2. Latest(0)' = Latest(0) /\ Latest(1)' = Latest(1) /\ recent' = recent
    BY <2>1, SameLatest DEF Quiet
  <2>. QED BY <1>53, <2>1, <2>2 DEF MultiplierInv, Writes, OnlyRegister, Quiet
<1>54. CASE pc = 54
  <2>0. Opcode(M[pc]) = op_PSE
    BY <1>54, MultiplierWords
  <2>1. Always' /\ Jumps(55) /\ Quiet
    BY <1>54, <2>0, StepPSE
  <2>2. Latest(0)' = Latest(0) /\ Latest(1)' = Latest(1) /\ recent' = recent
    BY <2>1, SameLatest DEF Quiet
  <2>. QED BY <1>54, <2>1, <2>2 DEF MultiplierInv, Jumps, Quiet
<1>55. CASE pc = 55
  <2>0. M[pc] = opLDR(1, 0, inSW)
    BY <1>55, MultiplierWords
  <2>1. Always' /\ Writes(1, Latest(0)') /\ Reads /\ M' = M /\ hex' = hex /\ unsorted' = unsorted
    BY <1>55, <2>0, StepSwitches DEF Register
  <2>. QED BY <1>55, <2>1 DEF MultiplierInv, Writes, OnlyRegister, Reads
<1>56. CASE pc = 56
  <2>0. Opcode(M[pc]) = op_PSE
    BY <1>56, MultiplierWords
  <2>1. Always' /\ Jumps(57) /\ Quiet
    BY <1>56, <2>0, StepPSE
  <2>2. Latest(0)' = Latest(0) /\ Latest(1)' = Latest(1) /\ recent' = recent
    BY <2>1, SameLatest DEF Quiet
  <2>. QED BY <1>56, <2>1, <2>2 DEF MultiplierInv, Jumps, Quiet
<1>57. CASE pc = 57
  <2>0. M[pc] = opLDR(2, 0, inSW)
    BY <1>57, MultiplierWords
  <2>1. Always' /\ Writes(2, Latest(0)') /\ Reads /\ M' = M /\ hex' = hex /\ unsorted' = unsorted
    BY <1>57, <2>0, StepSwitches DEF Register
  <2>2. Latest(1)' = Latest(0) /\ 2 <= Len(recent') /\ 1 <= Len(recent')
    <3>1. Len(recent) \in Nat /\ 1 <= Len(recent)
      BY AlwaysHistory DEF MultiplierInv
    <3>. QED BY <2>1, <3>1, SecondRead DEF Reads
  <2>3. R[4] = 0 /\ R[5] = 0 /\ R[3] = 128 /\ R[1] = Latest(0)
    BY <1>57 DEF MultiplierInv
  <2>4. /\ pc' = 58 /\ R'[1] = Latest(1)' /\ R'[2] = Latest(0)' /\ R'[3] = 128 /\ R'[4] = 0
        /\ R'[5] = 0
    BY <1>57, <2>1, <2>2, <2>3 DEF Writes, OnlyRegister
  <2>5. PICK x \in Word : x = Latest(0)
    BY <1>w, <2>3
  <2>6. PICK y \in Word : y = Latest(0)'
    BY <2>1 DEF Reads
  <2>7. Out(0, x) = 0 /\ Left(0, x) = x % 256
    BY OutStarts
  <2>8. Product(0, y) = 0
    BY Products
  <2>9. R'[1] % 256 = Left(R'[4], Latest(1)')
    BY <2>2, <2>4, <2>5, <2>7
  <2>10. R'[5] = Product(Out(R'[4], Latest(1)'), Latest(0)')
    BY <2>2, <2>4, <2>5, <2>6, <2>7, <2>8
  <2>. QED BY <2>1, <2>2, <2>4, <2>9, <2>10 DEF MultiplierInv
<1>58. CASE pc = 58
  <2>0. M[pc] = opADD(5, 5, 5)
    BY <1>58, MultiplierWords
  <2>1. Always' /\ Writes(5, Wrap(R[5] + R[5])) /\ Quiet
    BY <1>58, <2>0, StepADD DEF Register
  <2>2. Latest(0)' = Latest(0) /\ Latest(1)' = Latest(1) /\ recent' = recent
    BY <2>1, SameLatest DEF Quiet
  <2>3. /\ Latest(0) \in Word /\ Latest(1) \in Word
        /\ R[5] = Product(Out(R[4], Latest(1)), Latest(0)) /\ R[4] <= 7
    BY <1>58, <1>a DEF MultiplierInv
  <2>4. PICK f \in Int : f = Out(R[4], Latest(1))
    BY <2>3, OutInt
  <2>5. Wrap(R[5] + R[5]) = Product(f + f, Latest(0))
    <3>1. R[5] = Product(f, Latest(0)) /\ Latest(0) \in Word
      BY <2>3, <2>4, Zenon
    <3>2. Wrap(Product(f, Latest(0)) + Product(f, Latest(0))) = Product(f + f, Latest(0))
      BY <2>4, <3>1, Products, Zenon
    <3>. QED BY <3>1, <3>2, Zenon
  <2>6. f + f = 2 * f
    OBVIOUS
  <2>7. R'[5] = Product(2 * Out(R[4], Latest(1)), Latest(0))
    BY <2>1, <2>4, <2>5, <2>6, Zenon DEF Writes
  <2>. QED BY <1>58, <2>1, <2>2, <2>7 DEF MultiplierInv, Writes, OnlyRegister, Quiet
<1>59. CASE pc = 59
  <2>0. M[pc] = opAND(7, 3, 1)
    BY <1>59, MultiplierWords
  <2>1. Always' /\ Writes(7, And(R[3], R[1])) /\ Quiet
    BY <1>59, <2>0, StepAND DEF Register
  <2>2. Latest(0)' = Latest(0) /\ Latest(1)' = Latest(1) /\ recent' = recent
    BY <2>1, SameLatest DEF Quiet
  <2>3. R[3] = 128
    BY <1>59 DEF MultiplierInv
  <2>. QED BY <1>59, <2>1, <2>2, <2>3 DEF MultiplierInv, Writes, OnlyRegister, Quiet
<1>60. CASE pc = 60
  <2>0. M[pc] = opBR(2, 1)
    BY <1>60, MultiplierWords
  <2>b. Cond(2) /\ Off9(1) /\ 0 <= pc + (1) /\ pc < 255 /\ pc # 0
    BY <1>60 DEF Cond, Off9
  <2>1. Always' /\ Branches(2, 1) /\ R' = R /\ cc' = cc /\ Quiet
    BY <2>0, <2>b, StepBR, Zenon
  <2>2. Latest(0)' = Latest(0) /\ Latest(1)' = Latest(1) /\ recent' = recent
    BY <2>1, SameLatest DEF Quiet
  <2>3. cc = {FlagOf(R[7])} /\ R[7] = And(128, R[1])
    BY <1>60 DEF MultiplierInv
  <2>4. R[7] = IF Bit(R[1], 128) THEN 128 ELSE 0
    BY <2>3, AndHigh, Zenon
  <2>5. FlagOf(128) = "p" /\ FlagOf(0) = "z"
    BY DEF FlagOf, Bit
  <2>6. pc' = IF Bit(R[1], 128) THEN 61 ELSE 62
    BY <1>60, <2>1, <2>3, <2>4, <2>5 DEF Branches
  <2>7. ~Bit(R[1], 128) => Digit(R[1]) = 0
    BY DEF Digit
  <2>8. Latest(0) \in Word /\ Latest(1) \in Word /\ R[4] <= 7
    BY <1>60, <1>a DEF MultiplierInv
  <2>9. PICK f \in Int : f = Out(R[4], Latest(1))
    BY <2>8, OutInt
  <2>10. ~Bit(R[1], 128) => 2 * Out(R[4], Latest(1)) + Digit(R[1]) = 2 * Out(R[4], Latest(1))
    BY <2>7, <2>9
  <2>. QED BY <1>60, <2>1, <2>2, <2>6, <2>10 DEF MultiplierInv, Branches, Quiet
<1>61. CASE pc = 61
  <2>0. M[pc] = opADD(5, 5, 2)
    BY <1>61, MultiplierWords
  <2>1. Always' /\ Writes(5, Wrap(R[5] + R[2])) /\ Quiet
    BY <1>61, <2>0, StepADD DEF Register
  <2>2. Latest(0)' = Latest(0) /\ Latest(1)' = Latest(1) /\ recent' = recent
    BY <2>1, SameLatest DEF Quiet
  <2>3. /\ Latest(0) \in Word /\ Latest(1) \in Word /\ R[2] = Latest(0)
        /\ R[5] = Product(2 * Out(R[4], Latest(1)), Latest(0)) /\ R[4] <= 7
    BY <1>61, <1>a DEF MultiplierInv
  <2>4. PICK f \in Int : f = 2 * Out(R[4], Latest(1))
    <3>1. Out(R[4], Latest(1)) \in Int
      BY <2>3, OutInt
    <3>. QED BY <3>1
  <2>5. Wrap(R[5] + R[2]) = Product(f + 1, Latest(0))
    <3>1. 1 \in Int
      OBVIOUS
    <3>2. R[5] = Product(f, Latest(0)) /\ Latest(0) \in Word
      BY <2>3, <2>4, Zenon
    <3>3. /\ Wrap(Product(f, Latest(0)) + Product(1, Latest(0))) = Product(f + 1, Latest(0))
          /\ Product(1, Latest(0)) = Latest(0)
      BY <2>4, <3>1, <3>2, Products, ZenonT(30)
    <3>. QED BY <2>3, <3>2, <3>3, Zenon
  <2>6. Digit(R[1]) = 1
    BY <1>61 DEF MultiplierInv, Digit
  <2>7. R'[5] = Product(2 * Out(R[4], Latest(1)) + Digit(R[1]), Latest(0))
    BY <2>1, <2>4, <2>5, <2>6, Zenon DEF Writes
  <2>. QED BY <1>61, <2>1, <2>2, <2>7 DEF MultiplierInv, Writes, OnlyRegister, Quiet
<1>62. CASE pc = 62
  <2>0. M[pc] = opADDi(4, 4, 0)
    BY <1>62, MultiplierWords
  <2>1. Always' /\ Writes(4, Wrap(R[4] + 0)) /\ Quiet
    BY <1>62, <2>0, StepADDi DEF Register, Imm5
  <2>2. Latest(0)' = Latest(0) /\ Latest(1)' = Latest(1) /\ recent' = recent
    BY <2>1, SameLatest DEF Quiet
  <2>3. R[4] <= 7
    BY <1>62 DEF MultiplierInv
  <2>4. Wrap(R[4] + 0) = R[4]
    BY <2>3, WrapWord, SMT
  <2>5. R'[4] = R[4] /\ cc' = {FlagOf(R[4])}
    BY <2>1, <2>4, Zenon DEF Writes
  <2>. QED BY <1>62, <2>1, <2>2, <2>5 DEF MultiplierInv, Writes, OnlyRegister, Quiet
<1>63. CASE pc = 63
  <2>0. M[pc] = opBR(1, 2)
    BY <1>63, MultiplierWords
  <2>b. Cond(1) /\ Off9(2) /\ 0 <= pc + (2) /\ pc < 255 /\ pc # 0
    BY <1>63 DEF Cond, Off9
  <2>1. Always' /\ Branches(1, 2) /\ R' = R /\ cc' = cc /\ Quiet
    BY <2>0, <2>b, StepBR, Zenon
  <2>2. Latest(0)' = Latest(0) /\ Latest(1)' = Latest(1) /\ recent' = recent
    BY <2>1, SameLatest DEF Quiet
  <2>3. cc = {FlagOf(R[4])} /\ R[4] <= 7 /\ R[1] % 256 = Left(R[4], Latest(1))
    BY <1>63 DEF MultiplierInv
  <2>4. R[4] \in Word
    BY <2>3, SMT DEF Word
  <2>5. FlagOf(R[4]) = IF R[4] = 0 THEN "z" ELSE "p"
    BY <2>3, <2>4, Signs, SMT
  <2>6. pc' = IF R[4] = 0 THEN 64 ELSE 66
    BY <1>63, <2>1, <2>3, <2>5 DEF Branches
  <2>7. Latest(1) \in Word
    BY <1>63, <1>a
  <2>8. R[4] # 0 => Out(R[4] + 1, Latest(1)) = 2 * Out(R[4], Latest(1)) + Digit(R[1])
    <3>1. R[4] # 0 => 1 <= R[4]
      OBVIOUS
    <3>. QED BY <1>w, <2>3, <2>7, <3>1, OutGrows, Zenon
  <2>. QED BY <1>63, <2>1, <2>2, <2>6, <2>8 DEF MultiplierInv, Branches, Quiet
<1>64. CASE pc = 64
  <2>0. M[pc] = opNOT(5, 5)
    BY <1>64, MultiplierWords
  <2>1. Always' /\ Writes(5, Not(R[5])) /\ Quiet
    BY <1>64, <2>0, StepNOT DEF Register
  <2>2. Latest(0)' = Latest(0) /\ Latest(1)' = Latest(1) /\ recent' = recent
    BY <2>1, SameLatest DEF Quiet
  <2>3. R[5] = Product(2 * Out(R[4], Latest(1)) + Digit(R[1]), Latest(0)) /\ R[4] = 0 /\ Latest(1) \in Word
    BY <1>64, <1>a DEF MultiplierInv
  <2>4. 2 * Out(R[4], Latest(1)) + Digit(R[1]) = Digit(R[1])
    <3>1. Out(0, Latest(1)) = 0 /\ Digit(R[1]) \in Int
      BY <2>3, OutStarts DEF Digit
    <3>. QED BY <2>3, <3>1
  <2>5. R'[5] = Not(Product(Digit(R[1]), Latest(0)))
    BY <2>1, <2>3, <2>4, Zenon DEF Writes
  <2>. QED BY <1>64, <2>1, <2>2, <2>5 DEF MultiplierInv, Writes, OnlyRegister, Quiet
<1>65. CASE pc = 65
  <2>0. M[pc] = opADDi(5, 5, 1)
    BY <1>65, MultiplierWords
  <2>1. Always' /\ Writes(5, Wrap(R[5] + 1)) /\ Quiet
    BY <1>65, <2>0, StepADDi DEF Register, Imm5
  <2>2. Latest(0)' = Latest(0) /\ Latest(1)' = Latest(1) /\ recent' = recent
    BY <2>1, SameLatest DEF Quiet
  <2>3. /\ R[5] = Not(Product(Digit(R[1]), Latest(0))) /\ R[4] = 0
        /\ Latest(0) \in Word /\ Latest(1) \in Word /\ R[1] % 256 = Left(R[4], Latest(1))
    BY <1>65, <1>a DEF MultiplierInv
  <2>4. Digit(R[1]) \in Int
    BY DEF Digit
  <2>5. Wrap(R[5] + 1) = Product(-Digit(R[1]), Latest(0))
    BY <2>3, <2>4, Products, Zenon
  <2>6. Out(R[4] + 1, Latest(1)) = -Digit(R[1])
    <3>1. R[1] % 256 = Left(0, Latest(1)) /\ R[4] + 1 = 1
      BY <2>3
    <3>. QED BY <1>w, <2>3, <3>1, OutStarts, ZenonT(30)
  <2>7. R'[5] = Product(Out(R[4] + 1, Latest(1)), Latest(0))
    BY <2>1, <2>5, <2>6, Zenon DEF Writes
  <2>. QED BY <1>65, <2>1, <2>2, <2>7 DEF MultiplierInv, Writes, OnlyRegister, Quiet
<1>66. CASE pc = 66
  <2>0. M[pc] = opADDi(4, 4, 1)
    BY <1>66, MultiplierWords
  <2>1. Always' /\ Writes(4, Wrap(R[4] + 1)) /\ Quiet
    BY <1>66, <2>0, StepADDi DEF Register, Imm5
  <2>2. Latest(0)' = Latest(0) /\ Latest(1)' = Latest(1) /\ recent' = recent
    BY <2>1, SameLatest DEF Quiet
  <2>3. R[4] <= 7
    BY <1>66 DEF MultiplierInv
  <2>4. Wrap(R[4] + 1) = R[4] + 1
    BY <2>3, WrapWord, SMT
  <2>5. R'[4] = R[4] + 1
    BY <2>1, <2>4, Zenon DEF Writes
  <2>6. R'[4] - 1 = R[4]
    BY <2>5
  <2>. QED BY <1>66, <2>1, <2>2, <2>3, <2>5, <2>6 DEF MultiplierInv, Writes, OnlyRegister, Quiet
<1>67. CASE pc = 67
  <2>0. M[pc] = opADD(1, 1, 1)
    BY <1>67, MultiplierWords
  <2>1. Always' /\ Writes(1, Wrap(R[1] + R[1])) /\ Quiet
    BY <1>67, <2>0, StepADD DEF Register
  <2>2. Latest(0)' = Latest(0) /\ Latest(1)' = Latest(1) /\ recent' = recent
    BY <2>1, SameLatest DEF Quiet
  <2>3. 1 <= R[4] /\ R[4] <= 8 /\ R[1] % 256 = Left(R[4] - 1, Latest(1)) /\ Latest(1) \in Word
    BY <1>67, <1>a DEF MultiplierInv
  <2>4. PICK k \in Int : k = R[4] - 1 /\ 0 <= k /\ k <= 7
    BY <2>3
  <2>5. Wrap(R[1] + R[1]) % 256 = Left(k + 1, Latest(1))
    BY <1>w, <2>3, <2>4, LeftShifts, ZenonT(30)
  <2>6. k + 1 = R[4]
    BY <2>4
  <2>7. R'[1] % 256 = Left(R[4], Latest(1))
    BY <2>1, <2>5, <2>6, Zenon DEF Writes
  <2>. QED BY <1>67, <2>1, <2>2, <2>7 DEF MultiplierInv, Writes, OnlyRegister, Quiet
<1>68. CASE pc = 68
  <2>0. M[pc] = opADDi(7, 4, -8)
    BY <1>68, MultiplierWords
  <2>1. Always' /\ Writes(7, Wrap(R[4] + (-8))) /\ Quiet
    BY <1>68, <2>0, StepADDi DEF Register, Imm5
  <2>2. Latest(0)' = Latest(0) /\ Latest(1)' = Latest(1) /\ recent' = recent
    BY <2>1, SameLatest DEF Quiet
  <2>3. R[4] + (-8) = R[4] - 8
    OBVIOUS
  <2>4. cc' = {FlagOf(Wrap(R[4] - 8))}
    BY <2>1, <2>3, Zenon DEF Writes
  <2>. QED BY <1>68, <2>1, <2>2, <2>3, <2>4, SMTT(30) DEF MultiplierInv, Writes, OnlyRegister, Quiet
<1>69. CASE pc = 69
  <2>0. M[pc] = opBR(4, -12)
    BY <1>69, MultiplierWords
  <2>b. Cond(4) /\ Off9(-12) /\ 0 <= pc + (-12) /\ pc < 255 /\ pc # 0
    BY <1>69 DEF Cond, Off9
  <2>1. Always' /\ Branches(4, -12) /\ R' = R /\ cc' = cc /\ Quiet
    BY <2>0, <2>b, StepBR, Zenon
  <2>2. Latest(0)' = Latest(0) /\ Latest(1)' = Latest(1) /\ recent' = recent
    BY <2>1, SameLatest DEF Quiet
  <2>3. /\ cc = {FlagOf(Wrap(R[4] - 8))} /\ 1 <= R[4] /\ R[4] <= 8 /\ Latest(1) \in Word
        /\ R[5] = Product(Out(R[4], Latest(1)), Latest(0))
        /\ R[1] % 256 = Left(R[4], Latest(1))
    BY <1>69, <1>a DEF MultiplierInv
  <2>4. FlagOf(Wrap(R[4] - 8)) = IF R[4] = 8 THEN "z" ELSE "n"
    BY <2>3, BelowEight
  <2>5. pc' = IF R[4] = 8 THEN 70 ELSE 58
    BY <1>69, <2>1, <2>3, <2>4 DEF Branches
  <2>6. R[4] # 8 => R[4] <= 7
    BY <2>3
  <2>7. R[4] = 8 => R[5] = Product(SignedByte(Latest(1)), Latest(0))
    BY <2>3, OutEnds
  <2>. QED BY <1>69, <2>1, <2>2, <2>5, <2>6, <2>7 DEF MultiplierInv, Branches, Quiet
<1>70. CASE pc = 70
  <2>0. M[pc] = opSTR(5, 0, outHEX)
    BY <1>70, MultiplierWords
  <2>1. Always' /\ Jumps(71) /\ Shows(R[5])
    BY <1>70, <2>0, StepShow DEF Register
  <2>2. Latest(0)' = Latest(0) /\ Latest(1)' = Latest(1) /\ recent' = recent
    BY <2>1, SameLatest DEF Shows
  <2>. QED BY <1>70, <2>1, <2>2 DEF MultiplierInv, Jumps, Shows
<1>71. CASE pc = 71
  <2>0. Opcode(M[pc]) = op_PSE
    BY <1>71, MultiplierWords
  <2>1. Always' /\ Jumps(72) /\ Quiet
    BY <1>71, <2>0, StepPSE
  <2>2. Latest(0)' = Latest(0) /\ Latest(1)' = Latest(1) /\ recent' = recent
    BY <2>1, SameLatest DEF Quiet
  <2>. QED BY <1>71, <2>1, <2>2 DEF MultiplierInv, Jumps, Quiet
<1>72. CASE pc = 72
  <2>0. M[pc] = opBR(7, -21)
    BY <1>72, MultiplierWords
  <2>b. Cond(7) /\ Off9(-21) /\ 0 <= pc + (-21) /\ pc < 255 /\ pc # 0
    BY <1>72 DEF Cond, Off9
  <2>1. Always' /\ Branches(7, -21) /\ R' = R /\ cc' = cc /\ Quiet
    BY <2>0, <2>b, StepBR, Zenon
  <2>2. Latest(0)' = Latest(0) /\ Latest(1)' = Latest(1) /\ recent' = recent
    BY <2>1, SameLatest DEF Quiet
  <2>3. pc' = 52
    BY <1>72, <2>1, AlwaysRegisters DEF Branches, Flags
  <2>. QED BY <1>72, <2>1, <2>2, <2>3 DEF MultiplierInv, Branches, Quiet
<1>. QED BY <1>49, <1>50, <1>51, <1>52, <1>53, <1>54, <1>55, <1>56, <1>57, <1>58, <1>59, <1>60, <1>61, <1>62, <1>63, <1>64, <1>65, <1>66, <1>67, <1>68, <1>69, <1>70, <1>71, <1>72

-----------------------------------------------------------------------------
(* The bits of complements and of ands *)

\* A bit of a complement is the complement of the bit.
LEMMA NotBit ==
  ASSUME NEW w \in Word, NEW weight \in Weights
  PROVE  Bit(Not(w), weight) <=> ~Bit(w, weight)
<1>1. w \in Int /\ 0 <= w /\ w <= 65535
  BY SMT DEF Word
<1>10. CASE weight = 1
  BY <1>1, <1>10, SMT DEF Bit, Not
<1>11. CASE weight = 2
  BY <1>1, <1>11, SMT DEF Bit, Not
<1>12. CASE weight = 4
  BY <1>1, <1>12, SMT DEF Bit, Not
<1>13. CASE weight = 8
  BY <1>1, <1>13, SMT DEF Bit, Not
<1>14. CASE weight = 16
  BY <1>1, <1>14, SMT DEF Bit, Not
<1>15. CASE weight = 32
  BY <1>1, <1>15, SMT DEF Bit, Not
<1>16. CASE weight = 64
  BY <1>1, <1>16, SMT DEF Bit, Not
<1>17. CASE weight = 128
  BY <1>1, <1>17, SMT DEF Bit, Not
<1>18. CASE weight = 256
  BY <1>1, <1>18, SMT DEF Bit, Not
<1>19. CASE weight = 512
  BY <1>1, <1>19, SMT DEF Bit, Not
<1>20. CASE weight = 1024
  BY <1>1, <1>20, SMT DEF Bit, Not
<1>21. CASE weight = 2048
  BY <1>1, <1>21, SMT DEF Bit, Not
<1>22. CASE weight = 4096
  BY <1>1, <1>22, SMT DEF Bit, Not
<1>23. CASE weight = 8192
  BY <1>1, <1>23, SMT DEF Bit, Not
<1>24. CASE weight = 16384
  BY <1>1, <1>24, SMT DEF Bit, Not
<1>25. CASE weight = 32768
  BY <1>1, <1>25, SMT DEF Bit, Not
<1>. QED BY <1>10, <1>11, <1>12, <1>13, <1>14, <1>15, <1>16, <1>17, <1>18, <1>19, <1>20, <1>21, <1>22, <1>23, <1>24, <1>25, SMT DEF Weights

\* A bit of an and is the and of the bits.
LEMMA AndBit ==
  ASSUME NEW a, NEW b, NEW weight \in Weights
  PROVE  Bit(And(a, b), weight) <=> Bit(a, weight) /\ Bit(b, weight)
<1>. DEFINE B(v) == IF Bit(a, v) /\ Bit(b, v) THEN v ELSE 0
<1>d0. PICK d0 \in {0, 1} : B(1) = d0 /\ (d0 = 1 <=> Bit(a, 1) /\ Bit(b, 1))
  OBVIOUS
<1>d1. PICK d1 \in {0, 1} : B(2) = 2 * d1 /\ (d1 = 1 <=> Bit(a, 2) /\ Bit(b, 2))
  OBVIOUS
<1>d2. PICK d2 \in {0, 1} : B(4) = 4 * d2 /\ (d2 = 1 <=> Bit(a, 4) /\ Bit(b, 4))
  OBVIOUS
<1>d3. PICK d3 \in {0, 1} : B(8) = 8 * d3 /\ (d3 = 1 <=> Bit(a, 8) /\ Bit(b, 8))
  OBVIOUS
<1>d4. PICK d4 \in {0, 1} : B(16) = 16 * d4 /\ (d4 = 1 <=> Bit(a, 16) /\ Bit(b, 16))
  OBVIOUS
<1>d5. PICK d5 \in {0, 1} : B(32) = 32 * d5 /\ (d5 = 1 <=> Bit(a, 32) /\ Bit(b, 32))
  OBVIOUS
<1>d6. PICK d6 \in {0, 1} : B(64) = 64 * d6 /\ (d6 = 1 <=> Bit(a, 64) /\ Bit(b, 64))
  OBVIOUS
<1>d7. PICK d7 \in {0, 1} : B(128) = 128 * d7 /\ (d7 = 1 <=> Bit(a, 128) /\ Bit(b, 128))
  OBVIOUS
<1>d8. PICK d8 \in {0, 1} : B(256) = 256 * d8 /\ (d8 = 1 <=> Bit(a, 256) /\ Bit(b, 256))
  OBVIOUS
<1>d9. PICK d9 \in {0, 1} : B(512) = 512 * d9 /\ (d9 = 1 <=> Bit(a, 512) /\ Bit(b, 512))
  OBVIOUS
<1>d10. PICK d10 \in {0, 1} : B(1024) = 1024 * d10 /\ (d10 = 1 <=> Bit(a, 1024) /\ Bit(b, 1024))
  OBVIOUS
<1>d11. PICK d11 \in {0, 1} : B(2048) = 2048 * d11 /\ (d11 = 1 <=> Bit(a, 2048) /\ Bit(b, 2048))
  OBVIOUS
<1>d12. PICK d12 \in {0, 1} : B(4096) = 4096 * d12 /\ (d12 = 1 <=> Bit(a, 4096) /\ Bit(b, 4096))
  OBVIOUS
<1>d13. PICK d13 \in {0, 1} : B(8192) = 8192 * d13 /\ (d13 = 1 <=> Bit(a, 8192) /\ Bit(b, 8192))
  OBVIOUS
<1>d14. PICK d14 \in {0, 1} : B(16384) = 16384 * d14 /\ (d14 = 1 <=> Bit(a, 16384) /\ Bit(b, 16384))
  OBVIOUS
<1>d15. PICK d15 \in {0, 1} : B(32768) = 32768 * d15 /\ (d15 = 1 <=> Bit(a, 32768) /\ Bit(b, 32768))
  OBVIOUS
<1>1. And(a, b) = B(1) + B(2) + B(4) + B(8) + B(16) + B(32) + B(64) + B(128) + B(256)
                + B(512) + B(1024) + B(2048) + B(4096) + B(8192) + B(16384) + B(32768)
  BY SMT DEF And
<1>. HIDE DEF B
<1>b0. PICK b0 : b0 = B(1)
  OBVIOUS
<1>b1. PICK b1 : b1 = B(2)
  OBVIOUS
<1>b2. PICK b2 : b2 = B(4)
  OBVIOUS
<1>b3. PICK b3 : b3 = B(8)
  OBVIOUS
<1>b4. PICK b4 : b4 = B(16)
  OBVIOUS
<1>b5. PICK b5 : b5 = B(32)
  OBVIOUS
<1>b6. PICK b6 : b6 = B(64)
  OBVIOUS
<1>b7. PICK b7 : b7 = B(128)
  OBVIOUS
<1>b8. PICK b8 : b8 = B(256)
  OBVIOUS
<1>b9. PICK b9 : b9 = B(512)
  OBVIOUS
<1>b10. PICK b10 : b10 = B(1024)
  OBVIOUS
<1>b11. PICK b11 : b11 = B(2048)
  OBVIOUS
<1>b12. PICK b12 : b12 = B(4096)
  OBVIOUS
<1>b13. PICK b13 : b13 = B(8192)
  OBVIOUS
<1>b14. PICK b14 : b14 = B(16384)
  OBVIOUS
<1>b15. PICK b15 : b15 = B(32768)
  OBVIOUS
<1>s. And(a, b) = b0 + b1 + b2 + b3 + b4 + b5 + b6 + b7 + b8 + b9 + b10 + b11 + b12 + b13 + b14 + b15
  BY <1>1, <1>b0, <1>b1, <1>b2, <1>b3, <1>b4, <1>b5, <1>b6, <1>b7, <1>b8, <1>b9, <1>b10, <1>b11, <1>b12, <1>b13, <1>b14, <1>b15, SMT
<1>t0. b0 = 1 * d0
  BY <1>b0, <1>d0, SMT
<1>t1. b1 = 2 * d1
  BY <1>b1, <1>d1, SMT
<1>t2. b2 = 4 * d2
  BY <1>b2, <1>d2, SMT
<1>t3. b3 = 8 * d3
  BY <1>b3, <1>d3, SMT
<1>t4. b4 = 16 * d4
  BY <1>b4, <1>d4, SMT
<1>t5. b5 = 32 * d5
  BY <1>b5, <1>d5, SMT
<1>t6. b6 = 64 * d6
  BY <1>b6, <1>d6, SMT
<1>t7. b7 = 128 * d7
  BY <1>b7, <1>d7, SMT
<1>t8. b8 = 256 * d8
  BY <1>b8, <1>d8, SMT
<1>t9. b9 = 512 * d9
  BY <1>b9, <1>d9, SMT
<1>t10. b10 = 1024 * d10
  BY <1>b10, <1>d10, SMT
<1>t11. b11 = 2048 * d11
  BY <1>b11, <1>d11, SMT
<1>t12. b12 = 4096 * d12
  BY <1>b12, <1>d12, SMT
<1>t13. b13 = 8192 * d13
  BY <1>b13, <1>d13, SMT
<1>t14. b14 = 16384 * d14
  BY <1>b14, <1>d14, SMT
<1>t15. b15 = 32768 * d15
  BY <1>b15, <1>d15, SMT
<1>2. And(a, b) = 1 * d0 + 2 * d1 + 4 * d2 + 8 * d3 + 16 * d4 + 32 * d5 + 64 * d6 + 128 * d7 + 256 * d8 + 512 * d9 + 1024 * d10 + 2048 * d11 + 4096 * d12 + 8192 * d13 + 16384 * d14 + 32768 * d15
  BY <1>s, <1>t0, <1>t1, <1>t2, <1>t3, <1>t4, <1>t5, <1>t6, <1>t7, <1>t8, <1>t9, <1>t10, <1>t11, <1>t12, <1>t13, <1>t14, <1>t15, SMT
<1>10. CASE weight = 1
  <2>1. PICK h \in Int : h = d1 + 2 * d2 + 4 * d3 + 8 * d4 + 16 * d5 + 32 * d6 + 64 * d7 + 128 * d8 + 256 * d9 + 512 * d10 + 1024 * d11 + 2048 * d12 + 4096 * d13 + 8192 * d14 + 16384 * d15
    OBVIOUS
  <2>2. PICK low \in Int : low = 0 /\ 0 <= low /\ low < 1
    BY SMT
  <2>3. And(a, b) = 2 * h + d0 + low
    BY <1>2, <2>1, <2>2, SMT
  <2>4. Bit(And(a, b), 1) <=> d0 = 1
    BY <2>2, <2>3, SMTT(30) DEF Bit
  <2>. QED BY <1>d0, <1>10, <2>4, SMT
<1>11. CASE weight = 2
  <2>1. PICK h \in Int : h = d2 + 2 * d3 + 4 * d4 + 8 * d5 + 16 * d6 + 32 * d7 + 64 * d8 + 128 * d9 + 256 * d10 + 512 * d11 + 1024 * d12 + 2048 * d13 + 4096 * d14 + 8192 * d15
    OBVIOUS
  <2>2. PICK low \in Int : low = d0 /\ 0 <= low /\ low < 2
    BY SMT
  <2>3. And(a, b) = 4 * h + 2 * d1 + low
    BY <1>2, <2>1, <2>2, SMT
  <2>4. Bit(And(a, b), 2) <=> d1 = 1
    BY <2>2, <2>3, SMTT(30) DEF Bit
  <2>. QED BY <1>d1, <1>11, <2>4, SMT
<1>12. CASE weight = 4
  <2>1. PICK h \in Int : h = d3 + 2 * d4 + 4 * d5 + 8 * d6 + 16 * d7 + 32 * d8 + 64 * d9 + 128 * d10 + 256 * d11 + 512 * d12 + 1024 * d13 + 2048 * d14 + 4096 * d15
    OBVIOUS
  <2>2. PICK low \in Int : low = d0 + 2 * d1 /\ 0 <= low /\ low < 4
    BY SMT
  <2>3. And(a, b) = 8 * h + 4 * d2 + low
    BY <1>2, <2>1, <2>2, SMT
  <2>4. Bit(And(a, b), 4) <=> d2 = 1
    BY <2>2, <2>3, SMTT(30) DEF Bit
  <2>. QED BY <1>d2, <1>12, <2>4, SMT
<1>13. CASE weight = 8
  <2>1. PICK h \in Int : h = d4 + 2 * d5 + 4 * d6 + 8 * d7 + 16 * d8 + 32 * d9 + 64 * d10 + 128 * d11 + 256 * d12 + 512 * d13 + 1024 * d14 + 2048 * d15
    OBVIOUS
  <2>2. PICK low \in Int : low = d0 + 2 * d1 + 4 * d2 /\ 0 <= low /\ low < 8
    BY SMT
  <2>3. And(a, b) = 16 * h + 8 * d3 + low
    BY <1>2, <2>1, <2>2, SMT
  <2>4. Bit(And(a, b), 8) <=> d3 = 1
    BY <2>2, <2>3, SMTT(30) DEF Bit
  <2>. QED BY <1>d3, <1>13, <2>4, SMT
<1>14. CASE weight = 16
  <2>1. PICK h \in Int : h = d5 + 2 * d6 + 4 * d7 + 8 * d8 + 16 * d9 + 32 * d10 + 64 * d11 + 128 * d12 + 256 * d13 + 512 * d14 + 1024 * d15
    OBVIOUS
  <2>2. PICK low \in Int : low = d0 + 2 * d1 + 4 * d2 + 8 * d3 /\ 0 <= low /\ low < 16
    BY SMT
  <2>3. And(a, b) = 32 * h + 16 * d4 + low
    BY <1>2, <2>1, <2>2, SMT
  <2>4. Bit(And(a, b), 16) <=> d4 = 1
    BY <2>2, <2>3, SMTT(30) DEF Bit
  <2>. QED BY <1>d4, <1>14, <2>4, SMT
<1>15. CASE weight = 32
  <2>1. PICK h \in Int : h = d6 + 2 * d7 + 4 * d8 + 8 * d9 + 16 * d10 + 32 * d11 + 64 * d12 + 128 * d13 + 256 * d14 + 512 * d15
    OBVIOUS
  <2>2. PICK low \in Int : low = d0 + 2 * d1 + 4 * d2 + 8 * d3 + 16 * d4 /\ 0 <= low /\ low < 32
    BY SMT
  <2>3. And(a, b) = 64 * h + 32 * d5 + low
    BY <1>2, <2>1, <2>2, SMT
  <2>4. Bit(And(a, b), 32) <=> d5 = 1
    BY <2>2, <2>3, SMTT(30) DEF Bit
  <2>. QED BY <1>d5, <1>15, <2>4, SMT
<1>16. CASE weight = 64
  <2>1. PICK h \in Int : h = d7 + 2 * d8 + 4 * d9 + 8 * d10 + 16 * d11 + 32 * d12 + 64 * d13 + 128 * d14 + 256 * d15
    OBVIOUS
  <2>2. PICK low \in Int : low = d0 + 2 * d1 + 4 * d2 + 8 * d3 + 16 * d4 + 32 * d5 /\ 0 <= low /\ low < 64
    BY SMT
  <2>3. And(a, b) = 128 * h + 64 * d6 + low
    BY <1>2, <2>1, <2>2, SMT
  <2>4. Bit(And(a, b), 64) <=> d6 = 1
    BY <2>2, <2>3, SMTT(30) DEF Bit
  <2>. QED BY <1>d6, <1>16, <2>4, SMT
<1>17. CASE weight = 128
  <2>1. PICK h \in Int : h = d8 + 2 * d9 + 4 * d10 + 8 * d11 + 16 * d12 + 32 * d13 + 64 * d14 + 128 * d15
    OBVIOUS
  <2>2. PICK low \in Int : low = d0 + 2 * d1 + 4 * d2 + 8 * d3 + 16 * d4 + 32 * d5 + 64 * d6 /\ 0 <= low /\ low < 128
    BY SMT
  <2>3. And(a, b) = 256 * h + 128 * d7 + low
    BY <1>2, <2>1, <2>2, SMT
  <2>4. Bit(And(a, b), 128) <=> d7 = 1
    BY <2>2, <2>3, SMTT(30) DEF Bit
  <2>. QED BY <1>d7, <1>17, <2>4, SMT
<1>18. CASE weight = 256
  <2>1. PICK h \in Int : h = d9 + 2 * d10 + 4 * d11 + 8 * d12 + 16 * d13 + 32 * d14 + 64 * d15
    OBVIOUS
  <2>2. PICK low \in Int : low = d0 + 2 * d1 + 4 * d2 + 8 * d3 + 16 * d4 + 32 * d5 + 64 * d6 + 128 * d7 /\ 0 <= low /\ low < 256
    BY SMT
  <2>3. And(a, b) = 512 * h + 256 * d8 + low
    BY <1>2, <2>1, <2>2, SMT
  <2>4. Bit(And(a, b), 256) <=> d8 = 1
    BY <2>2, <2>3, SMTT(30) DEF Bit
  <2>. QED BY <1>d8, <1>18, <2>4, SMT
<1>19. CASE weight = 512
  <2>1. PICK h \in Int : h = d10 + 2 * d11 + 4 * d12 + 8 * d13 + 16 * d14 + 32 * d15
    OBVIOUS
  <2>2. PICK low \in Int : low = d0 + 2 * d1 + 4 * d2 + 8 * d3 + 16 * d4 + 32 * d5 + 64 * d6 + 128 * d7 + 256 * d8 /\ 0 <= low /\ low < 512
    BY SMT
  <2>3. And(a, b) = 1024 * h + 512 * d9 + low
    BY <1>2, <2>1, <2>2, SMT
  <2>4. Bit(And(a, b), 512) <=> d9 = 1
    BY <2>2, <2>3, SMTT(30) DEF Bit
  <2>. QED BY <1>d9, <1>19, <2>4, SMT
<1>20. CASE weight = 1024
  <2>1. PICK h \in Int : h = d11 + 2 * d12 + 4 * d13 + 8 * d14 + 16 * d15
    OBVIOUS
  <2>2. PICK low \in Int : low = d0 + 2 * d1 + 4 * d2 + 8 * d3 + 16 * d4 + 32 * d5 + 64 * d6 + 128 * d7 + 256 * d8 + 512 * d9 /\ 0 <= low /\ low < 1024
    BY SMT
  <2>3. And(a, b) = 2048 * h + 1024 * d10 + low
    BY <1>2, <2>1, <2>2, SMT
  <2>4. Bit(And(a, b), 1024) <=> d10 = 1
    BY <2>2, <2>3, SMTT(30) DEF Bit
  <2>. QED BY <1>d10, <1>20, <2>4, SMT
<1>21. CASE weight = 2048
  <2>1. PICK h \in Int : h = d12 + 2 * d13 + 4 * d14 + 8 * d15
    OBVIOUS
  <2>2. PICK low \in Int : low = d0 + 2 * d1 + 4 * d2 + 8 * d3 + 16 * d4 + 32 * d5 + 64 * d6 + 128 * d7 + 256 * d8 + 512 * d9 + 1024 * d10 /\ 0 <= low /\ low < 2048
    BY SMT
  <2>3. And(a, b) = 4096 * h + 2048 * d11 + low
    BY <1>2, <2>1, <2>2, SMT
  <2>4. Bit(And(a, b), 2048) <=> d11 = 1
    BY <2>2, <2>3, SMTT(30) DEF Bit
  <2>. QED BY <1>d11, <1>21, <2>4, SMT
<1>22. CASE weight = 4096
  <2>1. PICK h \in Int : h = d13 + 2 * d14 + 4 * d15
    OBVIOUS
  <2>2. PICK low \in Int : low = d0 + 2 * d1 + 4 * d2 + 8 * d3 + 16 * d4 + 32 * d5 + 64 * d6 + 128 * d7 + 256 * d8 + 512 * d9 + 1024 * d10 + 2048 * d11 /\ 0 <= low /\ low < 4096
    BY SMT
  <2>3. And(a, b) = 8192 * h + 4096 * d12 + low
    BY <1>2, <2>1, <2>2, SMT
  <2>4. Bit(And(a, b), 4096) <=> d12 = 1
    BY <2>2, <2>3, SMTT(30) DEF Bit
  <2>. QED BY <1>d12, <1>22, <2>4, SMT
<1>23. CASE weight = 8192
  <2>1. PICK h \in Int : h = d14 + 2 * d15
    OBVIOUS
  <2>2. PICK low \in Int : low = d0 + 2 * d1 + 4 * d2 + 8 * d3 + 16 * d4 + 32 * d5 + 64 * d6 + 128 * d7 + 256 * d8 + 512 * d9 + 1024 * d10 + 2048 * d11 + 4096 * d12 /\ 0 <= low /\ low < 8192
    BY SMT
  <2>3. And(a, b) = 16384 * h + 8192 * d13 + low
    BY <1>2, <2>1, <2>2, SMT
  <2>4. Bit(And(a, b), 8192) <=> d13 = 1
    BY <2>2, <2>3, SMTT(30) DEF Bit
  <2>. QED BY <1>d13, <1>23, <2>4, SMT
<1>24. CASE weight = 16384
  <2>1. PICK h \in Int : h = d15
    OBVIOUS
  <2>2. PICK low \in Int : low = d0 + 2 * d1 + 4 * d2 + 8 * d3 + 16 * d4 + 32 * d5 + 64 * d6 + 128 * d7 + 256 * d8 + 512 * d9 + 1024 * d10 + 2048 * d11 + 4096 * d12 + 8192 * d13 /\ 0 <= low /\ low < 16384
    BY SMT
  <2>3. And(a, b) = 32768 * h + 16384 * d14 + low
    BY <1>2, <2>1, <2>2, SMT
  <2>4. Bit(And(a, b), 16384) <=> d14 = 1
    BY <2>2, <2>3, SMTT(30) DEF Bit
  <2>. QED BY <1>d14, <1>24, <2>4, SMT
<1>25. CASE weight = 32768
  <2>1. PICK low \in Int : low = d0 + 2 * d1 + 4 * d2 + 8 * d3 + 16 * d4 + 32 * d5 + 64 * d6 + 128 * d7 + 256 * d8 + 512 * d9 + 1024 * d10 + 2048 * d11 + 4096 * d12 + 8192 * d13 + 16384 * d14 /\ 0 <= low /\ low < 32768
    BY SMT
  <2>2. And(a, b) = 32768 * d15 + low
    BY <1>2, <2>1, SMT
  <2>3. CASE d15 = 0
    BY <2>1, <2>2, <2>3, <1>d15, <1>25, SMT DEF Bit
  <2>4. CASE d15 = 1
    BY <2>1, <2>2, <2>4, <1>d15, <1>25, SMT DEF Bit
  <2>. QED BY <2>3, <2>4, SMT
<1>. QED BY <1>10, <1>11, <1>12, <1>13, <1>14, <1>15, <1>16, <1>17, <1>18, <1>19, <1>20, <1>21, <1>22, <1>23, <1>24, <1>25, SMT DEF Weights

\* The four ANDs and five NOTs of the XOR test give, in each bit, the exclusive
\* or.
LEMMA XorBit ==
  ASSUME NEW a \in Word, NEW b \in Word, NEW weight \in Weights
  PROVE  Bit(XorWord(a, b), weight) <=> (Bit(b, weight) # Bit(a, weight))
<1>. DEFINE x == OneSide(a, b)
            y == OneSide(b, a)
<1>1. x \in Word /\ y \in Word /\ And(Not(x), Not(y)) \in Word
  BY AndWord, Zenon DEF OneSide
<1>2. Bit(x, weight) <=> ~Bit(a, weight) /\ Bit(b, weight)
  BY AndBit, NotBit, Zenon DEF OneSide
<1>3. Bit(y, weight) <=> ~Bit(b, weight) /\ Bit(a, weight)
  BY AndBit, NotBit, Zenon DEF OneSide
<1>. HIDE DEF x, y
<1>4. Bit(And(Not(x), Not(y)), weight) <=> ~Bit(x, weight) /\ ~Bit(y, weight)
  BY <1>1, AndBit, NotBit, Zenon
<1>5. Bit(Not(And(Not(x), Not(y))), weight) <=> Bit(x, weight) \/ Bit(y, weight)
  BY <1>1, <1>4, NotBit, Zenon
<1>6. XorWord(a, b) = Not(And(Not(x), Not(y)))
  BY Zenon DEF XorWord, x, y
<1>7. Bit(a, weight) \in BOOLEAN /\ Bit(b, weight) \in BOOLEAN
  BY DEF Bit
<1>. QED BY <1>2, <1>3, <1>5, <1>6, <1>7, SMT

-----------------------------------------------------------------------------
(* The invariant over the start, the buttons and the reset *)

\* The pause that the display function rewrites starts as a PSE.
LEMMA FirstPause == 55298 <= memory_contents[148] /\ memory_contents[148] <= 55554
<1>1. DisplayFunction[12] = opPSE(2050)
  BY SMT DEF DisplayFunction, opPSE
<1>2. memory_contents[148] = DisplayFunction[12]
  BY Placed, SMT DEF DisplayAt
<1>. QED BY <1>1, <1>2, SMT DEF opPSE, op_PSE

\* A memory that holds the image holds the code.
LEMMA ImageCode ==
  ASSUME Setting, image \in Images, M = image
  PROVE  image = memory_contents /\ M \in [Cell -> Word] /\ Code
<1>1. image = memory_contents /\ Images \subseteq [Cell -> Word]
  BY MemoryAssumption, SMT DEF Setting
<1>2. M = memory_contents /\ M \in [Cell -> Word]
  BY <1>1, Zenon
<1>. QED BY <1>1, <1>2, FirstPause, SMT DEF Code

\* A memory of words holds sixteen words of data.
LEMMA WordsOfData ==
  ASSUME Setting, NEW f \in [Cell -> Word]
  PROVE  [i \in 0..15 |-> f[DataAt + i]] \in [0..15 -> Word]
<1>1. ASSUME NEW i \in 0..15 PROVE f[DataAt + i] \in Word
  <2>1. DataAt + i \in Cell
    BY SMT DEF Setting, Cell, DataAt
  <2>. QED BY <2>1, Zenon
<1>. QED BY <1>1, Zenon

\* The invariant holds at the start.
LEMMA Starts ==
  ASSUME Setting, ProgramInit, ChoosesProgram
  PROVE  IInv
<1>1. ISAInit /\ turn = 1 /\ recent = <<>> /\ unsorted = Data
  BY Zenon DEF ProgramInit
<1>2. image \in Images /\ M = image /\ pc = 0 /\ R = [r \in Register |-> 0] /\ cc \in SUBSET Flags
      /\ hex = 0 /\ led = 0 /\ mode = "halted"
  BY <1>1, Zenon DEF ISAInit
<1>3. image = memory_contents /\ M \in [Cell -> Word] /\ Code
  BY <1>2, ImageCode, Zenon
<1>4. 0 \in Word /\ 0 \in Register
  BY DEF Word, Register
<1>5. R \in [Register -> Word] /\ R[0] = 0
  BY <1>2, <1>4, Zenon
<1>6. ISATypeOK
  BY <1>2, <1>3, <1>4, <1>5, Zenon DEF ISATypeOK, Modes
<1>7. recent \in Seq(Word) /\ Len(recent) <= 16
  BY <1>1
<1>8. unsorted \in [0..15 -> Word]
  BY <1>1, <1>3, WordsOfData, Zenon DEF Data
<1>9. Always
  BY <1>2, <1>3, <1>5, <1>6, <1>7, <1>8, Zenon DEF Always
<1>10. BootInv
  BY <1>1, <1>2, SMT DEF BootInv
<1>. QED BY <1>9, <1>10, Zenon DEF IInv, Where

\* A reset reloads the memory and returns to the boot code.
LEMMA Resets ==
  ASSUME IInv, ResetProgram
  PROVE  IInv'
<1>1. Always
  BY Zenon DEF IInv
<1>2. /\ mode' = "halted" /\ pc' = 0 /\ R' = [r \in Register |-> 0] /\ hex' = 0 /\ led' = 0
      /\ cc' \in {cc} \union {{f} : f \in Flags} /\ image' = image
      /\ turn' = 1 /\ recent' = <<>> /\ plan' = plan
      /\ unsorted' = [i \in 0..15 |-> M'[DataAt + i]]
  BY Zenon DEF ResetProgram, Reset
<1>3. Setting /\ Setting' /\ M' = image
  BY <1>1, Zenon DEF ResetProgram, Reset, Always, Setting
<1>4. image = memory_contents /\ image \in Images /\ cc \in SUBSET Flags
  BY <1>1, Zenon DEF Always, ISATypeOK
<1>5. image' = memory_contents /\ M' \in [Cell -> Word] /\ Code'
  <2>1. M' = memory_contents /\ Images \subseteq [Cell -> Word]
    BY <1>3, <1>4, MemoryAssumption, SMT DEF Setting
  <2>2. image' = memory_contents /\ M' \in [Cell -> Word]
    BY <1>2, <1>3, <1>4, <2>1, Zenon
  <2>. QED BY <2>1, <2>2, FirstPause, SMT DEF Code
<1>6. 0 \in Word /\ 0 \in Register
  BY DEF Word, Register
<1>7. R' \in [Register -> Word] /\ R'[0] = 0
  BY <1>2, <1>6, Zenon
<1>8. cc' \in SUBSET Flags
  BY <1>2, <1>4, Zenon
<1>9. ISATypeOK'
  BY <1>2, <1>4, <1>5, <1>6, <1>7, <1>8, Zenon DEF ISATypeOK, Modes
<1>10. recent' \in Seq(Word) /\ Len(recent') <= 16
  BY <1>2
<1>11. unsorted' \in [0..15 -> Word]
  BY <1>2, <1>3, <1>5, WordsOfData, Zenon
<1>12. ChoosesProgram'
  BY <1>1, <1>2, Zenon DEF Always, ChoosesProgram
<1>13. Always'
  BY <1>2, <1>3, <1>5, <1>7, <1>9, <1>10, <1>11, <1>12, Zenon DEF Always
<1>14. BootInv'
  BY <1>2, SMT DEF BootInv
<1>. QED BY <1>13, <1>14, Zenon DEF IInv, Where

\* What a button leaves alone is all that the invariant is about.
Untouched ==
  /\ pc' = pc /\ R' = R /\ cc' = cc /\ M' = M /\ hex' = hex /\ image' = image
  /\ plan' = plan /\ turn' = turn /\ recent' = recent /\ unsorted' = unsorted

\* The state functions of the invariant depend on what a button leaves alone.
LEMMA UntouchedData ==
  ASSUME Untouched
  PROVE  Data' = Data /\ DataInSort' = DataInSort /\ Pass' = Pass /\ \A k : Latest(k)' = Latest(k)
<1>1. Data' = Data
  BY SameData, Zenon DEF Untouched
<1>2. DataInSort' = DataInSort
  BY <1>1, Zenon DEF DataInSort, Untouched
<1>3. Pass' = Pass
  BY SamePass, Zenon DEF Untouched
<1>4. \A k : Latest(k)' = Latest(k)
  BY Zenon DEF Latest, Untouched
<1>. QED BY <1>1, <1>2, <1>3, <1>4, Zenon

\* So do the invariants of the programs.
LEMMA UntouchedWhere ==
  ASSUME Untouched, Where
  PROVE  Where'
<1>. USE UntouchedData DEF Untouched
<1>1. BootInv => BootInv'
  BY SMT DEF BootInv
<1>2. Test1Inv => Test1Inv'
  BY SMT DEF Test1Inv
<1>3. EchoInv => EchoInv'
  BY SMT DEF EchoInv
<1>4. XORInv => XORInv'
  BY SMT DEF XORInv
<1>5. MultiplierInv => MultiplierInv'
  BY SMTT(30) DEF MultiplierInv
<1>6. MenuInv => MenuInv'
  BY SMT DEF MenuInv
<1>7. EntryInv => EntryInv'
  BY SMT DEF EntryInv, Stored, OneBehind
<1>8. SortInv => SortInv'
  <2>1. SortPlace => SortPlace'
    BY SMT DEF SortPlace
  <2>2. SortOrder => SortOrder'
    BY SMT DEF SortOrder
  <2>3. SameWords(DataInSort) => SameWords(DataInSort)'
    BY Zenon DEF SameWords
  <2>4. Among(DataInSort) => Among(DataInSort)'
    BY Zenon DEF Among
  <2>. QED BY <2>1, <2>2, <2>3, <2>4, Zenon DEF SortInv
<1>9. DisplayInv => DisplayInv'
  BY SMT DEF DisplayInv
<1>. QED BY <1>1, <1>2, <1>3, <1>4, <1>5, <1>6, <1>7, <1>8, <1>9, Zenon DEF Where

\* A step that changes the LEDs and the mode only preserves the invariant.
LEMMA Buttons ==
  ASSUME IInv, Untouched, led' \in Word, mode' \in Modes
  PROVE  IInv'
<1>1. Always /\ Where
  BY Zenon DEF IInv
<1>2. ISATypeOK /\ ChoosesProgram /\ Code
  BY <1>1, Zenon DEF Always
<1>3. ISATypeOK'
  BY <1>2, Zenon DEF ISATypeOK, Untouched
<1>4. ChoosesProgram'
  BY <1>2, Zenon DEF ChoosesProgram, Untouched
<1>5. Code'
  BY <1>2, CodeKept, Zenon DEF Untouched
<1>6. Always'
  BY <1>1, <1>3, <1>4, <1>5, Zenon DEF Always, Setting, Untouched
<1>. QED BY <1>1, <1>6, UntouchedWhere, Zenon DEF IInv

\* Run, Continue and its release are such steps.
LEMMA Presses ==
  ASSUME IInv, PressButton \/ UNCHANGED programVars
  PROVE  IInv'
<1>1. led \in Word /\ mode \in Modes
  BY Zenon DEF IInv, Always, ISATypeOK
<1>2. Untouched
  BY Zenon DEF Untouched, PressButton, Run, PressContinue, ReleaseContinue, programVars, isaVars, userVars
<1>3. led' = led \/ led' = 0
  BY Zenon DEF PressButton, Run, PressContinue, ReleaseContinue, programVars, isaVars
<1>4. mode' = mode \/ mode' = "running" \/ mode' = "release"
  BY Zenon DEF PressButton, Run, PressContinue, ReleaseContinue, programVars, isaVars
<1>5. led' \in Word
  BY <1>1, <1>3 DEF Word
<1>6. mode' \in Modes
  BY <1>1, <1>4 DEF Modes
<1>. QED BY <1>2, <1>5, <1>6, Buttons, Zenon

\* Every instruction preserves the invariant: one lemma per program.
LEMMA Executes ==
  ASSUME IInv, ExecuteProgram
  PROVE  IInv'
<1>1. Always /\ Where
  BY Zenon DEF IInv
<1>2. Always' /\ Where'
  BY <1>1, BootSteps, Test1Steps, EchoSteps, XORSteps, MultiplierSteps, MenuSteps, EntrySteps,
     SortSteps, DisplaySteps, Zenon DEF Where
<1>. QED BY <1>2, Zenon DEF IInv

\* The invariant is inductive.
LEMMA Inductive == IInv /\ [ProgramNext]_programVars => IInv'
  BY Executes, Presses, Resets, Zenon DEF ProgramNext

-----------------------------------------------------------------------------
(* What the invariant shows *)

\* A program counter is at one place.
LEMMA Places ==
  ASSUME Where, pc \in Int
  PROVE  /\ pc = 10 => EchoInv
         /\ pc = 35 => XORInv
         /\ pc = 72 => MultiplierInv
         /\ pc = 118 => EntryInv
         /\ pc = 149 => DisplayInv
         /\ 119 <= pc /\ pc <= 136 => SortInv
<1>1. /\ BootInv => pc <= 2
      /\ Test1Inv => 3 <= pc /\ pc <= 5
      /\ EchoInv => 6 <= pc /\ pc <= 10
      /\ XORInv => 20 <= pc /\ pc <= 35
      /\ MultiplierInv => 49 <= pc /\ pc <= 72
  BY Zenon DEF BootInv, Test1Inv, EchoInv, XORInv, MultiplierInv
<1>2. /\ MenuInv => 90 <= pc /\ pc <= 108
      /\ EntryInv => 109 <= pc /\ pc <= 118
      /\ SortInv => 119 <= pc /\ pc <= 136
      /\ DisplayInv => 137 <= pc /\ pc <= 154
  BY SMT DEF MenuInv, EntryInv, SortInv, SortPlace, DisplayInv
<1>. QED BY <1>1, <1>2, SMT DEF Where

\* The invariant implies what the programs show.
LEMMA Shown == IInv => ProgramsShow
<1>. SUFFICES ASSUME IInv PROVE ProgramsShow
  OBVIOUS
<1>1. Always /\ Where /\ pc \in Int
  BY AlwaysFacts, Zenon DEF IInv
<1>2. EchoShown
  <2>. SUFFICES ASSUME pc = 10 PROVE hex = Latest(0)
    BY SMT DEF EchoShown, PausedAt, IOTest2At
  <2>. QED BY <1>1, Places, SMT DEF EchoInv
<1>3. XORShown
  <2>. SUFFICES ASSUME pc = 35, NEW weight \in Weights
       PROVE Bit(hex, weight) <=> (Bit(Latest(0), weight) # Bit(Latest(1), weight))
    BY SMT DEF XORShown, PausedAt, XORAt
  <2>1. XORInv
    BY <1>1, Places, Zenon
  <2>2. hex = XorWord(R[1], R[2]) /\ R[1] = Latest(1) /\ R[2] = Latest(0)
    BY <2>1, SMT DEF XORInv
  <2>3. R[1] \in Word /\ R[2] \in Word
    BY <1>1, RegisterWord DEF Register
  <2>4. Bit(XorWord(R[1], R[2]), weight) <=> (Bit(R[2], weight) # Bit(R[1], weight))
    BY <2>3, XorBit, Zenon
  <2>. QED BY <2>2, <2>4, Zenon
<1>4. ProductShown
  <2>. SUFFICES ASSUME pc = 72 PROVE hex = Wrap(SignedByte(Latest(1)) * Latest(0))
    BY SMT DEF ProductShown, PausedAt, MultiplierAt
  <2>1. MultiplierInv
    BY <1>1, Places, Zenon
  <2>2. hex = Product(SignedByte(Latest(1)), Latest(0))
    BY <2>1, SMT DEF MultiplierInv
  <2>. QED BY <2>2, Zenon DEF Product
<1>5. EntryStores
  <2>. SUFFICES ASSUME pc = 118, NEW i \in 0..15 PROVE Data[i] = Latest(15 - i)
    BY SMT DEF EntryStores, EntryAt
  <2>1. R[1] = 16 /\ Stored(R[1])
    BY <1>1, Places, SMT DEF EntryInv
  <2>2. Stored(16)
    BY <2>1, Zenon
  <2>3. Data[i] = Latest(16 - 1 - i)
    BY <2>2, SMT DEF Stored
  <2>4. 16 - 1 - i = 15 - i
    BY SMT
  <2>. QED BY <2>3, <2>4, Zenon
<1>6. DisplayShows
  <2>. SUFFICES ASSUME pc = 149 PROVE hex = Data[R[1]]
    BY SMT DEF DisplayShows, PausedAt, DisplayAt
  <2>. QED BY <1>1, Places, SMT DEF DisplayInv
<1>. QED BY <1>2, <1>3, <1>4, <1>5, <1>6, Zenon DEF ProgramsShow

\* The invariant implies what the sort promises.
LEMMA Sorted == IInv => SortSorts
<1>. SUFFICES ASSUME IInv, Sorting PROVE SortKeepsData /\ (pc = 136 /\ SmallSpread(unsorted) => Ascending(Data))
  BY SMT DEF SortSorts, SortAt
<1>1. Always /\ Where /\ pc \in Int /\ unsorted \in [0..15 -> Word]
  BY AlwaysFacts, AlwaysHistory, Zenon DEF IInv
<1>2. SortInv
  BY <1>1, Places, SMT DEF Sorting, SortAt
<1>3. SortKeepsData
  BY <1>1, <1>2, Zenon DEF SortKeepsData, SortInv, SameWords
<1>4. ASSUME pc = 136, SmallSpread(unsorted) PROVE Ascending(Data)
  <2>1. SortPlace /\ SortOrder
    BY <1>2, <1>4, Zenon DEF SortInv
  <2>2. Pass = 16
    BY <1>4, <2>1, SMT DEF SortPlace
  <2>3. Tops(DataInSort, Pass)
    BY <1>4, <2>1, SMT DEF SortOrder
  <2>4. DataInSort = Data
    BY <1>4, SMT DEF DataInSort, SortAt
  <2>5. Tops(Data, 16)
    BY <2>2, <2>3, <2>4, Zenon
  <2>. QED BY <2>5, SMT DEF Tops, Ascending
<1>. QED BY <1>3, <1>4

-----------------------------------------------------------------------------
(* The theorems *)

\* Whatever the user enters, and whenever the machine is reset, the programs stay
\* in their code with what each of their instructions relies on
\* (memory_contents.sv:30-195).
THEOREM ProgramInvariant ==
  ASSUME Setting
  PROVE  ProgramSpec /\ ChoosesProgram => []IInv
<1>1. ProgramInit /\ ChoosesProgram => IInv
  BY Starts
<1>. QED BY <1>1, Inductive, PTL DEF ProgramSpec

\* At their pauses the programs show the word read, the exclusive or and the signed
\* product of the words read, and the data entered, in their order
\* (memory_contents.sv:40-44, 57-72, 88-111, 149-158, 177-195).
THEOREM ProgramsShowHolds ==
  ASSUME Setting
  PROVE  ProgramSpec /\ ChoosesProgram => []ProgramsShow
  BY ProgramInvariant, Shown, PTL

\* The bubble sort loses and duplicates no datum, and returns with the data in
\* ascending order when no 16-bit difference overflows (memory_contents.sv:159-176).
THEOREM SortSortsHolds ==
  ASSUME Setting
  PROVE  ProgramSpec /\ ChoosesProgram => []SortSorts
  BY ProgramInvariant, Sorted, PTL
=============================================================================
