---------------------------- MODULE SLC3Programs ----------------------------
(***************************************************************************)
(* The test programs of memory_contents.sv on the instruction set of the   *)
(* SLC-3.  The user has a plan: the words to put on the switches, one for  *)
(* each time a program reads them; when it ends it is repeated without its *)
(* first word, which chose the program.  A reset starts the plan again.    *)
(***************************************************************************)
EXTENDS SLC3ISA, memory_contents, FiniteSets

CONSTANT Plans
ASSUME PlanAssumption == \A plan \in Plans : Len(plan) > 1

VARIABLES
  plan,      \* the user's plan
  turn,      \* the position in it of the next word to be read
  recent,    \* history: the last 16 words read, the newest at the end
  unsorted   \* history: the data when the sort function was last called

userVars == <<plan, turn, recent, unsorted>>
programVars == <<isaVars, userVars>>

Data == [i \in 0..15 |-> M[DataAt + i]]
Latest(k) == recent[Len(recent) - k]

ProgramInit ==
  /\ ISAInit
  /\ plan \in Plans
  /\ turn = 1
  /\ recent = <<>>
  /\ unsorted = Data

Following(t) == IF t = Len(plan) THEN 2 ELSE t + 1
LoadsSwitches(w) == Opcode(w) = op_LDR /\ Address(w) = IOAddress

LoadSwitches(w, t) ==
  /\ R'[Field11_9(w)] = plan[t]
  /\ turn' = Following(t)
  /\ recent' = IF Len(recent) < 16 THEN Append(recent, plan[t])
               ELSE Append(Tail(recent), plan[t])

\* An instruction fetched from xFFFF is a word of the plan too.
ExecuteProgram ==
  LET atSwitches == pc = IOAddress
      w == IF atSwitches THEN plan[turn] ELSE M[CellAt(pc)]
      t == IF atSwitches THEN Following(turn) ELSE turn
  IN  /\ mode = "running"
      /\ Instruction(w)
      /\ UNCHANGED <<image, plan>>
      /\ IF LoadsSwitches(w) THEN LoadSwitches(w, t) ELSE turn' = t /\ UNCHANGED recent
      /\ unsorted' = IF pc' = SortAt /\ Opcode(w) = op_JSR THEN Data ELSE unsorted

PressButton == (Run \/ PressContinue \/ ReleaseContinue) /\ UNCHANGED userVars

ResetProgram ==
  /\ Reset
  /\ turn' = 1
  /\ recent' = <<>>
  /\ unsorted' = [i \in 0..15 |-> M'[DataAt + i]]
  /\ UNCHANGED plan

ProgramNext == ExecuteProgram \/ PressButton \/ ResetProgram

\* The clock never stops: an instruction that can execute does.
ProgramSpec == ProgramInit /\ [][ProgramNext]_programVars /\ WF_programVars(ExecuteProgram)

-----------------------------------------------------------------------------
(* What the programs show the user *)

\* A pause, named by the cell of its PSE instruction.
PausedAt(cell) == mode = "press" /\ pc = cell + 1

\* Basic I/O test 2: at its second pause, the word read after the first.
EchoShown == PausedAt(IOTest2At + 3) => hex = Latest(0)

\* The XOR test, built from ANDs and NOTs: in each bit, one of the two words read.
Weights == {1, 2, 4, 8, 16, 32, 64, 128, 256, 512, 1024, 2048, 4096, 8192, 16384, 32768}
XORShown ==
  PausedAt(XORAt + 14) =>
    \A weight \in Weights :
      Bit(hex, weight) <=> (Bit(Latest(0), weight) # Bit(Latest(1), weight))

\* The multiplier: the low byte of the first operand, signed, times the second,
\* modulo 2^16.
SignedByte(w) == IF Bit(w, 128) THEN (w % 256) - 256 ELSE w % 256
ProductShown ==
  PausedAt(MultiplierAt + 22) => hex = Wrap(SignedByte(Latest(1)) * Latest(0))

\* When the entry function returns: the last 16 words read, in their order.
EntryStores == pc = EntryAt + 9 => \A i \in 0..15 : Data[i] = Latest(15 - i)

\* At each pause of the display function: the datum whose turn it is.
DisplayShows == PausedAt(DisplayAt + 11) => hex = Data[R[1]]

\* What the programs show is what their comments promise, computed by loops that
\* count in condition codes and five-bit immediates (memory_contents.sv:40-44,
\* 57-72, 88-111, 149-158, 177-195).
ProgramsShow == EchoShown /\ XORShown /\ ProductShown /\ EntryStores /\ DisplayShows

-----------------------------------------------------------------------------
(* The bubble sort *)

Sorting == pc \in SortAt..(SortAt + 17) /\ mode = "running"

\* Between the two stores of a swap, register 4 holds one of the data.
DataInSort ==
  IF pc = SortAt + 11 THEN [Data EXCEPT ![R[3] - DataAt] = R[4]] ELSE Data

Count(d, word) == Cardinality({i \in 0..15 : d[i] = word})

\* No datum has been lost or duplicated.
SortKeepsData ==
  \A i \in 0..15 : Count(DataInSort, unsorted[i]) = Count(unsorted, unsorted[i])

\* No difference of two of the words overflows 16 bits.
SmallSpread(d) == \A i, j \in 0..15 : d[i] - d[j] <= 32767
Ascending(d) == \A i \in 0..14 : d[i] <= d[i + 1]

\* At every instruction of the sort the data are those it was called with, and it
\* returns with them in ascending order, although it compares by the sign of a
\* 16-bit difference, when no difference overflows (memory_contents.sv:159-176).
SortSorts ==
  Sorting =>
    /\ SortKeepsData
    /\ pc = SortAt + 17 /\ SmallSpread(unsorted) => Ascending(Data)

\* The sort returns to the menu, unless the machine is reset: both loops end.
SortReturns == Sorting /\ pc = SortAt ~> pc = SortMenuAt + 14 \/ mode = "halted"
=============================================================================
