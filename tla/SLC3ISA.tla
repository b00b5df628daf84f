------------------------------ MODULE SLC3ISA -------------------------------
(***************************************************************************)
(* What the SLC-3 promises its programmer: one action per instruction,     *)
(* atomic, on the registers a program can see.  The words are those of the *)
(* comments of SLC3_2.sv ("DR <- M[BaseR + SEXT(offset6)]"), made exact    *)
(* where the hardware is: the address space folds onto MemSize cells, the  *)
(* word at xFFFF is read from the switches and written to the hex display, *)
(* and also to the cell it folds onto.                                     *)
(***************************************************************************)
EXTENDS SLC3_2

CONSTANTS
  MemSize,        \* cells of the memory chip
  Images,         \* the memory contents a run may start from
  Switches,       \* the words the switches may show
  ReloadOnReset   \* TRUE: the memory is test_memory.sv; FALSE: an SRAM chip

Cell == 0..(MemSize - 1)
IOAddress == 65535

ASSUME MemoryAssumption ==
  /\ MemSize \in 1..65536
  /\ Images \subseteq [Cell -> Word]
ASSUME SwitchAssumption == Switches \subseteq Word
ASSUME ReloadAssumption == ReloadOnReset \in BOOLEAN

VARIABLES
  pc,     \* address of the next instruction
  R,      \* the register file
  cc,     \* the condition codes that are set
  M,      \* the memory
  hex,    \* the word on the hex display
  led,    \* the LED vector
  mode,   \* halted, running, or which edge of Continue a pause waits for
  image   \* memory_contents.dat, what a reload restores; never written

isaVars == <<pc, R, cc, M, hex, led, mode, image>>

Modes == {"halted", "running", "press", "release"}

ISATypeOK ==
  /\ pc \in Word
  /\ R \in [Register -> Word]
  /\ cc \in SUBSET Flags
  /\ M \in [Cell -> Word]
  /\ hex \in Word
  /\ led \in Word
  /\ mode \in Modes
  /\ image \in Images

CellAt(address) == address % MemSize
\* The words a read of an address may return.
ReadWords(address) ==
  IF address = IOAddress THEN Switches ELSE {M[CellAt(address)]}

ISAInit ==
  /\ image \in Images
  /\ M = image
  /\ pc = 0
  /\ R = [r \in Register |-> 0]
  /\ cc \in SUBSET Flags
  /\ hex = 0
  /\ led = 0
  /\ mode = "halted"

-----------------------------------------------------------------------------
(* The instructions.  w is the instruction word; SR2 is a register or an   *)
(* immediate as bit 5 says.                                                *)

Next1 == Plus(pc, 1)
BaseR(w) == R[Field8_6(w)]
SR2(w) == IF IR_5(w) THEN sign5bit(w) ELSE R[Field2_0(w)]
Address(w) == Plus(BaseR(w), sign6bit(w))

\* Every result a program computes or loads sets the condition codes.
WriteResult(w, value) ==
  /\ R' = [R EXCEPT ![Field11_9(w)] = value]
  /\ cc' = {FlagOf(value)}
  /\ pc' = Next1
  /\ UNCHANGED <<M, hex, led, mode>>

ADD(w) == Opcode(w) = op_ADD /\ WriteResult(w, Plus(BaseR(w), SR2(w)))
AND(w) == Opcode(w) = op_AND /\ WriteResult(w, And(BaseR(w), SR2(w)))
NOT(w) == Opcode(w) = op_NOT /\ WriteResult(w, Not(BaseR(w)))
LDR(w) == /\ Opcode(w) = op_LDR
          /\ \E value \in ReadWords(Address(w)) : WriteResult(w, value)

STR(w) ==
  /\ Opcode(w) = op_STR
  /\ M' = [M EXCEPT ![CellAt(Address(w))] = R[Field11_9(w)]]
  /\ hex' = IF Address(w) = IOAddress THEN R[Field11_9(w)] ELSE hex
  /\ pc' = Next1
  /\ UNCHANGED <<R, cc, led, mode>>

BR(w) ==
  /\ Opcode(w) = op_BR
  /\ pc' = IF Condition(w) \cap cc # {} THEN Plus(Next1, sign9bit(w)) ELSE Next1
  /\ UNCHANGED <<R, cc, M, hex, led, mode>>

JMP(w) ==
  /\ Opcode(w) = op_JMP
  /\ pc' = BaseR(w)
  /\ UNCHANGED <<R, cc, M, hex, led, mode>>

\* Bit 11 off makes the link register the one bits 11:9 name.
JSR(w) ==
  /\ Opcode(w) = op_JSR
  /\ R' = [R EXCEPT ![IF IR_11(w) THEN 7 ELSE Field11_9(w)] = Next1]
  /\ pc' = Plus(Next1, sign11bit(w))
  /\ UNCHANGED <<cc, M, hex, led, mode>>

PSE(w) ==
  /\ Opcode(w) = op_PSE
  /\ mode' = "press"
  /\ led' = LedVector(w)
  /\ pc' = Next1
  /\ UNCHANGED <<R, cc, M, hex>>

Opcodes == {op_ADD, op_AND, op_NOT, op_BR, op_JMP, op_JSR, op_LDR, op_STR, op_PSE}

Unknown(w) ==
  /\ Opcode(w) \notin Opcodes
  /\ pc' = Next1
  /\ UNCHANGED <<R, cc, M, hex, led, mode>>

Instruction(w) ==
  \/ ADD(w) \/ AND(w) \/ NOT(w) \/ LDR(w) \/ STR(w)
  \/ BR(w) \/ JMP(w) \/ JSR(w) \/ PSE(w) \/ Unknown(w)

Execute ==
  /\ mode = "running"
  /\ \E w \in ReadWords(pc) : Instruction(w)
  /\ UNCHANGED image

-----------------------------------------------------------------------------
(* The buttons *)

Run ==
  /\ mode = "halted"
  /\ mode' = "running"
  /\ UNCHANGED <<pc, R, cc, M, hex, led, image>>

\* A pause ends with a press of Continue and its release, in this order.
PressContinue ==
  /\ mode = "press"
  /\ mode' = "release"
  /\ led' = 0
  /\ UNCHANGED <<pc, R, cc, M, hex, image>>

ReleaseContinue ==
  /\ mode = "release"
  /\ mode' = "running"
  /\ UNCHANGED <<pc, R, cc, M, hex, led, image>>

\* An SRAM keeps its words over a reset, except the cell of a store that the
\* reset cut short: it may be left with the STR word itself.
TornStores ==
  IF mode = "running"
  THEN {[M EXCEPT ![CellAt(Address(w))] = w] :
          w \in {v \in ReadWords(pc) : Opcode(v) = op_STR}}
  ELSE {}

Reset ==
  /\ mode' = "halted"
  /\ pc' = 0
  /\ R' = [r \in Register |-> 0]
  /\ cc' \in {cc} \union {{f} : f \in Flags}
  /\ hex' = 0
  /\ led' = 0
  /\ IF ReloadOnReset THEN M' = image ELSE M' \in {M} \union TornStores
  /\ UNCHANGED image

ISANext == Execute \/ Run \/ PressContinue \/ ReleaseContinue \/ Reset

ISASpec == ISAInit /\ [][ISANext]_isaVars
=============================================================================
