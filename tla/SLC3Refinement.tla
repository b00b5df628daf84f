--------------------------- MODULE SLC3Refinement ---------------------------
(***************************************************************************)
(* The clocked SLC-3 implements its instruction set: the mapping from the  *)
(* hardware's registers to the programmer's, and the inductive invariant   *)
(* that carries it.  An instruction takes effect at one edge:              *)
(*   - BR not taken, ADD, AND, NOT, LDR, JMP, unknown: on entering S_18;   *)
(*   - BR taken: leaving S_22;                                             *)
(*   - JSR: leaving S_04, where the link register is written;              *)
(*   - STR: leaving S_16_1, the first of the two write cycles;             *)
(*   - PSE: on entering PauseIR1.                                          *)
(***************************************************************************)
EXTENDS SLC3

\* The states of an instruction fetched but not yet in effect: regPC has
\* been incremented, the programmer's pc has not.
InFlight == {"S_33_1", "S_33_2", "S_35", "S_32", "S_00", "S_22", "S_01", "S_05",
             "S_09", "S_12", "S_04", "S_06", "S_25_1", "S_25_2", "S_27",
             "S_07", "S_23", "S_16_1"}

fetchPC == Plus(regPC, 65535)

pc == CASE State \in InFlight -> fetchPC
        [] State = "S_21"     -> ADDERMuxOut
        [] OTHER              -> regPC

\* The first write cycle has left the chip with the word that was in MDR
\* before the operand: the second one stores the operand.
M == IF State = "S_16_2"
     THEN [mem_array EXCEPT ![actual_address] = regMDR]
     ELSE mem_array

mode == CASE State = "Halted"   -> "halted"
          [] State = "PauseIR1" -> "press"
          [] State = "PauseIR2" -> "release"
          [] OTHER              -> "running"

ISA == INSTANCE SLC3ISA
         WITH R <- tmpRegs, cc <- nzp, hex <- hex_data, led <- LED

\* Whatever the buttons and the switches do between the edges, the programmer
\* sees whole instructions of SLC3ISA, one after the other, each pause ended
\* by one press and one release of Continue (ISDU.sv, all of it; the timing of
\* tristate.sv and of the two-cycle reads and writes).
ImplementsISA == ISA!ISASpec

\* The controller never stays inside an instruction: once fetching, it comes
\* back to the next fetch, to a pause or to a reset (ISDU.sv:130-224).
InstructionCompletes ==
  State = "S_33_1" ~> State \in {"S_18", "PauseIR1", "Halted"}

-----------------------------------------------------------------------------
(* The inductive invariant *)

\* While an instruction executes, the sign extensions and SR2Val, which are
\* registers one clock behind regIR, have caught up with it.
SettledOperands ==
  State \in ExecuteStates \union PauseStates => extIR = regIR

\* The controller is in the states of the opcode in regIR.
StateMatchesOpcode ==
  /\ State \in {"S_00", "S_22"} => Opcode(regIR) = op_BR
  /\ State = "S_01" => Opcode(regIR) = op_ADD
  /\ State = "S_05" => Opcode(regIR) = op_AND
  /\ State = "S_09" => Opcode(regIR) = op_NOT
  /\ State = "S_12" => Opcode(regIR) = op_JMP
  /\ State \in {"S_04", "S_21"} => Opcode(regIR) = op_JSR
  /\ State \in {"S_06", "S_25_1", "S_25_2", "S_27"} => Opcode(regIR) = op_LDR
  /\ State \in {"S_07", "S_23", "S_16_1", "S_16_2"} => Opcode(regIR) = op_STR
  /\ State \in PauseStates => Opcode(regIR) = op_PSE

\* The instruction word on its way from memory to regIR is the one at fetchPC,
\* and nothing overwrites it before the instruction takes effect.
InstructionInFlight ==
  /\ State \in {"S_33_1", "S_33_2"} => regMAR = fetchPC
  /\ State = "S_33_2" => Data_read_buffer = mem_array[actual_address]
  /\ State = "S_35" => regMDR \in ISA!ReadWords(fetchPC)
  /\ State \in InFlight \ {"S_33_1", "S_33_2", "S_35"} =>
       regIR \in ISA!ReadWords(fetchPC)

\* BEN was computed from the condition codes the branch still sees.
BranchInFlight ==
  /\ State = "S_00" => (BEN <=> Condition(regIR) \cap nzp # {})
  /\ State = "S_22" => Condition(regIR) \cap nzp # {}

LoadInFlight ==
  /\ State \in {"S_25_1", "S_25_2", "S_27"} => regMAR = ISA!Address(regIR)
  /\ State = "S_25_2" => Data_read_buffer = mem_array[actual_address]
  /\ State = "S_27" => regMDR \in ISA!ReadWords(regMAR)

\* The word the write buffer offers the chip: the STR word itself in the first
\* write cycle, the operand in the second.
StoreInFlight ==
  /\ State \in {"S_23", "S_16_1", "S_16_2"} => regMAR = ISA!Address(regIR)
  /\ State \in {"S_32", "S_07", "S_23"} => regMDR = regIR
  /\ State \in {"S_16_1", "S_16_2"} => regMDR = tmpRegs[Field11_9(regIR)]
  /\ State = "S_16_1" => Data_write_buffer = regIR
  /\ State = "S_16_2" => Data_write_buffer = regMDR
  /\ State = "S_16_2" /\ regMAR = IOAddress => hex_data = regMDR

InFlightInv ==
  /\ SettledOperands
  /\ StateMatchesOpcode
  /\ InstructionInFlight
  /\ BranchInFlight
  /\ LoadInFlight
  /\ StoreInFlight

IInv == TypeOK /\ InFlightInv
=============================================================================
