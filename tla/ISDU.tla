-------------------------------- MODULE ISDU --------------------------------
(***************************************************************************)
(* The controller of the SLC-3 (ISDU.sv): its state register, the next     *)
(* state it computes, and the control signals each state asserts.  A       *)
(* signal is the set of states that assert it, read off the second case    *)
(* statement; a signal no state mentions keeps its default there.          *)
(***************************************************************************)
EXTENDS SLC3_2

VARIABLE State

FetchStates == {"S_18", "S_33_1", "S_33_2", "S_35", "S_32"}
PauseStates == {"PauseIR1", "PauseIR2"}
ExecuteStates == {"S_00", "S_22", "S_01", "S_05", "S_09", "S_12", "S_04", "S_21",
                  "S_06", "S_25_1", "S_25_2", "S_27",
                  "S_07", "S_23", "S_16_1", "S_16_2"}
States == {"Halted"} \union PauseStates \union FetchStates \union ExecuteStates

-----------------------------------------------------------------------------
(* Next state *)

\* The first state of each instruction; an unknown opcode fetches again.
Decode(opcode) ==
  CASE opcode = op_BR  -> "S_00"
    [] opcode = op_ADD -> "S_01"
    [] opcode = op_JSR -> "S_04"
    [] opcode = op_AND -> "S_05"
    [] opcode = op_LDR -> "S_06"
    [] opcode = op_STR -> "S_07"
    [] opcode = op_NOT -> "S_09"
    [] opcode = op_JMP -> "S_12"
    [] opcode = op_PSE -> "PauseIR1"
    [] OTHER           -> "S_18"

\* The states that wait for nothing have one successor.
Successor ==
  [S_18 |-> "S_33_1", S_33_1 |-> "S_33_2", S_33_2 |-> "S_35", S_35 |-> "S_32",
   S_01 |-> "S_18", S_05 |-> "S_18", S_09 |-> "S_18", S_12 |-> "S_18",
   S_04 |-> "S_21", S_21 |-> "S_18", S_22 |-> "S_18",
   S_06 |-> "S_25_1", S_25_1 |-> "S_25_2", S_25_2 |-> "S_27", S_27 |-> "S_18",
   S_07 |-> "S_23", S_23 |-> "S_16_1", S_16_1 |-> "S_16_2", S_16_2 |-> "S_18"]

Next_state(Run, Continue, opcode, BEN) ==
  CASE State = "Halted"   -> IF Run THEN "S_18" ELSE "Halted"
    [] State = "S_32"     -> Decode(opcode)
    [] State = "S_00"     -> IF BEN THEN "S_22" ELSE "S_18"
    [] State = "PauseIR1" -> IF Continue THEN "PauseIR2" ELSE "PauseIR1"
    [] State = "PauseIR2" -> IF Continue THEN "PauseIR2" ELSE "S_18"
    [] OTHER              -> Successor[State]

\* Faulty variant: a fetch that waits for an answer nobody gives.
ISDUEdge_StuckFetch(Reset, Run, Continue, opcode, BEN) ==
  State' = IF Reset THEN "Halted" ELSE IF State = "S_33_2" THEN "S_33_1"
           ELSE Next_state(Run, Continue, opcode, BEN)
ISDUEdge(Reset, Run, Continue, opcode, BEN) ==
  State' = IF Reset THEN "Halted" ELSE Next_state(Run, Continue, opcode, BEN)

-----------------------------------------------------------------------------
(* Control signals *)

LD_MAR == State \in {"S_18", "S_06", "S_07"}
\* Faulty variant: MDR loads before the read buffer has seen the chip's word.
LD_MDR_Early == State \in {"S_33_1", "S_25_1", "S_23"}
LD_MDR == State \in {"S_33_2", "S_25_2", "S_23"}
LD_IR  == State = "S_35"
\* Faulty variant: BEN is computed from the previous instruction.
LD_BEN_Early == State = "S_35"
LD_BEN == State = "S_32"
LD_CC  == State \in {"S_01", "S_05", "S_09", "S_27"}
LD_REG == State \in {"S_01", "S_05", "S_09", "S_27", "S_04"}
LD_PC  == State \in {"S_18", "S_12", "S_21", "S_22"}
LD_LED == State = "PauseIR1"

GatePC     == State \in {"S_18", "S_04"}
GateMDR    == State \in {"S_35", "S_27"}
GateALU    == State \in {"S_01", "S_05", "S_09", "S_23"}
GateMARMUX == State \in {"S_06", "S_07"}

PCMUX    == IF State \in {"S_12", "S_21", "S_22"} THEN 2 ELSE 0
SR1MUX   == State \in {"S_01", "S_05", "S_06", "S_07", "S_09", "S_12"}
SR2MUX(ir) == State \in {"S_01", "S_05"} /\ IR_5(ir)
DRMUX(ir) == State = "S_04" /\ IR_11(ir)
ADDR1MUX == State \in {"S_06", "S_07", "S_12"}
ADDR2MUX == CASE State \in {"S_06", "S_07"} -> 1
              [] State = "S_22"             -> 2
              [] State = "S_21"             -> 3
              [] OTHER                      -> 0
ALUK == CASE State = "S_05" -> 1
          [] State = "S_09" -> 2
          [] State = "S_23" -> 3
          [] OTHER          -> 0

\* Faulty variant: a write of one cycle.
Mem_WE_OneCycle == State = "S_16_1"

\* Active low in the hardware: TRUE here when the pin is low.
Mem_OE == State \in {"S_33_1", "S_33_2", "S_25_1", "S_25_2"}
Mem_WE == State \in {"S_16_1", "S_16_2"}
=============================================================================
