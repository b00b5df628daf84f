----------------------------- MODULE Multiplier -----------------------------
(***************************************************************************)
(* The 8-bit multiplier of lab 5 (Processor.sv): the state machine of      *)
(* Control.sv, the registers X, A and B, and the adder.  A step is one     *)
(* rising edge of Clk; its inputs are what the synchronizers hold then:    *)
(* any button may be down at any edge, and the switches move only while    *)
(* the machine is idle.                                                     *)
(***************************************************************************)
EXTENDS Adders

CONSTANT Switches               \* the words Din may show
ASSUME SwitchAssumption == Switches \subseteq Byte

VARIABLES
  curr_state,
  X, A, B,       \* the sign flip-flop and the two registers
  Din,           \* the synchronized switches
  operands       \* history: A, B and the switches when the machine left Clear

vars == <<curr_state, X, A, B, Din, operands>>

AddStates == {"Add1", "Add2", "Add3", "Add4", "Add5", "Add6", "Add7"}
ShiftStates == {"Shift1", "Shift2", "Shift3", "Shift4", "Shift5", "Shift6", "Shift7",
                "Shift8"}
IdleStates == {"Rst", "Halt1", "Halt2"}

Successor ==
  [Clear |-> "Add1", Add1 |-> "Shift1", Shift1 |-> "Add2", Add2 |-> "Shift2",
   Shift2 |-> "Add3", Add3 |-> "Shift3", Shift3 |-> "Add4", Add4 |-> "Shift4",
   Shift4 |-> "Add5", Add5 |-> "Shift5", Shift5 |-> "Add6", Add6 |-> "Shift6",
   Shift6 |-> "Add7", Add7 |-> "Shift7", Shift7 |-> "Subtract",
   Subtract |-> "Shift8", Shift8 |-> "Halt1"]

\* Faulty variant: the last shift starts another round.
next_state_AnotherRound(ClearA_LoadB, Execute) ==
  IF curr_state \in IdleStates THEN IF Execute THEN "Clear" ELSE curr_state
  ELSE IF curr_state = "Shift8" THEN "Add1" ELSE Successor[curr_state]
next_state(ClearA_LoadB, Execute) ==
  CASE curr_state = "Rst"   -> IF Execute THEN "Clear" ELSE "Rst"
    [] curr_state = "Halt1" -> IF ~Execute THEN "Halt2" ELSE "Halt1"
    [] curr_state = "Halt2" -> IF Execute THEN "Clear"
                               ELSE IF ClearA_LoadB THEN "Rst" ELSE "Halt2"
    [] OTHER -> Successor[curr_state]

\* Control signals.  ClearA is low in every state.
M == B % 2
Shift_En == curr_state \in ShiftStates
Ld_A == curr_state \in AddStates \union {"Subtract"} /\ M = 1
Ld_B(ClearA_LoadB) == curr_state = "Rst" /\ ClearA_LoadB
\* Faulty variant: the sign bit's term is added.
mode_AddOnly == 0
mode == IF curr_state = "Subtract" THEN 1 ELSE 0
Sum == ripple_adder(A, Din, mode)

\* Faulty variant: a reset leaves X.
register_unit_XNotReset(Reset, ClearA_LoadB) ==
  /\ X' = IF Ld_A THEN Sum \div 256 ELSE X
  /\ A' = IF Reset THEN 0
          ELSE IF Ld_A THEN Sum % 256
          ELSE IF Shift_En THEN 128 * X + A \div 2
          ELSE A
  /\ B' = IF Reset THEN 0
          ELSE IF Ld_B(ClearA_LoadB) THEN Din
          ELSE IF Shift_En THEN 128 * (A % 2) + B \div 2
          ELSE B

\* The registers: X follows the sign of the sum, A shifts X in from the left
\* and B the bit that A shifts out.
register_unit(Reset, ClearA_LoadB) ==
  /\ X' = IF Reset THEN 0 ELSE IF Ld_A THEN Sum \div 256 ELSE X
  /\ A' = IF Reset THEN 0
          ELSE IF Ld_A THEN Sum % 256
          ELSE IF Shift_En THEN 128 * X + A \div 2
          ELSE A
  /\ B' = IF Reset THEN 0
          ELSE IF Ld_B(ClearA_LoadB) THEN Din
          ELSE IF Shift_En THEN 128 * (A % 2) + B \div 2
          ELSE B

PosEdge(Reset, ClearA_LoadB, Execute) ==
  /\ curr_state' = IF Reset THEN "Rst" ELSE next_state(ClearA_LoadB, Execute)
  /\ register_unit(Reset, ClearA_LoadB)
  /\ Din' \in IF curr_state \in IdleStates THEN Switches ELSE {Din}
  /\ operands' = IF curr_state = "Clear" THEN [A |-> A, B |-> B, S |-> Din] ELSE operands

\* Just after a reset.
Init ==
  /\ curr_state = "Rst"
  /\ X = 0 /\ A = 0 /\ B = 0
  /\ Din \in Switches
  /\ operands = [A |-> 0, B |-> 0, S |-> 0]

Next == \E Reset, ClearA_LoadB, Execute \in BOOLEAN :
          PosEdge(Reset, ClearA_LoadB, Execute)

Spec == Init /\ [][Next]_vars
FairSpec == Spec /\ WF_vars(Next)

-----------------------------------------------------------------------------
(* Properties *)

Busy == curr_state \in AddStates \union ShiftStates \union {"Subtract"}
AB == 256 * Signed(A) + B       \* the 16 bits of the display, signed

\* What the machine computes from any state it can be in: when it stops, the
\* sixteen bits are the product of B and the switches plus what A held, signed
\* and without overflow (Control.sv:24-46, Register_unit.sv, ripple_adder.sv).
\* Until the next start or load nothing disturbs them: Halt2 shows them still.
MultiplyAccumulate ==
  curr_state \in {"Halt1", "Halt2"} =>
    AB = Signed(operands.B) * Signed(operands.S) + Signed(operands.A)

\* Unless an addition has just left the ninth bit of its sum in X, the sign
\* flip-flop holds the sign of A: a shift that no addition precedes, the first
\* of a multiplication included, shifts in the right sign and not a stale one
\* (Register_unit.sv:16-22, Processor.sv:33).
SignKept == curr_state \in ShiftStates \/ X = A \div 128

\* A multiplication that starts ends (or is reset).
MultiplicationEnds == Busy ~> ~Busy
=============================================================================
