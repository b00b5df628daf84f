-------------------------------- MODULE SLC3 --------------------------------
(***************************************************************************)
(* The whole computer, clock by clock (slc3.sv, lab6_toplevel.sv): the     *)
(* ISDU and the datapath, composed with Mem2IO.sv, tristate.sv and the     *)
(* memory chip (test_memory.sv).  A step is one rising edge of Clk at      *)
(* which every register of every component takes its next value together.  *)
(***************************************************************************)
EXTENDS Datapath

CONSTANTS MemSize, Images, Switches, ReloadOnReset

VARIABLES
  Data_read_buffer, Data_write_buffer,  \* tristate
  hex_data,                             \* Mem2IO
  mem_array,                            \* test_memory
  image                                 \* memory_contents.dat

memoryVars == <<Data_read_buffer, Data_write_buffer, hex_data, mem_array, image>>
vars == <<State, datapathVars, memoryVars>>

Cell == 0..(MemSize - 1)
ASSUME MemoryAssumption ==
  /\ MemSize \in 1..65536
  /\ Images \subseteq [Cell -> Word]
ASSUME SwitchAssumption == Switches \subseteq Word
ASSUME ReloadAssumption == ReloadOnReset \in BOOLEAN

-----------------------------------------------------------------------------
(* Between the edges *)

IOAddress == 65535
actual_address == regMAR % MemSize

\* The Data pins: tristate drives them in a write, the chip in a read (from a
\* cell it latched at the falling edge, with the address already settled).
Data == CASE Mem_WE              -> Data_write_buffer
          [] ~Mem_WE /\ Mem_OE   -> mem_array[actual_address]
          [] ~Mem_WE /\ ~Mem_OE  -> Floating

Data_to_CPU(S) ==
  IF ~Mem_WE /\ Mem_OE
  THEN IF regMAR = IOAddress THEN S ELSE Data_read_buffer
  ELSE 0

LED == IF LD_LED THEN LedVector(regIR) ELSE 0

-----------------------------------------------------------------------------
(* One rising edge *)

Mem2IOEdge(Reset) ==
  hex_data' = IF Reset THEN 0
              ELSE IF Mem_WE /\ regMAR = IOAddress THEN regMDR
              ELSE hex_data

tristateEdge ==
  /\ Data_read_buffer' = Data
  /\ Data_write_buffer' = regMDR

test_memoryEdge(Reset) ==
  /\ mem_array' = IF Reset /\ ReloadOnReset THEN image
                  ELSE IF Mem_WE THEN [mem_array EXCEPT ![actual_address] = Data]
                  ELSE mem_array
  /\ UNCHANGED image

PosEdge(Reset, Run, Continue, S) ==
  /\ ISDUEdge(Reset, Run, Continue, Opcode(regIR), BEN)
  /\ DatapathEdge(Reset, Data_to_CPU(S))
  /\ Mem2IOEdge(Reset)
  /\ tristateEdge
  /\ test_memoryEdge(Reset)

\* The computer just after a reset: only the condition codes have none.
Init ==
  /\ State = "Halted"
  /\ regIR = 0 /\ regPC = 0 /\ regMDR = 0 /\ regMAR = 0 /\ extIR = 0
  /\ tmpRegs = [r \in Register |-> 0]
  /\ nzp \in SUBSET Flags
  /\ BEN = FALSE
  /\ hex_data = 0
  /\ Data_read_buffer = Floating
  /\ Data_write_buffer = 0
  /\ image \in Images
  /\ mem_array = image

\* The buttons and switches may change between any two edges.
ClockEdge ==
  \E Run, Continue \in BOOLEAN, S \in Switches : PosEdge(FALSE, Run, Continue, S)
ResetEdge ==
  \E Run, Continue \in BOOLEAN, S \in Switches : PosEdge(TRUE, Run, Continue, S)
Next == ClockEdge \/ ResetEdge

\* The clock never stops.
Spec == Init /\ [][Next]_vars
FairSpec == Spec /\ WF_vars(Next)

-----------------------------------------------------------------------------
(* Properties *)

\* Every register holds a word of its width.  As the undriven bus, the
\* undriven pins and the default of busMux are Floating, this says that no
\* register is ever loaded from a bus or a buffer that nobody drove: each
\* load meets exactly one open gate, and MDR is loaded only after the read
\* buffer has seen one full clock of Mem_OE.
TypeOK ==
  /\ State \in States
  /\ DatapathTypeOK
  /\ hex_data \in Word
  /\ Data_read_buffer \in Word \union {Floating}
  /\ Data_write_buffer \in Word
  /\ mem_array \in [Cell -> Word]
  /\ image \in Images

=============================================================================
