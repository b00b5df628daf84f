---------------------------- MODULE SLC3_proofs -----------------------------
(***************************************************************************)
(* The invariant of the clocked SLC-3.                                     *)
(*                                                                         *)
(* TypeOK alone is not inductive: that MDR never takes the floating word   *)
(* depends on what the read buffer holds in S_33_2 and S_25_2, which       *)
(* depends on the states before.  InFlightInv (SLC3Refinement) carries the *)
(* instruction word, its operands and its address from state to state, and *)
(* IInv == TypeOK /\ InFlightInv is inductive.                             *)
(*                                                                         *)
(* The proof goes through a table of register transfers, one lemma per     *)
(* state of the ISDU, in which the control signals are already resolved;   *)
(* the arithmetic stays opaque behind the word lemmas.                     *)
(*                                                                         *)
(* The clocked SLC-3 implements its instruction set for every memory size, *)
(* every memory contents and every behaviour of buttons and switches: Init *)
(* maps to the initial states of SLC3ISA; an edge that is not a reset maps *)
(* to one instruction, to a button or to a stutter, one case per state of  *)
(* the ISDU (StepRefines); a reset edge maps to Reset.                     *)
(***************************************************************************)
EXTENDS SLC3Refinement, TLAPS

-----------------------------------------------------------------------------
(* Words *)

\* A register keeps the low 16 bits of what it is given.
LEMMA WrapWord == ASSUME NEW x \in Int PROVE Wrap(x) \in Word
  BY SMT DEF Word, Wrap

\* The 16-bit adder returns a word.
LEMMA PlusWord == ASSUME NEW a \in Word, NEW b \in Word PROVE Plus(a, b) \in Word
  BY WrapWord DEF Plus, Word

\* The ALU's complement returns a word.
LEMMA NotWord == ASSUME NEW a \in Word PROVE Not(a) \in Word
  BY DEF Word, Not

\* The ALU's bitwise and returns a word, whatever its operands are.
LEMMA AndWord == ASSUME NEW a, NEW b PROVE And(a, b) \in Word
<1> DEFINE B(weight) == IF Bit(a, weight) /\ Bit(b, weight) THEN weight ELSE 0
<1>1. \A weight \in Nat : B(weight) \in Nat /\ B(weight) <= weight
  OBVIOUS
<1>2. And(a, b) = B(1) + B(2) + B(4) + B(8) + B(16) + B(32) + B(64) + B(128)
      + B(256) + B(512) + B(1024) + B(2048) + B(4096) + B(8192)
      + B(16384) + B(32768)
  BY DEF And
<1> HIDE DEF B
<1> QED BY <1>1, <1>2, SMT DEF Word

\* A sign extension returns a word.
LEMMA SignExtendWord ==
  ASSUME NEW w \in Word, NEW m \in Nat \ {0}
  PROVE  SignExtend(w, m) \in Word
<1>1. w % m \in Int
  BY DEF Word
<1> QED BY WrapWord, <1>1 DEF SignExtend

\* The register fields of an instruction name registers.
LEMMA FieldRegister ==
  ASSUME NEW w \in Word
  PROVE  /\ Field11_9(w) \in Register
         /\ Field8_6(w) \in Register
         /\ Field2_0(w) \in Register
<1>1. Field11_9(w) \in Register
  BY SMT DEF Word, Register, Field11_9
<1>2. Field8_6(w) \in Register
  BY SMT DEF Word, Register, Field8_6
<1>3. Field2_0(w) \in Register
  BY SMT DEF Word, Register, Field2_0
<1> QED BY <1>1, <1>2, <1>3

\* A word sets one of the three condition codes.
LEMMA FlagOfFlags == \A w : FlagOf(w) \in Flags
  BY DEF FlagOf, Flags

\* An edge at which Reset is not held.
Edge(Run, Continue, S) == PosEdge(FALSE, Run, Continue, S)
SR1value == tmpRegs[Field8_6(regIR)]
SR2value == IF IR_5(regIR) THEN sign5bit(extIR) ELSE tmpRegs[Field2_0(extIR)]
ReadData(S) == IF regMAR = IOAddress THEN S ELSE Data_read_buffer

-----------------------------------------------------------------------------
(* Register transfers *)

\* The address adder, in the states that use it.
LEMMA Adder ==
  /\ State = "S_12" => ADDERMuxOut = Plus(SR1value, 0)
  /\ State \in {"S_06", "S_07"} => ADDERMuxOut = Plus(SR1value, sign6bit(extIR))
  /\ State = "S_22" => ADDERMuxOut = Plus(regPC, sign9bit(extIR))
  /\ State = "S_21" => ADDERMuxOut = Plus(regPC, sign11bit(extIR))
  BY DEF ADDERMuxOut, ADDR1MuxOut, ADDR1MUX, ADDR2MuxOut, ADDR2MUX, SR1out, SR1MUX, SR1value

\* The bus, in the states that open a gate.
LEMMA Bus ==
  /\ State \in {"S_18", "S_04"} => busMuxOut = regPC
  /\ State \in {"S_35", "S_27"} => busMuxOut = regMDR
  /\ State = "S_01" => busMuxOut = Plus(SR1value, SR2value)
  /\ State = "S_05" => busMuxOut = And(SR1value, SR2value)
  /\ State = "S_09" => busMuxOut = Not(SR1value)
  /\ State = "S_23" => busMuxOut = tmpRegs[Field11_9(regIR)]
  /\ State \in {"S_06", "S_07"} => busMuxOut = ADDERMuxOut
  BY DEF busMuxOut, GateMARMUX, GatePC, GateALU, GateMDR, ALUout, ALUK, SR1out, SR1MUX,
         SR2MuxOut, SR2MUX, SR1value, SR2value

\* What every edge does, whatever the state: the delayed operands, the write
\* buffer and the read buffer.
LEMMA EveryEdge ==
  ASSUME NEW Run, NEW Continue, NEW S, Edge(Run, Continue, S)
  PROVE  /\ extIR' = regIR
         /\ Data_write_buffer' = regMDR
         /\ image' = image
         /\ Mem_OE => Data_read_buffer' = mem_array[actual_address]
         /\ ~Mem_OE /\ ~Mem_WE => Data_read_buffer' = Floating
         /\ ~Mem_OE /\ Mem_WE => Data_read_buffer' = Data_write_buffer
  BY DEF Edge, PosEdge, DatapathEdge, tristateEdge, test_memoryEdge, Data, Mem_OE, Mem_WE

\* The registers under their load signals (the always_ff blocks).
LEMMA Registers ==
  ASSUME NEW Run, NEW Continue, NEW S, Edge(Run, Continue, S)
  PROVE  /\ State' = Next_state(Run, Continue, Opcode(regIR), BEN)
         /\ regIR' = IF LD_IR THEN busMuxOut ELSE regIR
         /\ regPC' = IF LD_PC
                     THEN IF PCMUX = 2 THEN ADDERMuxOut ELSE Plus(regPC, 1)
                     ELSE regPC
         /\ regMDR' = IF LD_MDR
                      THEN IF Mem_OE THEN Data_to_CPU(S) ELSE busMuxOut
                      ELSE regMDR
         /\ Mem_OE /\ ~Mem_WE => Data_to_CPU(S) = ReadData(S)
         /\ regMAR' = IF LD_MAR THEN busMuxOut ELSE regMAR
         /\ tmpRegs' = IF LD_REG
                       THEN [tmpRegs EXCEPT ![IF DRMUX(regIR) THEN 7
                                              ELSE Field11_9(regIR)] = busMuxOut]
                       ELSE tmpRegs
         /\ nzp' = IF LD_CC THEN {FlagOf(busMuxOut)} ELSE nzp
         /\ LD_BEN => /\ BEN' \in BOOLEAN
                      /\ BEN' <=> Condition(regIR) \cap nzp # {}
         /\ ~LD_BEN => BEN' = BEN
         /\ hex_data' = IF Mem_WE /\ regMAR = IOAddress THEN regMDR ELSE hex_data
         /\ mem_array' = IF Mem_WE
                         THEN [mem_array EXCEPT ![actual_address] = Data_write_buffer]
                         ELSE mem_array
  BY DEF Edge, PosEdge, ISDUEdge, DatapathEdge, reg16bit, register_unit, reg16bitNZP,
     flipflopBEN, Mem2IOEdge, test_memoryEdge, PCMuxOut, MDRMuxOut, DRMuxOut, Data,
     Data_to_CPU, ReadData

\* Halted: Halted waits for Run.
LEMMA Edge_Halted ==
  ASSUME NEW Run, NEW Continue, NEW S, Edge(Run, Continue, S), State = "Halted"
  PROVE  /\ State' = IF Run THEN "S_18" ELSE "Halted"
         /\ UNCHANGED <<regIR, regPC, regMDR, regMAR, tmpRegs, nzp, BEN, hex_data, mem_array>>
  BY Registers, Bus, Adder DEF Next_state, Successor, LD_IR, LD_PC, LD_MDR, LD_MAR,
     LD_REG, LD_CC, LD_BEN, Mem_WE, Mem_OE, PCMUX, DRMUX

\* S_18: MAR <- PC; PC <- PC + 1.
LEMMA Edge_S_18 ==
  ASSUME NEW Run, NEW Continue, NEW S, Edge(Run, Continue, S), State = "S_18"
  PROVE  /\ State' = "S_33_1"
         /\ regMAR' = regPC
         /\ regPC' = Plus(regPC, 1)
         /\ UNCHANGED <<regIR, regMDR, tmpRegs, nzp, BEN, hex_data, mem_array>>
  BY Registers, Bus, Adder DEF Next_state, Successor, LD_IR, LD_PC, LD_MDR, LD_MAR,
     LD_REG, LD_CC, LD_BEN, Mem_WE, Mem_OE, PCMUX, DRMUX

\* S_33_1: the chip is read into the read buffer.
LEMMA Edge_S_33_1 ==
  ASSUME NEW Run, NEW Continue, NEW S, Edge(Run, Continue, S), State = "S_33_1"
  PROVE  /\ State' = "S_33_2"
         /\ UNCHANGED <<regIR, regPC, regMDR, regMAR, tmpRegs, nzp, BEN, hex_data, mem_array>>
  BY Registers, Bus, Adder DEF Next_state, Successor, LD_IR, LD_PC, LD_MDR, LD_MAR,
     LD_REG, LD_CC, LD_BEN, Mem_WE, Mem_OE, PCMUX, DRMUX

\* S_33_2: MDR <- M[MAR], or the switches.
LEMMA Edge_S_33_2 ==
  ASSUME NEW Run, NEW Continue, NEW S, Edge(Run, Continue, S), State = "S_33_2"
  PROVE  /\ State' = "S_35"
         /\ regMDR' = ReadData(S)
         /\ UNCHANGED <<regIR, regPC, regMAR, tmpRegs, nzp, BEN, hex_data, mem_array>>
  BY Registers, Bus, Adder DEF Next_state, Successor, LD_IR, LD_PC, LD_MDR, LD_MAR,
     LD_REG, LD_CC, LD_BEN, Mem_WE, Mem_OE, PCMUX, DRMUX

\* S_35: IR <- MDR.
LEMMA Edge_S_35 ==
  ASSUME NEW Run, NEW Continue, NEW S, Edge(Run, Continue, S), State = "S_35"
  PROVE  /\ State' = "S_32"
         /\ regIR' = regMDR
         /\ UNCHANGED <<regPC, regMDR, regMAR, tmpRegs, nzp, BEN, hex_data, mem_array>>
  BY Registers, Bus, Adder DEF Next_state, Successor, LD_IR, LD_PC, LD_MDR, LD_MAR,
     LD_REG, LD_CC, LD_BEN, Mem_WE, Mem_OE, PCMUX, DRMUX

\* S_32: BEN <- IR[11:9] against the condition codes; decode.
LEMMA Edge_S_32 ==
  ASSUME NEW Run, NEW Continue, NEW S, Edge(Run, Continue, S), State = "S_32"
  PROVE  /\ State' = Decode(Opcode(regIR))
         /\ BEN' \in BOOLEAN
         /\ BEN' <=> Condition(regIR) \cap nzp # {}
         /\ UNCHANGED <<regIR, regPC, regMDR, regMAR, tmpRegs, nzp, hex_data, mem_array>>
  BY Registers, Bus, Adder DEF Next_state, Successor, LD_IR, LD_PC, LD_MDR, LD_MAR,
     LD_REG, LD_CC, LD_BEN, Mem_WE, Mem_OE, PCMUX, DRMUX

\* S_00: BR: test BEN.
LEMMA Edge_S_00 ==
  ASSUME NEW Run, NEW Continue, NEW S, Edge(Run, Continue, S), State = "S_00"
  PROVE  /\ State' = IF BEN THEN "S_22" ELSE "S_18"
         /\ UNCHANGED <<regIR, regPC, regMDR, regMAR, tmpRegs, nzp, BEN, hex_data, mem_array>>
  BY Registers, Bus, Adder DEF Next_state, Successor, LD_IR, LD_PC, LD_MDR, LD_MAR,
     LD_REG, LD_CC, LD_BEN, Mem_WE, Mem_OE, PCMUX, DRMUX

\* S_22: BR taken: PC <- PC + offset9.
LEMMA Edge_S_22 ==
  ASSUME NEW Run, NEW Continue, NEW S, Edge(Run, Continue, S), State = "S_22"
  PROVE  /\ State' = "S_18"
         /\ regPC' = Plus(regPC, sign9bit(extIR))
         /\ UNCHANGED <<regIR, regMDR, regMAR, tmpRegs, nzp, BEN, hex_data, mem_array>>
  BY Registers, Bus, Adder DEF Next_state, Successor, LD_IR, LD_PC, LD_MDR, LD_MAR,
     LD_REG, LD_CC, LD_BEN, Mem_WE, Mem_OE, PCMUX, DRMUX

\* S_01: ADD.
LEMMA Edge_S_01 ==
  ASSUME NEW Run, NEW Continue, NEW S, Edge(Run, Continue, S), State = "S_01"
  PROVE  /\ State' = "S_18"
         /\ tmpRegs' = [tmpRegs EXCEPT ![Field11_9(regIR)] = Plus(SR1value, SR2value)]
         /\ nzp' = {FlagOf(Plus(SR1value, SR2value))}
         /\ UNCHANGED <<regIR, regPC, regMDR, regMAR, BEN, hex_data, mem_array>>
  BY Registers, Bus, Adder DEF Next_state, Successor, LD_IR, LD_PC, LD_MDR, LD_MAR,
     LD_REG, LD_CC, LD_BEN, Mem_WE, Mem_OE, PCMUX, DRMUX

\* S_05: AND.
LEMMA Edge_S_05 ==
  ASSUME NEW Run, NEW Continue, NEW S, Edge(Run, Continue, S), State = "S_05"
  PROVE  /\ State' = "S_18"
         /\ tmpRegs' = [tmpRegs EXCEPT ![Field11_9(regIR)] = And(SR1value, SR2value)]
         /\ nzp' = {FlagOf(And(SR1value, SR2value))}
         /\ UNCHANGED <<regIR, regPC, regMDR, regMAR, BEN, hex_data, mem_array>>
  BY Registers, Bus, Adder DEF Next_state, Successor, LD_IR, LD_PC, LD_MDR, LD_MAR,
     LD_REG, LD_CC, LD_BEN, Mem_WE, Mem_OE, PCMUX, DRMUX

\* S_09: NOT.
LEMMA Edge_S_09 ==
  ASSUME NEW Run, NEW Continue, NEW S, Edge(Run, Continue, S), State = "S_09"
  PROVE  /\ State' = "S_18"
         /\ tmpRegs' = [tmpRegs EXCEPT ![Field11_9(regIR)] = Not(SR1value)]
         /\ nzp' = {FlagOf(Not(SR1value))}
         /\ UNCHANGED <<regIR, regPC, regMDR, regMAR, BEN, hex_data, mem_array>>
  BY Registers, Bus, Adder DEF Next_state, Successor, LD_IR, LD_PC, LD_MDR, LD_MAR,
     LD_REG, LD_CC, LD_BEN, Mem_WE, Mem_OE, PCMUX, DRMUX

\* S_12: JMP: PC <- BaseR.
LEMMA Edge_S_12 ==
  ASSUME NEW Run, NEW Continue, NEW S, Edge(Run, Continue, S), State = "S_12"
  PROVE  /\ State' = "S_18"
         /\ regPC' = Plus(SR1value, 0)
         /\ UNCHANGED <<regIR, regMDR, regMAR, tmpRegs, nzp, BEN, hex_data, mem_array>>
  BY Registers, Bus, Adder DEF Next_state, Successor, LD_IR, LD_PC, LD_MDR, LD_MAR,
     LD_REG, LD_CC, LD_BEN, Mem_WE, Mem_OE, PCMUX, DRMUX

\* S_04: JSR: the link register <- PC.
LEMMA Edge_S_04 ==
  ASSUME NEW Run, NEW Continue, NEW S, Edge(Run, Continue, S), State = "S_04"
  PROVE  /\ State' = "S_21"
         /\ tmpRegs' = [tmpRegs EXCEPT ![IF IR_11(regIR) THEN 7 ELSE Field11_9(regIR)] = regPC]
         /\ UNCHANGED <<regIR, regPC, regMDR, regMAR, nzp, BEN, hex_data, mem_array>>
  BY Registers, Bus, Adder DEF Next_state, Successor, LD_IR, LD_PC, LD_MDR, LD_MAR,
     LD_REG, LD_CC, LD_BEN, Mem_WE, Mem_OE, PCMUX, DRMUX

\* S_21: JSR: PC <- PC + offset11.
LEMMA Edge_S_21 ==
  ASSUME NEW Run, NEW Continue, NEW S, Edge(Run, Continue, S), State = "S_21"
  PROVE  /\ State' = "S_18"
         /\ regPC' = Plus(regPC, sign11bit(extIR))
         /\ UNCHANGED <<regIR, regMDR, regMAR, tmpRegs, nzp, BEN, hex_data, mem_array>>
  BY Registers, Bus, Adder DEF Next_state, Successor, LD_IR, LD_PC, LD_MDR, LD_MAR,
     LD_REG, LD_CC, LD_BEN, Mem_WE, Mem_OE, PCMUX, DRMUX

\* S_06: LDR: MAR <- BaseR + offset6.
LEMMA Edge_S_06 ==
  ASSUME NEW Run, NEW Continue, NEW S, Edge(Run, Continue, S), State = "S_06"
  PROVE  /\ State' = "S_25_1"
         /\ regMAR' = Plus(SR1value, sign6bit(extIR))
         /\ UNCHANGED <<regIR, regPC, regMDR, tmpRegs, nzp, BEN, hex_data, mem_array>>
  BY Registers, Bus, Adder DEF Next_state, Successor, LD_IR, LD_PC, LD_MDR, LD_MAR,
     LD_REG, LD_CC, LD_BEN, Mem_WE, Mem_OE, PCMUX, DRMUX

\* S_25_1: LDR: the chip is read into the read buffer.
LEMMA Edge_S_25_1 ==
  ASSUME NEW Run, NEW Continue, NEW S, Edge(Run, Continue, S), State = "S_25_1"
  PROVE  /\ State' = "S_25_2"
         /\ UNCHANGED <<regIR, regPC, regMDR, regMAR, tmpRegs, nzp, BEN, hex_data, mem_array>>
  BY Registers, Bus, Adder DEF Next_state, Successor, LD_IR, LD_PC, LD_MDR, LD_MAR,
     LD_REG, LD_CC, LD_BEN, Mem_WE, Mem_OE, PCMUX, DRMUX

\* S_25_2: LDR: MDR <- M[MAR], or the switches.
LEMMA Edge_S_25_2 ==
  ASSUME NEW Run, NEW Continue, NEW S, Edge(Run, Continue, S), State = "S_25_2"
  PROVE  /\ State' = "S_27"
         /\ regMDR' = ReadData(S)
         /\ UNCHANGED <<regIR, regPC, regMAR, tmpRegs, nzp, BEN, hex_data, mem_array>>
  BY Registers, Bus, Adder DEF Next_state, Successor, LD_IR, LD_PC, LD_MDR, LD_MAR,
     LD_REG, LD_CC, LD_BEN, Mem_WE, Mem_OE, PCMUX, DRMUX

\* S_27: LDR: DR <- MDR.
LEMMA Edge_S_27 ==
  ASSUME NEW Run, NEW Continue, NEW S, Edge(Run, Continue, S), State = "S_27"
  PROVE  /\ State' = "S_18"
         /\ tmpRegs' = [tmpRegs EXCEPT ![Field11_9(regIR)] = regMDR]
         /\ nzp' = {FlagOf(regMDR)}
         /\ UNCHANGED <<regIR, regPC, regMDR, regMAR, BEN, hex_data, mem_array>>
  BY Registers, Bus, Adder DEF Next_state, Successor, LD_IR, LD_PC, LD_MDR, LD_MAR,
     LD_REG, LD_CC, LD_BEN, Mem_WE, Mem_OE, PCMUX, DRMUX

\* S_07: STR: MAR <- BaseR + offset6.
LEMMA Edge_S_07 ==
  ASSUME NEW Run, NEW Continue, NEW S, Edge(Run, Continue, S), State = "S_07"
  PROVE  /\ State' = "S_23"
         /\ regMAR' = Plus(SR1value, sign6bit(extIR))
         /\ UNCHANGED <<regIR, regPC, regMDR, tmpRegs, nzp, BEN, hex_data, mem_array>>
  BY Registers, Bus, Adder DEF Next_state, Successor, LD_IR, LD_PC, LD_MDR, LD_MAR,
     LD_REG, LD_CC, LD_BEN, Mem_WE, Mem_OE, PCMUX, DRMUX

\* S_23: STR: MDR <- SR.
LEMMA Edge_S_23 ==
  ASSUME NEW Run, NEW Continue, NEW S, Edge(Run, Continue, S), State = "S_23"
  PROVE  /\ State' = "S_16_1"
         /\ regMDR' = tmpRegs[Field11_9(regIR)]
         /\ UNCHANGED <<regIR, regPC, regMAR, tmpRegs, nzp, BEN, hex_data, mem_array>>
  BY Registers, Bus, Adder DEF Next_state, Successor, LD_IR, LD_PC, LD_MDR, LD_MAR,
     LD_REG, LD_CC, LD_BEN, Mem_WE, Mem_OE, PCMUX, DRMUX

\* S_16_1: STR: the chip takes the word of the write buffer.
LEMMA Edge_S_16_1 ==
  ASSUME NEW Run, NEW Continue, NEW S, Edge(Run, Continue, S), State = "S_16_1"
  PROVE  /\ State' = "S_16_2"
         /\ hex_data' = (IF regMAR = IOAddress THEN regMDR ELSE hex_data)
         /\ mem_array' = [mem_array EXCEPT ![actual_address] = Data_write_buffer]
         /\ UNCHANGED <<regIR, regPC, regMDR, regMAR, tmpRegs, nzp, BEN>>
  BY Registers, Bus, Adder DEF Next_state, Successor, LD_IR, LD_PC, LD_MDR, LD_MAR,
     LD_REG, LD_CC, LD_BEN, Mem_WE, Mem_OE, PCMUX, DRMUX

\* S_16_2: STR: the chip takes the word of the write buffer again.
LEMMA Edge_S_16_2 ==
  ASSUME NEW Run, NEW Continue, NEW S, Edge(Run, Continue, S), State = "S_16_2"
  PROVE  /\ State' = "S_18"
         /\ hex_data' = (IF regMAR = IOAddress THEN regMDR ELSE hex_data)
         /\ mem_array' = [mem_array EXCEPT ![actual_address] = Data_write_buffer]
         /\ UNCHANGED <<regIR, regPC, regMDR, regMAR, tmpRegs, nzp, BEN>>
  BY Registers, Bus, Adder DEF Next_state, Successor, LD_IR, LD_PC, LD_MDR, LD_MAR,
     LD_REG, LD_CC, LD_BEN, Mem_WE, Mem_OE, PCMUX, DRMUX

\* PauseIR1: a pause waits for Continue.
LEMMA Edge_PauseIR1 ==
  ASSUME NEW Run, NEW Continue, NEW S, Edge(Run, Continue, S), State = "PauseIR1"
  PROVE  /\ State' = IF Continue THEN "PauseIR2" ELSE "PauseIR1"
         /\ UNCHANGED <<regIR, regPC, regMDR, regMAR, tmpRegs, nzp, BEN, hex_data, mem_array>>
  BY Registers, Bus, Adder DEF Next_state, Successor, LD_IR, LD_PC, LD_MDR, LD_MAR,
     LD_REG, LD_CC, LD_BEN, Mem_WE, Mem_OE, PCMUX, DRMUX

\* PauseIR2: and then for its release.
LEMMA Edge_PauseIR2 ==
  ASSUME NEW Run, NEW Continue, NEW S, Edge(Run, Continue, S), State = "PauseIR2"
  PROVE  /\ State' = IF Continue THEN "PauseIR2" ELSE "S_18"
         /\ UNCHANGED <<regIR, regPC, regMDR, regMAR, tmpRegs, nzp, BEN, hex_data, mem_array>>
  BY Registers, Bus, Adder DEF Next_state, Successor, LD_IR, LD_PC, LD_MDR, LD_MAR,
     LD_REG, LD_CC, LD_BEN, Mem_WE, Mem_OE, PCMUX, DRMUX

-----------------------------------------------------------------------------
(* Types *)

\* Everything the datapath cuts out of a word has its type.
LEMMA FieldTypes ==
  ASSUME NEW w \in Word
  PROVE  /\ Field11_9(w) \in Register /\ Field8_6(w) \in Register /\ Field2_0(w) \in Register
         /\ sign5bit(w) \in Word /\ sign6bit(w) \in Word
         /\ sign9bit(w) \in Word /\ sign11bit(w) \in Word
         /\ FlagOf(w) \in Flags
  BY FieldRegister, SignExtendWord, FlagOfFlags DEF sign5bit, sign6bit, sign9bit, sign11bit

\* An address selects a cell of the chip.
LEMMA CellOfWord == ASSUME NEW a \in Word PROVE a % MemSize \in Cell
  BY MemoryAssumption, SMT DEF Word, Cell

\* The constants of the datapath have their types.
LEMMA ConstantTypes == 0 \in Word /\ 1 \in Word /\ 65535 \in Word /\ 7 \in Register
  BY DEF Word, Register

\* An edge without reset keeps every register in its type: no state loads a
\* register from a bus or a buffer that nobody drove.
LEMMA TypePreserved ==
  ASSUME IInv, NEW Run, NEW Continue, NEW S \in Switches, Edge(Run, Continue, S)
  PROVE  TypeOK'
<1> USE DEF IInv, TypeOK, DatapathTypeOK, Mem_OE, Mem_WE
<1>1. /\ SR1value \in Word /\ SR2value \in Word
      /\ actual_address \in Cell /\ S \in Word
  BY FieldTypes, CellOfWord, SwitchAssumption DEF SR1value, SR2value, actual_address
<1>2. mem_array[actual_address] \in Word
  BY <1>1
<1> USE <1>1, <1>2, EveryEdge, FieldTypes, PlusWord, ConstantTypes
<1>3. CASE State = "Halted"
  BY <1>3, Edge_Halted DEF States, FetchStates, ExecuteStates, PauseStates
<1>4. CASE State = "S_18"
  BY <1>4, Edge_S_18 DEF States, FetchStates, ExecuteStates, PauseStates
<1>5. CASE State = "S_33_1"
  BY <1>5, Edge_S_33_1 DEF States, FetchStates, ExecuteStates, PauseStates
<1>6. CASE State = "S_33_2"
  BY <1>6, Edge_S_33_2 DEF States, FetchStates, ExecuteStates, PauseStates, InFlightInv, InstructionInFlight, ReadData
<1>7. CASE State = "S_35"
  BY <1>7, Edge_S_35 DEF States, FetchStates, ExecuteStates, PauseStates
<1>8. CASE State = "S_32"
  <2>1. State' \in States
    BY <1>8, Edge_S_32 DEF Decode, States, FetchStates, ExecuteStates, PauseStates
  <2> QED BY <2>1, <1>8, Edge_S_32
<1>9. CASE State = "S_00"
  BY <1>9, Edge_S_00 DEF States, FetchStates, ExecuteStates, PauseStates
<1>10. CASE State = "S_22"
  BY <1>10, Edge_S_22 DEF States, FetchStates, ExecuteStates, PauseStates
<1>11. CASE State = "S_01"
  BY <1>11, Edge_S_01 DEF States, FetchStates, ExecuteStates, PauseStates
<1>12. CASE State = "S_05"
  BY <1>12, Edge_S_05, AndWord DEF States, FetchStates, ExecuteStates, PauseStates
<1>13. CASE State = "S_09"
  BY <1>13, Edge_S_09, NotWord DEF States, FetchStates, ExecuteStates, PauseStates
<1>14. CASE State = "S_12"
  BY <1>14, Edge_S_12 DEF States, FetchStates, ExecuteStates, PauseStates
<1>15. CASE State = "S_04"
  BY <1>15, Edge_S_04 DEF States, FetchStates, ExecuteStates, PauseStates
<1>16. CASE State = "S_21"
  BY <1>16, Edge_S_21 DEF States, FetchStates, ExecuteStates, PauseStates
<1>17. CASE State = "S_06"
  BY <1>17, Edge_S_06 DEF States, FetchStates, ExecuteStates, PauseStates
<1>18. CASE State = "S_25_1"
  BY <1>18, Edge_S_25_1 DEF States, FetchStates, ExecuteStates, PauseStates
<1>19. CASE State = "S_25_2"
  BY <1>19, Edge_S_25_2 DEF States, FetchStates, ExecuteStates, PauseStates, InFlightInv, LoadInFlight, ReadData
<1>20. CASE State = "S_27"
  BY <1>20, Edge_S_27 DEF States, FetchStates, ExecuteStates, PauseStates
<1>21. CASE State = "S_07"
  BY <1>21, Edge_S_07 DEF States, FetchStates, ExecuteStates, PauseStates
<1>22. CASE State = "S_23"
  BY <1>22, Edge_S_23 DEF States, FetchStates, ExecuteStates, PauseStates
<1>23. CASE State = "S_16_1"
  BY <1>23, Edge_S_16_1 DEF States, FetchStates, ExecuteStates, PauseStates
<1>24. CASE State = "S_16_2"
  BY <1>24, Edge_S_16_2 DEF States, FetchStates, ExecuteStates, PauseStates
<1>25. CASE State = "PauseIR1"
  BY <1>25, Edge_PauseIR1 DEF States, FetchStates, ExecuteStates, PauseStates
<1>26. CASE State = "PauseIR2"
  BY <1>26, Edge_PauseIR2 DEF States, FetchStates, ExecuteStates, PauseStates
<1> QED BY <1>3, <1>4, <1>5, <1>6, <1>7, <1>8, <1>9, <1>10, <1>11, <1>12, <1>13, <1>14, <1>15, <1>16, <1>17, <1>18, <1>19, <1>20, <1>21, <1>22, <1>23, <1>24, <1>25, <1>26 DEF States, FetchStates, ExecuteStates, PauseStates

-----------------------------------------------------------------------------
(* The instruction in flight *)

\* The increment of S_18 is undone by fetchPC, whatever the wraparound.
LEMMA FetchBack ==
  ASSUME NEW a \in Word
  PROVE  Plus(Plus(a, 1), 65535) = a /\ Plus(Plus(a, 65535), 1) = a
  BY SMT DEF Plus, Wrap, Word

\* The word operators of the instruction set are those of the hardware.
LEMMA SameOperators ==
  /\ \A a, b : ISA!Plus(a, b) = Plus(a, b) /\ ISA!And(a, b) = And(a, b)
  /\ \A w : /\ ISA!Not(w) = Not(w)
            /\ ISA!Field11_9(w) = Field11_9(w)
            /\ ISA!Field8_6(w) = Field8_6(w)
            /\ ISA!Field2_0(w) = Field2_0(w)
            /\ ISA!Opcode(w) = Opcode(w)
            /\ ISA!FlagOf(w) = FlagOf(w)
            /\ ISA!LedVector(w) = LedVector(w)
  /\ \A w : /\ ISA!sign5bit(w) = sign5bit(w)
            /\ ISA!sign6bit(w) = sign6bit(w)
            /\ ISA!sign9bit(w) = sign9bit(w)
            /\ ISA!sign11bit(w) = sign11bit(w)
  /\ \A w : /\ ISA!IR_5(w) <=> IR_5(w)
            /\ ISA!IR_11(w) <=> IR_11(w)
            /\ ISA!Condition(w) = Condition(w)
  BY DEF ISA!Plus, Plus, ISA!Wrap, Wrap, ISA!And, And, ISA!Bit, Bit, ISA!Not, Not,
     ISA!Field11_9, Field11_9, ISA!Field8_6, Field8_6, ISA!Field2_0, Field2_0,
     ISA!Opcode, Opcode, ISA!FlagOf, FlagOf, ISA!LedVector, LedVector,
     ISA!SignExtend, SignExtend, ISA!sign5bit, sign5bit, ISA!sign6bit, sign6bit,
     ISA!sign9bit, sign9bit, ISA!sign11bit, sign11bit, ISA!IR_5, IR_5, ISA!IR_11, IR_11,
     ISA!Condition, Condition, ISA!Flags, Flags

\* An edge without reset keeps the instruction in flight coherent.
LEMMA InFlightPreserved ==
  ASSUME IInv, NEW Run, NEW Continue, NEW S \in Switches, Edge(Run, Continue, S)
  PROVE  InFlightInv'
<1> USE EveryEdge DEF IInv, TypeOK, DatapathTypeOK, InFlightInv, SettledOperands,
      StateMatchesOpcode, InstructionInFlight, BranchInFlight, LoadInFlight, StoreInFlight,
      InFlight, PauseStates, ExecuteStates, fetchPC, actual_address, ReadData, IOAddress,
      ISA!ReadWords, ISA!CellAt, ISA!IOAddress, M, Mem_OE, Mem_WE
<1>1. CASE State = "Halted"
  BY <1>1, Edge_Halted
<1>2. CASE State = "S_18"
  BY <1>2, Edge_S_18, FetchBack
<1>3. CASE State = "S_33_1"
  BY <1>3, Edge_S_33_1
<1>4. CASE State = "S_33_2"
  BY <1>4, Edge_S_33_2
<1>5. CASE State = "S_35"
  BY <1>5, Edge_S_35
<1>6. CASE State = "S_32"
  BY <1>6, Edge_S_32 DEF Decode
<1>7. CASE State = "S_00"
  BY <1>7, Edge_S_00
<1>8. CASE State = "S_22"
  BY <1>8, Edge_S_22
<1>9. CASE State = "S_01"
  BY <1>9, Edge_S_01
<1>10. CASE State = "S_05"
  BY <1>10, Edge_S_05
<1>11. CASE State = "S_09"
  BY <1>11, Edge_S_09
<1>12. CASE State = "S_12"
  BY <1>12, Edge_S_12
<1>13. CASE State = "S_04"
  BY <1>13, Edge_S_04
<1>14. CASE State = "S_21"
  BY <1>14, Edge_S_21
<1>15. CASE State = "S_06"
  <2>1. extIR = regIR
    BY <1>15
  <2>2. regMAR' = ISA!Address(regIR)'
    BY <2>1, <1>15, Edge_S_06, SameOperators DEF ISA!Address, ISA!BaseR, SR1value
  <2> QED BY <2>2, <1>15, Edge_S_06
<1>16. CASE State = "S_25_1"
  BY <1>16, Edge_S_25_1 DEF ISA!Address, ISA!BaseR
<1>17. CASE State = "S_25_2"
  BY <1>17, Edge_S_25_2 DEF ISA!Address, ISA!BaseR
<1>18. CASE State = "S_27"
  BY <1>18, Edge_S_27
<1>19. CASE State = "S_07"
  <2>1. extIR = regIR
    BY <1>19
  <2>2. regMAR' = ISA!Address(regIR)'
    BY <2>1, <1>19, Edge_S_07, SameOperators DEF ISA!Address, ISA!BaseR, SR1value
  <2> QED BY <2>2, <1>19, Edge_S_07
<1>20. CASE State = "S_23"
  BY <1>20, Edge_S_23 DEF ISA!Address, ISA!BaseR
<1>21. CASE State = "S_16_1"
  BY <1>21, Edge_S_16_1 DEF ISA!Address, ISA!BaseR
<1>22. CASE State = "S_16_2"
  BY <1>22, Edge_S_16_2
<1>23. CASE State = "PauseIR1"
  BY <1>23, Edge_PauseIR1
<1>24. CASE State = "PauseIR2"
  BY <1>24, Edge_PauseIR2
<1>25. State \in States
  OBVIOUS
<1> HIDE EveryEdge DEF IInv, TypeOK, DatapathTypeOK, InFlightInv, SettledOperands,
      StateMatchesOpcode, InstructionInFlight, BranchInFlight, LoadInFlight, StoreInFlight,
      InFlight, fetchPC, actual_address, ReadData, IOAddress,
      ISA!ReadWords, ISA!CellAt, ISA!IOAddress, M, Mem_OE, Mem_WE
<1> QED
  BY <1>1, <1>2, <1>3, <1>4, <1>5, <1>6, <1>7, <1>8, <1>9, <1>10, <1>11, <1>12, <1>13, <1>14,
     <1>15, <1>16, <1>17, <1>18, <1>19, <1>20, <1>21, <1>22, <1>23, <1>24, <1>25
     DEF States, FetchStates

\* A reset edge, from any state, establishes the invariant again.
LEMMA ResetInvariant ==
  ASSUME IInv, NEW Run, NEW Continue, NEW S \in Switches, PosEdge(TRUE, Run, Continue, S)
  PROVE  IInv'
<1> USE DEF IInv, TypeOK, DatapathTypeOK
<1>1. State' = "Halted"
  BY DEF PosEdge, ISDUEdge
<1>2. DatapathTypeOK'
  <2>1. nzp' \in SUBSET Flags
    BY FlagOfFlags DEF PosEdge, DatapathEdge, reg16bitNZP
  <2> QED BY <2>1, ConstantTypes
          DEF PosEdge, DatapathEdge, reg16bit, register_unit, flipflopBEN
<1>3. actual_address \in Cell
  BY CellOfWord DEF actual_address
<1>4. Data \in Word \union {Floating} /\ (Mem_WE => Data = Data_write_buffer)
  <2>. HIDE DEF IInv
  <2>1. Data_write_buffer \in Word /\ mem_array \in [Cell -> Word]
    BY DEF IInv, TypeOK
  <2>2. mem_array[actual_address] \in Word
    BY <1>3, <2>1
  <2>. QED
    BY <2>1, <2>2, SMTT(30) DEF Data
<1>5. mem_array' \in [Cell -> Word] /\ image' \in Images
  <2>. HIDE DEF IInv, TypeOK, DatapathTypeOK
  <2>1. test_memoryEdge(TRUE)
    BY DEF PosEdge
  <2>2. mem_array \in [Cell -> Word] /\ image \in Images /\ Data_write_buffer \in Word
    BY DEF IInv, TypeOK
  <2>3. image \in [Cell -> Word]
    BY <2>2, MemoryAssumption
  <2>4. [mem_array EXCEPT ![actual_address] = Data_write_buffer] \in [Cell -> Word]
    BY <1>3, <2>2
  <2>. QED
    BY <1>4, <2>1, <2>2, <2>3, <2>4 DEF test_memoryEdge
<1>6. /\ hex_data' \in Word
      /\ Data_read_buffer' \in Word \union {Floating}
      /\ Data_write_buffer' \in Word
  BY <1>4, ConstantTypes DEF PosEdge, Mem2IOEdge, tristateEdge
<1>7. InFlightInv'
  BY <1>1 DEF InFlightInv, SettledOperands, StateMatchesOpcode, InstructionInFlight,
     BranchInFlight, LoadInFlight, StoreInFlight, InFlight, PauseStates, ExecuteStates
<1> QED BY <1>1, <1>2, <1>5, <1>6, <1>7 DEF States

\* The invariant holds just after power up and reset.
LEMMA InitInvariant == Init => IInv
<1> SUFFICES ASSUME Init PROVE IInv
  OBVIOUS
<1>1. TypeOK
  <2>1. image \in Images /\ mem_array \in [Cell -> Word]
    <3>1. image \in Images /\ mem_array = image
      BY DEF Init
    <3>2. image \in [Cell -> Word]
      BY <3>1, MemoryAssumption
    <3> QED BY <3>1, <3>2
  <2>2. tmpRegs \in [Register -> Word]
    BY ConstantTypes DEF Init
  <2>3. DatapathTypeOK
    <3>1. BEN \in BOOLEAN
      BY DEF Init
    <3>2. nzp \in SUBSET Flags
      BY DEF Init
    <3> QED BY <2>2, <3>1, <3>2, ConstantTypes DEF Init, DatapathTypeOK
  <2>4. State \in States
    BY DEF Init, States
  <2> QED BY <2>1, <2>3, <2>4, ConstantTypes DEF Init, TypeOK
<1>2. InFlightInv
  BY DEF Init, InFlightInv, SettledOperands, StateMatchesOpcode, InstructionInFlight,
     BranchInFlight, LoadInFlight, StoreInFlight, InFlight, PauseStates, ExecuteStates
<1> QED BY <1>1, <1>2 DEF IInv

\* The invariant is inductive.
LEMMA NextInvariant == IInv /\ [Next]_vars => IInv'
<1> SUFFICES ASSUME IInv, [Next]_vars PROVE IInv'
  OBVIOUS
<1>1. CASE ClockEdge
  BY <1>1, TypePreserved, InFlightPreserved DEF ClockEdge, Edge, IInv
<1>2. CASE ResetEdge
  BY <1>2, ResetInvariant DEF ResetEdge
<1>3. CASE UNCHANGED vars
  BY <1>3 DEF vars, datapathVars, memoryVars, IInv, TypeOK, DatapathTypeOK, InFlightInv,
     SettledOperands, StateMatchesOpcode, InstructionInFlight, BranchInFlight, LoadInFlight,
     StoreInFlight, fetchPC, actual_address, ISA!ReadWords, ISA!CellAt, ISA!Address,
     ISA!BaseR, M
<1> QED BY <1>1, <1>2, <1>3 DEF Next

\* In every reachable state the instruction in flight is coherent: its word, its
\* operands, its branch decision and its memory address are those of the
\* instruction at fetchPC (ISDU.sv:129-354 with datapath.sv).
THEOREM Invariant == Spec => []IInv
  BY InitInvariant, NextInvariant, PTL DEF Spec

\* Every register holds a word, so none is ever loaded from an undriven bus or
\* from a read buffer that has not seen a full clock of output enable.
THEOREM TypeCorrect == Spec => []TypeOK
<1>1. IInv => TypeOK
  BY DEF IInv
<1> QED BY <1>1, Invariant, PTL

\* In every state the registers hold what the instruction in flight needs
\* (ISDU.sv:125-340, datapath.sv:41-48, tristate.sv:27-33).
THEOREM InFlightCorrect == Spec => []InFlightInv
  BY Invariant, PTL DEF IInv

-----------------------------------------------------------------------------
(* The instruction set *)

\* What the programmer sees of the hardware.
ISAView == <<pc, tmpRegs, nzp, M, hex_data, LED, mode, image>>

\* JMP adds an offset of zero to its base register.
LEMMA PlusZero == ASSUME NEW a \in Word PROVE Plus(a, 0) = a
  BY SMT DEF Plus, Wrap, Word

\* One edge without reset is one instruction, one button, or a stutter.
LEMMA StepRefines ==
  ASSUME IInv, NEW Run \in BOOLEAN, NEW Continue \in BOOLEAN, NEW S \in Switches,
         Edge(Run, Continue, S)
  PROVE  ISA!ISANext \/ UNCHANGED ISAView
<1> USE EveryEdge DEF IInv, TypeOK, DatapathTypeOK, InFlightInv,
      ISAView, InFlight, fetchPC, pc, mode, LED, LD_LED, M, actual_address
<1>1. CASE State = "Halted"
  <2>1. UNCHANGED ISAView \/ ISA!Run
    BY <1>1, Edge_Halted DEF ISA!Run
  <2> QED BY <2>1 DEF ISA!ISANext
<1>2. CASE State = "S_18"
  BY <1>2, Edge_S_18, FetchBack
<1>3. CASE State = "S_33_1"
  BY <1>3, Edge_S_33_1
<1>4. CASE State = "S_33_2"
  BY <1>4, Edge_S_33_2
<1>5. CASE State = "S_35"
  BY <1>5, Edge_S_35
<1>6. CASE State = "S_32"
  <2>1. mode = "running" /\ regIR \in ISA!ReadWords(pc) /\ image' = image
    BY <1>6 DEF InstructionInFlight
  <2>2. CASE Opcode(regIR) = op_PSE
    <3>1. State' = "PauseIR1"
      BY <2>2, <1>6, Edge_S_32 DEF Decode, op_BR, op_ADD, op_JSR, op_AND, op_LDR, op_STR,
         op_NOT, op_JMP, op_PSE
    <3>2. ISA!PSE(regIR)
      BY <2>2, <3>1, <1>6, Edge_S_32, FetchBack, SameOperators
      DEF ISA!PSE, ISA!op_PSE, op_PSE, ISA!Next1
    <3> QED BY <2>1, <3>2 DEF ISA!ISANext, ISA!Execute, ISA!Instruction
  <2>3. CASE Opcode(regIR) \notin ISA!Opcodes
    <3>1. State' = "S_18"
      BY <2>3, <1>6, Edge_S_32 DEF Decode, ISA!Opcodes, op_BR, op_ADD, op_JSR, op_AND, op_LDR,
         op_STR, op_NOT, op_JMP, op_PSE, ISA!op_BR, ISA!op_ADD, ISA!op_JSR, ISA!op_AND,
         ISA!op_LDR, ISA!op_STR, ISA!op_NOT, ISA!op_JMP, ISA!op_PSE
    <3>2. ISA!Unknown(regIR)
      BY <2>3, <3>1, <1>6, Edge_S_32, FetchBack, SameOperators
      DEF ISA!Unknown, ISA!Next1
    <3> QED BY <2>1, <3>2 DEF ISA!ISANext, ISA!Execute, ISA!Instruction
  <2>4. CASE Opcode(regIR) \in ISA!Opcodes \ {op_PSE}
    <3>1. State' \in {"S_00", "S_01", "S_04", "S_05", "S_06", "S_07", "S_09", "S_12"}
      BY <2>4, <1>6, Edge_S_32 DEF Decode, ISA!Opcodes, op_BR, op_ADD, op_JSR, op_AND, op_LDR,
         op_STR, op_NOT, op_JMP, op_PSE, ISA!op_BR, ISA!op_ADD, ISA!op_JSR, ISA!op_AND,
         ISA!op_LDR, ISA!op_STR, ISA!op_NOT, ISA!op_JMP, ISA!op_PSE
    <3> QED BY <3>1, <1>6, Edge_S_32
  <2> QED BY <2>2, <2>3, <2>4
<1>7. CASE State = "S_00"
  <2>1. UNCHANGED ISAView \/ ISA!BR(regIR)
    BY <1>7, Edge_S_00, FetchBack, SameOperators DEF BranchInFlight, ISA!Next1,
       StateMatchesOpcode, ISA!BR, ISA!op_BR, op_BR
  <2>2. mode = "running" /\ regIR \in ISA!ReadWords(pc) /\ image' = image
    BY <1>7 DEF InstructionInFlight
  <2> QED BY <2>1, <2>2 DEF ISA!ISANext, ISA!Execute, ISA!Instruction
<1>8. CASE State = "S_22"
  <2>1. ISA!BR(regIR)
    BY <1>8, Edge_S_22, FetchBack, SameOperators DEF SettledOperands, ExecuteStates,
       BranchInFlight, ISA!Next1, StateMatchesOpcode, ISA!BR, ISA!op_BR, op_BR
  <2>2. mode = "running" /\ regIR \in ISA!ReadWords(pc) /\ image' = image
    BY <1>8 DEF InstructionInFlight
  <2> QED BY <2>1, <2>2 DEF ISA!ISANext, ISA!Execute, ISA!Instruction
<1>9. CASE State = "S_01"
  <2>1. ISA!ADD(regIR)
    BY <1>9, Edge_S_01, FetchBack, SameOperators DEF SettledOperands, ExecuteStates,
       SR1value, SR2value, ISA!SR2, ISA!WriteResult, ISA!BaseR, ISA!Next1,
       StateMatchesOpcode, ISA!ADD, ISA!op_ADD, op_ADD
  <2>2. mode = "running" /\ regIR \in ISA!ReadWords(pc) /\ image' = image
    BY <1>9 DEF InstructionInFlight
  <2> QED BY <2>1, <2>2 DEF ISA!ISANext, ISA!Execute, ISA!Instruction
<1>10. CASE State = "S_05"
  <2>1. ISA!AND(regIR)
    BY <1>10, Edge_S_05, FetchBack, SameOperators DEF SettledOperands, ExecuteStates,
       SR1value, SR2value, ISA!SR2, ISA!WriteResult, ISA!BaseR, ISA!Next1,
       StateMatchesOpcode, ISA!AND, ISA!op_AND, op_AND
  <2>2. mode = "running" /\ regIR \in ISA!ReadWords(pc) /\ image' = image
    BY <1>10 DEF InstructionInFlight
  <2> QED BY <2>1, <2>2 DEF ISA!ISANext, ISA!Execute, ISA!Instruction
<1>11. CASE State = "S_09"
  <2>1. ISA!NOT(regIR)
    BY <1>11, Edge_S_09, FetchBack, SameOperators DEF SR1value, ISA!WriteResult,
       ISA!BaseR, ISA!Next1, StateMatchesOpcode, ISA!NOT, ISA!op_NOT, op_NOT
  <2>2. mode = "running" /\ regIR \in ISA!ReadWords(pc) /\ image' = image
    BY <1>11 DEF InstructionInFlight
  <2> QED BY <2>1, <2>2 DEF ISA!ISANext, ISA!Execute, ISA!Instruction
<1>12. CASE State = "S_12"
  <2>1. ISA!JMP(regIR)
    BY <1>12, Edge_S_12, FetchBack, SameOperators, PlusZero, FieldTypes DEF SR1value,
       ISA!BaseR, StateMatchesOpcode, ISA!JMP, ISA!op_JMP, op_JMP
  <2>2. mode = "running" /\ regIR \in ISA!ReadWords(pc) /\ image' = image
    BY <1>12 DEF InstructionInFlight
  <2> QED BY <2>1, <2>2 DEF ISA!ISANext, ISA!Execute, ISA!Instruction
<1>13. CASE State = "S_04"
  <2>1. ISA!JSR(regIR)
    BY <1>13, Edge_S_04, FetchBack, SameOperators DEF ISA!Next1, ADDERMuxOut,
       ADDR1MuxOut, ADDR1MUX, ADDR2MuxOut, ADDR2MUX, StateMatchesOpcode, ISA!JSR,
       ISA!op_JSR, op_JSR
  <2>2. mode = "running" /\ regIR \in ISA!ReadWords(pc) /\ image' = image
    BY <1>13 DEF InstructionInFlight
  <2> QED BY <2>1, <2>2 DEF ISA!ISANext, ISA!Execute, ISA!Instruction
<1>14. CASE State = "S_21"
  BY <1>14, Edge_S_21 DEF SettledOperands, ExecuteStates, ADDERMuxOut, ADDR1MuxOut,
     ADDR1MUX, ADDR2MuxOut, ADDR2MUX
<1>15. CASE State = "S_06"
  BY <1>15, Edge_S_06
<1>16. CASE State = "S_25_1"
  BY <1>16, Edge_S_25_1
<1>17. CASE State = "S_25_2"
  BY <1>17, Edge_S_25_2
<1>18. CASE State = "S_27"
  <2>1. ISA!LDR(regIR)
    BY <1>18, Edge_S_27, FetchBack, SameOperators DEF LoadInFlight, ISA!WriteResult,
       ISA!BaseR, ISA!Next1, StateMatchesOpcode, ISA!LDR, ISA!op_LDR, op_LDR
  <2>2. mode = "running" /\ regIR \in ISA!ReadWords(pc) /\ image' = image
    BY <1>18 DEF InstructionInFlight
  <2> QED BY <2>1, <2>2 DEF ISA!ISANext, ISA!Execute, ISA!Instruction
<1>19. CASE State = "S_07"
  BY <1>19, Edge_S_07
<1>20. CASE State = "S_23"
  BY <1>20, Edge_S_23
<1>21. CASE State = "S_16_1"
  <2>1. mode = "running" /\ regIR \in ISA!ReadWords(pc) /\ image' = image
    BY <1>21 DEF InstructionInFlight
  <2>2. regMAR = ISA!Address(regIR) /\ regMDR = tmpRegs[ISA!Field11_9(regIR)]
    BY <1>21, SameOperators DEF StoreInFlight
  <2>3. M' = [M EXCEPT ![ISA!CellAt(ISA!Address(regIR))] = tmpRegs[ISA!Field11_9(regIR)]]
    <3>1. actual_address \in Cell
      BY CellOfWord DEF actual_address
    <3>2. M = mem_array /\ M' = [mem_array' EXCEPT ![actual_address] = regMDR]
      BY <1>21, Edge_S_16_1 DEF M, actual_address
    <3>3. mem_array' = [mem_array EXCEPT ![actual_address] = Data_write_buffer]
      BY <1>21, Edge_S_16_1
    <3>4. M' = [mem_array EXCEPT ![actual_address] = regMDR]
      BY <3>1, <3>2, <3>3
    <3> QED BY <2>2, <3>2, <3>4 DEF ISA!CellAt, actual_address
  <2>4. hex_data' = IF ISA!Address(regIR) = 65535 THEN tmpRegs[ISA!Field11_9(regIR)] ELSE hex_data
    BY <2>2, <1>21, Edge_S_16_1 DEF IOAddress
  <2>5. pc' = ISA!Next1 /\ UNCHANGED <<tmpRegs, nzp, LED, mode>>
    BY <1>21, Edge_S_16_1, FetchBack, SameOperators
    DEF InFlight, fetchPC, pc, mode, LED, LD_LED, ISA!Next1
  <2>6. ISA!Opcode(regIR) = ISA!op_STR
    BY <1>21, SameOperators DEF StateMatchesOpcode, op_STR, ISA!op_STR
  <2>7. ISA!STR(regIR)
    BY <2>3, <2>4, <2>5, <2>6 DEF ISA!STR, ISA!IOAddress
  <2> QED BY <2>1, <2>7 DEF ISA!ISANext, ISA!Execute, ISA!Instruction
<1>22. CASE State = "S_16_2"
  <2>1. M' = M
    BY <1>22, Edge_S_16_2 DEF M, StoreInFlight, actual_address
  <2>2. hex_data' = hex_data
    BY <1>22, Edge_S_16_2 DEF StoreInFlight
  <2>3. UNCHANGED <<pc, tmpRegs, nzp, LED, mode, image>>
    BY <1>22, Edge_S_16_2 DEF InFlight, pc, mode, LED, LD_LED
  <2> QED BY <2>1, <2>2, <2>3 DEF ISAView
<1>23. CASE State = "PauseIR1"
  <2>1. UNCHANGED ISAView \/ ISA!PressContinue
    BY <1>23, Edge_PauseIR1 DEF ISA!PressContinue
  <2> QED BY <2>1 DEF ISA!ISANext
<1>24. CASE State = "PauseIR2"
  <2>1. UNCHANGED ISAView \/ ISA!ReleaseContinue
    BY <1>24, Edge_PauseIR2 DEF ISA!ReleaseContinue
  <2> QED BY <2>1 DEF ISA!ISANext
<1> QED BY <1>1, <1>2, <1>3, <1>4, <1>5, <1>6, <1>7, <1>8, <1>9, <1>10, <1>11, <1>12,
          <1>13, <1>14, <1>15, <1>16, <1>17, <1>18, <1>19, <1>20, <1>21, <1>22, <1>23, <1>24
   DEF States, FetchStates, ExecuteStates, PauseStates

\* A reset edge is a Reset: of the memory it may leave one torn store behind.
LEMMA ResetRefines ==
  ASSUME IInv, NEW Run, NEW Continue, NEW S \in Switches, PosEdge(TRUE, Run, Continue, S)
  PROVE  ISA!ISANext
<1> USE DEF IInv, TypeOK, DatapathTypeOK, InFlightInv
<1>1. /\ State' = "Halted" /\ regPC' = 0 /\ hex_data' = 0
      /\ tmpRegs' = [r \in Register |-> 0]
      /\ image' = image
  BY DEF PosEdge, ISDUEdge, DatapathEdge, reg16bit, register_unit, Mem2IOEdge,
     test_memoryEdge
<1>2. nzp' \in {nzp} \union {{f} : f \in Flags}
  BY FlagOfFlags DEF PosEdge, DatapathEdge, reg16bitNZP
<1>3. mode' = "halted" /\ pc' = 0 /\ LED' = 0 /\ M' = mem_array'
  BY <1>1 DEF mode, pc, InFlight, LED, LD_LED, M
<1>4. ReloadOnReset => M' = image
  BY <1>3 DEF PosEdge, test_memoryEdge
<1>5. ASSUME ~ReloadOnReset PROVE M' \in {M} \union ISA!TornStores
  <2>1. CASE ~Mem_WE
    <3>1. mem_array' = mem_array
      BY <1>5, <2>1 DEF PosEdge, test_memoryEdge
    <3> QED BY <3>1, <2>1, <1>3 DEF M, Mem_WE
  <2>2. CASE State = "S_16_1"
    <3>1. mem_array' = [mem_array EXCEPT ![actual_address] = regIR]
      BY <1>5, <2>2 DEF PosEdge, test_memoryEdge, Data, Mem_WE, StoreInFlight
    <3>2. regMAR = ISA!Address(regIR) /\ regIR \in ISA!ReadWords(pc) /\ mode = "running"
      BY <2>2 DEF StoreInFlight, InstructionInFlight, InFlight, pc, mode
    <3>3. ISA!Opcode(regIR) = ISA!op_STR
      BY <2>2, SameOperators DEF StateMatchesOpcode, op_STR, ISA!op_STR
    <3>4. M = mem_array
      BY <2>2 DEF M
    <3>5. M' = [M EXCEPT ![ISA!CellAt(ISA!Address(regIR))] = regIR]
      BY <1>3, <3>1, <3>2, <3>4 DEF ISA!CellAt, actual_address
    <3> QED BY <3>2, <3>3, <3>5 DEF ISA!TornStores
  <2>3. CASE State = "S_16_2"
    <3>1. mem_array' = [mem_array EXCEPT ![actual_address] = regMDR]
      BY <1>5, <2>3 DEF PosEdge, test_memoryEdge, Data, Mem_WE, StoreInFlight
    <3> QED BY <3>1, <2>3, <1>3 DEF M
  <2> QED BY <2>1, <2>2, <2>3 DEF Mem_WE
<1>6. ISA!Reset
  BY <1>1, <1>2, <1>3, <1>4, <1>5
  DEF ISA!Reset, ISA!Flags, Flags, ISA!Register, Register
<1> QED BY <1>6 DEF ISA!ISANext

\* Just after a reset the programmer sees the initial state.
LEMMA InitRefines == Init => ISA!ISAInit
  BY DEF Init, ISA!ISAInit, pc, M, mode, LED, LD_LED, InFlight, ISA!Register, Register,
     ISA!Flags, Flags

\* Every step of the hardware is a step of the instruction set, or none.
LEMMA NextRefines == IInv /\ [Next]_vars => [ISA!ISANext]_(ISA!isaVars)
<1> SUFFICES ASSUME IInv, [Next]_vars PROVE ISA!ISANext \/ UNCHANGED ISAView
  BY DEF ISA!isaVars, ISAView
<1>1. CASE ClockEdge
  BY <1>1, StepRefines DEF ClockEdge, Edge
<1>2. CASE ResetEdge
  BY <1>2, ResetRefines DEF ResetEdge
<1>3. CASE UNCHANGED vars
  BY <1>3 DEF vars, datapathVars, memoryVars, ISAView, pc, fetchPC, M, mode, LED, LD_LED,
     ADDERMuxOut, ADDR1MuxOut, ADDR1MUX, ADDR2MuxOut, ADDR2MUX, SR1out, SR1MUX,
     actual_address
<1> QED BY <1>1, <1>2, <1>3 DEF Next

\* ISDU.sv, datapath.sv, Mem2IO.sv and tristate.sv together give the programmer
\* the instructions of SLC3ISA and nothing in between.
THEOREM Refinement == Spec => ImplementsISA
  BY InitRefines, NextRefines, Invariant, PTL DEF Spec, ImplementsISA, ISA!ISASpec
=============================================================================
