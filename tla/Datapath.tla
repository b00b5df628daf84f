------------------------------ MODULE Datapath ------------------------------
(***************************************************************************)
(* The datapath of the SLC-3 (datapath.sv and the modules it instantiates):*)
(* its registers, the multiplexers between them, and what one rising edge  *)
(* of Clk does to each register under the control signals of the ISDU.     *)
(*                                                                         *)
(* Floating stands for a word that is not there: an undriven bus, the      *)
(* 16'hXXXX of busMux.  No register may ever hold it.                      *)
(***************************************************************************)
EXTENDS ISDU

CONSTANT Floating
ASSUME FloatingAssumption == Floating \notin Word

VARIABLES
  regIR, regPC, regMDR, regMAR,  \* the four 16-bit registers
  extIR,     \* the regIR of one clock ago: sign11bit, sign9bit, sign6bit,
             \* sign5bit and SR2Val are registers of it, never of regIR itself
  tmpRegs,   \* the register file
  nzp,       \* the condition codes that are 1; no reset, so any set at power up
  BEN        \* the branch enable flip-flop

datapathVars == <<regIR, regPC, regMDR, regMAR, extIR, tmpRegs, nzp, BEN>>

DatapathTypeOK ==
  /\ regIR \in Word /\ regPC \in Word /\ regMDR \in Word /\ regMAR \in Word
  /\ extIR \in Word
  /\ tmpRegs \in [Register -> Word]
  /\ nzp \in SUBSET Flags
  /\ BEN \in BOOLEAN

-----------------------------------------------------------------------------
(* Combinational logic *)

SR1out == tmpRegs[IF SR1MUX THEN Field8_6(regIR) ELSE Field11_9(regIR)]
SR2MuxOut == IF SR2MUX(regIR) THEN sign5bit(extIR) ELSE tmpRegs[Field2_0(extIR)]
DRMuxOut == IF DRMUX(regIR) THEN 7 ELSE Field11_9(regIR)

ALUout == CASE ALUK = 0 -> Plus(SR1out, SR2MuxOut)
            [] ALUK = 1 -> And(SR1out, SR2MuxOut)
            [] ALUK = 2 -> Not(SR1out)
            [] ALUK = 3 -> SR1out

ADDR1MuxOut == IF ADDR1MUX THEN SR1out ELSE regPC
ADDR2MuxOut == CASE ADDR2MUX = 0 -> 0
                 [] ADDR2MUX = 1 -> sign6bit(extIR)
                 [] ADDR2MUX = 2 -> sign9bit(extIR)
                 [] ADDR2MUX = 3 -> sign11bit(extIR)
ADDERMuxOut == Plus(ADDR1MuxOut, ADDR2MuxOut)

\* Exactly one open gate drives the bus.
busMuxOut ==
  CASE GateMARMUX /\ ~GatePC /\ ~GateALU /\ ~GateMDR -> ADDERMuxOut
    [] ~GateMARMUX /\ GatePC /\ ~GateALU /\ ~GateMDR -> regPC
    [] ~GateMARMUX /\ ~GatePC /\ GateALU /\ ~GateMDR -> ALUout
    [] ~GateMARMUX /\ ~GatePC /\ ~GateALU /\ GateMDR -> regMDR
    [] OTHER -> Floating

PCMuxOut == IF PCMUX = 2 THEN ADDERMuxOut ELSE Plus(regPC, 1)
\* MIO_EN is ~OE: while the memory is read, MDR takes the memory's word.
MDRMuxOut(Data) == IF Mem_OE THEN Data ELSE busMuxOut

-----------------------------------------------------------------------------
(* One rising edge of Clk *)

\* reg16bit: reset before load.
reg16bit(reg, Reset, Load, Din) ==
  reg' = IF Reset THEN 0 ELSE IF Load THEN Din ELSE reg

\* register_unit: all eight registers cleared, or one written.
register_unit(Reset) ==
  tmpRegs' = IF Reset THEN [r \in Register |-> 0]
             ELSE IF LD_REG THEN [tmpRegs EXCEPT ![DRMuxOut] = busMuxOut]
             ELSE tmpRegs

\* reg16bitNZP has no reset: a load counts even while Reset is held.
reg16bitNZP == nzp' = IF LD_CC THEN {FlagOf(busMuxOut)} ELSE nzp

flipflopBEN(Reset) ==
  BEN' = IF Reset THEN FALSE
         ELSE IF LD_BEN THEN Condition(regIR) \cap nzp # {}
         ELSE BEN

DatapathEdge(Reset, Data) ==
  /\ reg16bit(regIR, Reset, LD_IR, busMuxOut)
  /\ reg16bit(regPC, Reset, LD_PC, PCMuxOut)
  /\ reg16bit(regMDR, Reset, LD_MDR, MDRMuxOut(Data))
  /\ reg16bit(regMAR, Reset, LD_MAR, busMuxOut)
  /\ extIR' = regIR
  /\ register_unit(Reset)
  /\ reg16bitNZP
  /\ flipflopBEN(Reset)
=============================================================================
