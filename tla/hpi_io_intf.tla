----------------------------- MODULE hpi_io_intf ----------------------------
(***************************************************************************)
(* The host port of lab 8, clock by clock: the port writes of io_handler.c,*)
(* the registers of hpi_io_intf.sv between the processor's ports and the   *)
(* pins of the CY7C67200, and the pulses the chip sees.  Every signal but  *)
(* the data is active low.                                                 *)
(***************************************************************************)
EXTENDS Integers

CONSTANTS
  Addresses, Words,     \* the chip's ports, and the words on its data pins
  Gap,                  \* clocks the processor takes at least between two ports
  None
\* A word read passes the pins, the data register and the port's own register; the
\* processor takes several times as long from one access to the next.
ASSUME GapAssumption == Gap \in Nat /\ Gap >= 4
ASSUME NoneAssumption ==
  None \notin [op : {"read", "write"}, address : Addresses]
             \union [op : {"read", "write"}, address : Addresses, data : Words]

VARIABLES
  pc,                   \* the line of io_handler.c about to run; 0 between calls
  Address, Data, temp,  \* the arguments of IO_read and IO_write, and temp
  idle,                 \* clocks since the last port access, Gap when enough
  ports,                \* the processor's output ports
  from_sw_data_out_buffer, from_sw_data_in,
  readdata,             \* the register of the processor's input port
  pins,                 \* the registered pins of the chip
  bus,                  \* what the data pins carried in the last clock
  pulse,                \* the chip: the access in progress, or None
  done,                 \* history: what the chip finished since the call
  torn                  \* history: a reset was pressed since the call

programVars == <<Address, Data, temp>>
vars == <<pc, programVars, idle, ports, from_sw_data_out_buffer, from_sw_data_in,
          readdata, pins, bus, pulse, done, torn>>

\* What the statement on a line stores in which port.
IO_init ==
  [l \in {7, 8, 9, 10, 11, 12, 14, 15, 16, 17} |->
     CASE l = 7 -> <<"reset", 1>> [] l = 8 -> <<"cs", 1>> [] l = 9 -> <<"r", 1>>
       [] l = 10 -> <<"w", 1>> [] l = 11 -> <<"address", 0>> [] l = 12 -> <<"data", 0>>
       [] l = 14 -> <<"cs", 0>> [] l = 15 -> <<"reset", 0>> [] l = 16 -> <<"reset", 1>>
       [] l = 17 -> <<"cs", 1>>]
\* Faulty variant: the data are stored after the pulse.
IO_write_LateData ==
  [l \in 27..32 |->
     CASE l = 27 -> <<"address", Address>> [] l = 28 -> <<"cs", 0>> [] l = 29 -> <<"w", 0>>
       [] l = 30 -> <<"w", 1>> [] l = 31 -> <<"data", Data>> [] l = 32 -> <<"cs", 1>>]
IO_write ==
  [l \in 27..32 |->
     CASE l = 27 -> <<"address", Address>> [] l = 28 -> <<"cs", 0>> [] l = 29 -> <<"w", 0>>
       [] l = 30 -> <<"data", Data>> [] l = 31 -> <<"w", 1>> [] l = 32 -> <<"cs", 1>>]
\* Faulty variant: the read signal is never raised again.
IO_read_HeldLow ==
  [l \in {43, 44, 45, 47, 48} |->
     CASE l = 43 -> <<"address", Address>> [] l = 44 -> <<"r", 0>> [] l = 45 -> <<"cs", 0>>
       [] l = 47 -> <<"cs", 1>> [] l = 48 -> <<"r", 0>>]
IO_read ==
  [l \in {43, 44, 45, 47, 48} |->
     CASE l = 43 -> <<"address", Address>> [] l = 44 -> <<"r", 0>> [] l = 45 -> <<"cs", 0>>
       [] l = 47 -> <<"r", 1>> [] l = 48 -> <<"cs", 1>>]

Lines == DOMAIN IO_init \union DOMAIN IO_write \union DOMAIN IO_read
Load == 46                      \* temp = *otg_hpi_data

NextLine(l) == CASE l = 12 -> 14 [] l \in {17, 32, 48} -> 0 [] OTHER -> l + 1

\* The store of line l, to one port.
Store(l) ==
  LET store == CASE l \in DOMAIN IO_init -> IO_init[l]
                 [] l \in DOMAIN IO_write -> IO_write[l]
                 [] OTHER -> IO_read[l]
  IN  [ports EXCEPT ![store[1]] = store[2]]

-----------------------------------------------------------------------------
(* The data pins and the chip. *)

Reading(p) == p.RST_N = 1 /\ p.CS_N = 0 /\ p.RD_N = 0
Writing(p) == p.RST_N = 1 /\ p.CS_N = 0 /\ p.WR_N = 0

\* Driven by the FPGA as long as the software's write signal is low, which is a
\* clock less than the chip's; by the chip while it is read; else they keep
\* their charge.
OTG_DATA ==
  IF ports.w = 0 THEN from_sw_data_out_buffer
  ELSE IF pulse # None /\ pulse.op = "read" THEN pulse.data
  ELSE bus

\* The chip at an edge that gives its pins the levels p: an access begins and
\* ends with its pulse; a write takes the data pins at the end, a read shows a
\* word of the chip's own all the time.
Ends(p) == pulse # None /\ ~(IF pulse.op = "read" THEN Reading(p) ELSE Writing(p))
Begins(p) == (pulse = None \/ Ends(p)) /\ (Reading(p) \/ Writing(p))

Pulses(p) ==
  IF ~Begins(p)
  THEN pulse' = IF Ends(p) \/ pulse = None THEN None
                ELSE IF pulse.address = p.ADDR THEN pulse ELSE [pulse EXCEPT !.address = None]
  ELSE IF Reading(p)
  THEN \E word \in Words : pulse' = [op |-> "read", address |-> p.ADDR, data |-> word]
  ELSE pulse' = [op |-> "write", address |-> p.ADDR]

\* What the chip has then finished since the call.
Finished(p) ==
  IF ~Ends(p) THEN done
  ELSE IF done # None THEN [op |-> "twice", address |-> p.ADDR]
  ELSE IF pulse.op = "read" THEN pulse
  ELSE [op |-> "write", address |-> pulse.address, data |-> OTG_DATA]

-----------------------------------------------------------------------------
(* The registers and the program at a clock edge. *)

Registers(Reset) ==
  IF Reset
  THEN /\ from_sw_data_out_buffer' = 0 /\ from_sw_data_in' = 0
       /\ pins' = [ADDR |-> 0, RD_N |-> 1, WR_N |-> 1, CS_N |-> 0, RST_N |-> 0]
  ELSE /\ from_sw_data_out_buffer' = ports.data /\ from_sw_data_in' = OTG_DATA
       /\ pins' = [ADDR |-> ports.address, RD_N |-> ports.r, WR_N |-> ports.w,
                   CS_N |-> ports.cs, RST_N |-> 1]

Think ==
  /\ idle' = IF idle = Gap THEN Gap ELSE idle + 1
  /\ UNCHANGED <<pc, programVars, ports>>

CallIO ==
  /\ pc = 0
  /\ \/ pc' = 27 /\ Address' \in Addresses /\ Data' \in Words
     \/ pc' = 43 /\ Address' \in Addresses /\ Data' = 0
  /\ temp' = 0
  /\ UNCHANGED <<idle, ports>>

AccessPort ==
  /\ pc # 0 /\ idle = Gap
  /\ IF pc = Load THEN temp' = readdata /\ UNCHANGED ports
     ELSE ports' = Store(pc) /\ UNCHANGED temp
  /\ pc' = NextLine(pc)
  /\ idle' = 1
  /\ UNCHANGED <<Address, Data>>

\* An edge; Reset is the registered KEY0.  The processor is not reset by it.
PosEdge(Reset) ==
  /\ Think \/ CallIO \/ AccessPort
  /\ Registers(Reset)
  /\ readdata' = from_sw_data_in
  /\ bus' = OTG_DATA
  /\ Pulses(pins')
  /\ done' = IF pc = 0 THEN None ELSE Finished(pins')
  /\ torn' = (Reset \/ (torn /\ pc # 0))

\* Power-up: every register is 0, so that the pins ask for a read and a write.
Init ==
  /\ pc = 7 /\ Address = 0 /\ Data = 0 /\ temp = 0 /\ idle = 0
  /\ ports = [address |-> 0, data |-> 0, r |-> 0, w |-> 0, cs |-> 0, reset |-> 0]
  /\ from_sw_data_out_buffer = 0 /\ from_sw_data_in = 0 /\ readdata = 0
  /\ pins = [ADDR |-> 0, RD_N |-> 0, WR_N |-> 0, CS_N |-> 0, RST_N |-> 0]
  /\ bus = 0 /\ pulse = None /\ done = None /\ torn = FALSE

Next == \E Reset \in BOOLEAN : PosEdge(Reset)
Spec == Init /\ [][Next]_vars

-----------------------------------------------------------------------------
(* Properties *)

\* The FPGA and the chip never drive the data pins together, from the end of IO_init
\* on: at power-up the registers ask for a read and a write (hpi_io_intf.sv:43).
NoContention == pc \notin DOMAIN IO_init => ~(ports.w = 0 /\ Reading(pins))

\* IO_write and IO_read are single accesses, whatever the pace of the processor
\* (io_handler.c:20-50, hpi_io_intf.sv:17-43).
call ==
  CASE pc \in DOMAIN IO_write -> [op |-> "write", address |-> Address, data |-> Data]
    [] pc \in DOMAIN IO_read \union {Load} -> [op |-> "read", address |-> Address]
    [] OTHER -> None
served == IF call = None THEN None ELSE done
Abstract == INSTANCE HPI WITH torn <- call # None /\ torn
ImplementsHPI == Abstract!Init /\ [][Abstract!Next(temp)]_(Abstract!IOvars)
=============================================================================
