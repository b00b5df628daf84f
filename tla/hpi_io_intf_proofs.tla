------------------------- MODULE hpi_io_intf_proofs -------------------------
(***************************************************************************)
(* Proofs about the host port of lab 8, for every set of addresses and     *)
(* words and every pace of the processor that GapAssumption allows: the    *)
(* data pins are never driven from both sides, and IO_write and IO_read    *)
(* are single accesses of the chip (the refinement of HPI).                *)
(*                                                                         *)
(* The argument follows one store down the port: a statement of            *)
(* io_handler.c changes a port, the pins follow at the next edge, and the  *)
(* chip sees a pulse begin, go on or end at that edge.  The invariant says,*)
(* for each line and the clocks since the last store, what the pins are,   *)
(* which access the chip has open, and what it has finished.  It claims    *)
(* this only while no reset fell into the call: after one the abstraction  *)
(* promises nothing.                                                       *)
(***************************************************************************)
EXTENDS hpi_io_intf, TLAPS

WriteLines == 27..32
ReadLines == 43..48
CallLines == WriteLines \union ReadLines
InitLines == {7, 8, 9, 10, 11, 12, 14, 15, 16, 17}

\* The pins a clock after the ports, and after a reset.
PinsOf == [ADDR |-> ports.address, RD_N |-> ports.r, WR_N |-> ports.w,
           CS_N |-> ports.cs, RST_N |-> 1]
ResetPins == [ADDR |-> 0, RD_N |-> 1, WR_N |-> 1, CS_N |-> 0, RST_N |-> 0]

TypeOK ==
  /\ pc \in {0} \union InitLines \union CallLines
  /\ idle \in 0..Gap
  /\ pc \in CallLines => Address \in Addresses
  /\ pc \in WriteLines => Data \in Words
  /\ pc \in InitLines \/ idle # 0
  /\ torn \in BOOLEAN
  /\ ports = [address |-> ports.address, data |-> ports.data, r |-> ports.r, w |-> ports.w,
              cs |-> ports.cs, reset |-> ports.reset]

\* What the statements before a line have made of the ports.
Levels ==
  /\ pc \notin {7, 8, 9, 45, 46, 47} => ports.r = 1
  /\ pc \in {45, 46, 47} => ports.r = 0
  /\ pc \notin {7, 8, 9, 10, 30, 31} => ports.w = 1
  /\ pc \in {30, 31} => ports.w = 0
  /\ pc \in {0, 27, 28, 43, 44, 45} => ports.cs = 1
  /\ pc \in {29, 30, 31, 32, 46, 47, 48} => ports.cs = 0
  /\ pc \in CallLines \ {27, 43} => ports.address = Address
  /\ pc \in {31, 32} => ports.data = Data

\* The chip is not read from the end of IO_init's first lines to a read's own pulse.
NotRead == pc \in {0, 11, 12, 14, 15, 16, 17} \union WriteLines => pins.RD_N = 1

\* The access the chip has open during a call.
Write == [op |-> "write", address |-> Address]
Read == [op |-> "read", address |-> Address, data |-> pulse.data]

\* The pins before the last store has reached them.
PinsBefore ==
  /\ pins.RST_N = 1
  /\ pins.RD_N = (IF pc \in {46, 47, 48} THEN 0 ELSE 1)
  /\ pins.WR_N = (IF pc \in {31, 32} THEN 0 ELSE 1)
  /\ pins.CS_N = (IF pc \in {30, 31, 32, 47, 48} THEN 0 ELSE 1)
  /\ pc \notin {28, 44} => pins.ADDR = Address

\* A call that no reset falls into.
Undisturbed ==
  /\ pc \in {27, 43} \/ idle >= 2 => pins = PinsOf
  /\ pc \notin {27, 43} /\ idle = 1 => PinsBefore
  /\ pc \in {27, 28, 29, 43, 44, 45} => pulse = None
  /\ pc \in {30, 46} /\ idle = 1 => pulse = None
  /\ pc \notin {32, 48} \/ idle = 1 => done = None
  /\ pc \in {32, 48} /\ idle >= 2 => pulse = None
  /\ (pc = 30 /\ idle >= 2) \/ pc = 31 \/ (pc = 32 /\ idle = 1) => pulse = Write
  /\ pc = 31 /\ idle >= 2 => from_sw_data_out_buffer = Data
  /\ pc = 32 /\ idle = 1 => bus = Data
  /\ pc = 32 /\ idle >= 2 => done = [op |-> "write", address |-> Address, data |-> Data]
  /\ (pc = 46 /\ idle >= 2) \/ pc = 47 \/ (pc = 48 /\ idle = 1) =>
       pulse = Read /\ pulse.data \in Words
  /\ pc = 46 /\ idle >= 3 => from_sw_data_in = pulse.data
  /\ pc = 46 /\ idle >= 4 => readdata = pulse.data
  /\ pc = 47 \/ (pc = 48 /\ idle = 1) => temp = pulse.data
  /\ pc = 48 /\ idle >= 2 => done = [op |-> "read", address |-> Address, data |-> temp] /\ temp \in Words

IInv == TypeOK /\ Levels /\ NotRead /\ (pc \in CallLines /\ ~torn => Undisturbed)

-----------------------------------------------------------------------------
(* The statements and the chip *)

\* What each line stores, spelled out.
LEMMA Stores ==
  /\ Store(7) = [ports EXCEPT !.reset = 1] /\ Store(8) = [ports EXCEPT !.cs = 1]
  /\ Store(9) = [ports EXCEPT !.r = 1] /\ Store(10) = [ports EXCEPT !.w = 1]
  /\ Store(11) = [ports EXCEPT !.address = 0] /\ Store(12) = [ports EXCEPT !.data = 0]
  /\ Store(14) = [ports EXCEPT !.cs = 0] /\ Store(15) = [ports EXCEPT !.reset = 0]
  /\ Store(16) = [ports EXCEPT !.reset = 1] /\ Store(17) = [ports EXCEPT !.cs = 1]
  /\ Store(27) = [ports EXCEPT !.address = Address] /\ Store(28) = [ports EXCEPT !.cs = 0]
  /\ Store(29) = [ports EXCEPT !.w = 0] /\ Store(30) = [ports EXCEPT !.data = Data]
  /\ Store(31) = [ports EXCEPT !.w = 1] /\ Store(32) = [ports EXCEPT !.cs = 1]
  /\ Store(43) = [ports EXCEPT !.address = Address] /\ Store(44) = [ports EXCEPT !.r = 0]
  /\ Store(45) = [ports EXCEPT !.cs = 0] /\ Store(47) = [ports EXCEPT !.r = 1]
  /\ Store(48) = [ports EXCEPT !.cs = 1]
<1>1. /\ DOMAIN IO_init = InitLines /\ DOMAIN IO_write = WriteLines
      /\ DOMAIN IO_read = {43, 44, 45, 47, 48}
  BY DEF IO_init, IO_write, IO_read, InitLines, WriteLines
<1>2. /\ IO_init[7] = <<"reset", 1>> /\ IO_init[8] = <<"cs", 1>> /\ IO_init[9] = <<"r", 1>>
      /\ IO_init[10] = <<"w", 1>> /\ IO_init[11] = <<"address", 0>>
  BY DEF IO_init
<1>3. /\ IO_init[12] = <<"data", 0>> /\ IO_init[14] = <<"cs", 0>> /\ IO_init[15] = <<"reset", 0>>
      /\ IO_init[16] = <<"reset", 1>> /\ IO_init[17] = <<"cs", 1>>
  BY DEF IO_init
<1>4. /\ IO_write[27] = <<"address", Address>> /\ IO_write[28] = <<"cs", 0>>
      /\ IO_write[29] = <<"w", 0>> /\ IO_write[30] = <<"data", Data>>
      /\ IO_write[31] = <<"w", 1>> /\ IO_write[32] = <<"cs", 1>>
  BY DEF IO_write
<1>5. /\ IO_read[43] = <<"address", Address>> /\ IO_read[44] = <<"r", 0>>
      /\ IO_read[45] = <<"cs", 0>> /\ IO_read[47] = <<"r", 1>> /\ IO_read[48] = <<"cs", 1>>
  BY DEF IO_read
<1>6. ASSUME NEW l \in InitLines PROVE Store(l) = [ports EXCEPT ![IO_init[l][1]] = IO_init[l][2]]
  <2>1. IO_init[l] = CASE l \in DOMAIN IO_init -> IO_init[l]
                 [] l \in DOMAIN IO_write -> IO_write[l]
                 [] OTHER -> IO_read[l]
    BY <1>1 DEF InitLines, WriteLines
  <2>. QED
    BY <2>1, Zenon DEF Store
<1>7. ASSUME NEW l \in WriteLines PROVE Store(l) = [ports EXCEPT ![IO_write[l][1]] = IO_write[l][2]]
  <2>1. IO_write[l] = CASE l \in DOMAIN IO_init -> IO_init[l]
                 [] l \in DOMAIN IO_write -> IO_write[l]
                 [] OTHER -> IO_read[l]
    BY <1>1 DEF InitLines, WriteLines
  <2>. QED
    BY <2>1, Zenon DEF Store
<1>8. ASSUME NEW l \in {43, 44, 45, 47, 48} PROVE Store(l) = [ports EXCEPT ![IO_read[l][1]] = IO_read[l][2]]
  <2>1. IO_read[l] = CASE l \in DOMAIN IO_init -> IO_init[l]
                 [] l \in DOMAIN IO_write -> IO_write[l]
                 [] OTHER -> IO_read[l]
    BY <1>1 DEF InitLines, WriteLines
  <2>. QED
    BY <2>1, Zenon DEF Store
<1>9. /\ Store(7) = [ports EXCEPT !.reset = 1] /\ Store(8) = [ports EXCEPT !.cs = 1]
      /\ Store(9) = [ports EXCEPT !.r = 1] /\ Store(10) = [ports EXCEPT !.w = 1]
      /\ Store(11) = [ports EXCEPT !.address = 0]
  BY <1>2, <1>6 DEF InitLines
<1>10. /\ Store(12) = [ports EXCEPT !.data = 0] /\ Store(14) = [ports EXCEPT !.cs = 0]
       /\ Store(15) = [ports EXCEPT !.reset = 0] /\ Store(16) = [ports EXCEPT !.reset = 1]
       /\ Store(17) = [ports EXCEPT !.cs = 1]
  BY <1>3, <1>6 DEF InitLines
<1>11. /\ Store(27) = [ports EXCEPT !.address = Address] /\ Store(28) = [ports EXCEPT !.cs = 0]
       /\ Store(29) = [ports EXCEPT !.w = 0] /\ Store(30) = [ports EXCEPT !.data = Data]
       /\ Store(31) = [ports EXCEPT !.w = 1] /\ Store(32) = [ports EXCEPT !.cs = 1]
  BY <1>4, <1>7 DEF WriteLines
<1>12. /\ Store(43) = [ports EXCEPT !.address = Address] /\ Store(44) = [ports EXCEPT !.r = 0]
       /\ Store(45) = [ports EXCEPT !.cs = 0] /\ Store(47) = [ports EXCEPT !.r = 1]
       /\ Store(48) = [ports EXCEPT !.cs = 1]
  BY <1>5, <1>8
<1>. QED
  BY <1>9, <1>10, <1>11, <1>12

\* The chip at an edge: no access; one begins; it goes on; it ends.
LEMMA PulseIdle ==
  ASSUME NEW p, Pulses(p), pulse = None, ~Reading(p), ~Writing(p)
  PROVE  pulse' = None /\ Finished(p) = done
BY DEF Pulses, Begins, Ends, Finished

LEMMA PulseBegins ==
  ASSUME NEW p, Pulses(p), pulse = None
  PROVE  /\ Finished(p) = done
         /\ Writing(p) /\ ~Reading(p) => pulse' = [op |-> "write", address |-> p.ADDR]
         /\ Reading(p) => \E word \in Words :
                            pulse' = [op |-> "read", address |-> p.ADDR, data |-> word]
BY DEF Pulses, Begins, Ends, Finished

LEMMA PulseGoesOn ==
  ASSUME NEW p, Pulses(p), pulse # None, pulse.address = p.ADDR,
         IF pulse.op = "read" THEN Reading(p) ELSE Writing(p)
  PROVE  pulse' = pulse /\ Finished(p) = done
BY DEF Pulses, Begins, Ends, Finished

LEMMA PulseEnds ==
  ASSUME NEW p, Pulses(p), pulse # None, done = None, ~Reading(p), ~Writing(p)
  PROVE  /\ pulse' = None
         /\ Finished(p) = IF pulse.op = "read" THEN pulse
                          ELSE [op |-> "write", address |-> pulse.address, data |-> OTG_DATA]
BY DEF Pulses, Begins, Ends, Finished

\* The accesses of a call are not None.
LEMMA Pulse ==
  ASSUME Address \in Addresses
  PROVE  /\ pulse = Write => pulse # None /\ pulse.op = "write" /\ pulse.address = Address
         /\ pulse = Read /\ pulse.data \in Words =>
              pulse # None /\ pulse.op = "read" /\ pulse.address = Address
<1>1. Write # None
  BY NoneAssumption DEF Write
<1>2. ASSUME pulse.data \in Words PROVE Read # None
  BY <1>2, NoneAssumption DEF Read
<1>3. Write.op = "write" /\ Write.address = Address /\ Read.op = "read" /\ Read.address = Address
  BY DEF Write, Read
<1>. QED
  BY <1>1, <1>2, <1>3

-----------------------------------------------------------------------------
(* The invariant *)

\* The pace of the processor.
LEMMA GapIs == Gap \in Nat /\ Gap >= 4
BY GapAssumption

\* Power-up is before every call.
LEMMA InitIInv == Init => IInv
<1>. SUFFICES ASSUME Init PROVE IInv
  OBVIOUS
<1>1. TypeOK
  <2>1. pc \in InitLines /\ pc \notin CallLines /\ idle \in 0..Gap
    BY GapIs DEF Init, InitLines, CallLines, WriteLines, ReadLines
  <2>2. torn \in BOOLEAN
    BY DEF Init
  <2>3. ports = [address |-> ports.address, data |-> ports.data, r |-> ports.r, w |-> ports.w,
                 cs |-> ports.cs, reset |-> ports.reset]
    BY DEF Init
  <2>. QED
    BY <2>1, <2>2, <2>3 DEF TypeOK, CallLines
<1>2. Levels /\ NotRead
  BY DEF Init, Levels, NotRead, CallLines, WriteLines, ReadLines
<1>3. pc \notin CallLines
  BY DEF Init, CallLines, WriteLines, ReadLines
<1>. QED
  BY <1>1, <1>2, <1>3 DEF IInv

\* The program's part of an edge.
Program == Think \/ CallIO \/ AccessPort

\* A statement keeps the levels that the next one starts from.
LEMMA NextTypes ==
  ASSUME TypeOK, Levels, Program, torn' \in BOOLEAN
  PROVE  TypeOK' /\ Levels'
<1>1. CASE Think
  BY <1>1, GapIs DEF Think, programVars, TypeOK, Levels
<1>2. CASE CallIO
  BY <1>2, GapIs DEF CallIO, TypeOK, Levels, InitLines, CallLines, WriteLines, ReadLines
<1>3. CASE AccessPort
  <2>1. pc \in InitLines \union CallLines
    BY <1>3 DEF AccessPort, TypeOK
  <2>2. pc' = NextLine(pc) /\ idle' = 1 /\ UNCHANGED <<Address, Data>> /\ torn' \in BOOLEAN
    BY <1>3 DEF AccessPort
  <2>3. pc = 46 => ports' = ports
    BY <1>3 DEF AccessPort, Load
  <2>4. pc # 46 => ports' = Store(pc)
    BY <1>3 DEF AccessPort, Load
  <2>5. TypeOK'
    <3>1. pc' \in {0} \union InitLines \union CallLines
      BY <2>1, <2>2 DEF NextLine, InitLines, CallLines, WriteLines, ReadLines
    <3>2. /\ pc' \in CallLines => pc \in CallLines
          /\ pc' \in WriteLines => pc \in WriteLines
      BY <2>1, <2>2 DEF NextLine, InitLines, CallLines, WriteLines, ReadLines
    <3>3. ports' = [address |-> ports'.address, data |-> ports'.data, r |-> ports'.r,
                    w |-> ports'.w, cs |-> ports'.cs, reset |-> ports'.reset]
      BY <2>1, <2>3, <2>4, Stores DEF InitLines, CallLines, WriteLines, ReadLines, TypeOK
    <3>. QED
      BY <2>2, <3>1, <3>2, <3>3, GapIs DEF TypeOK
  <2>6. Levels'
    BY <2>1, <2>2, <2>3, <2>4, Stores
    DEF Levels, NextLine, InitLines, CallLines, WriteLines, ReadLines, TypeOK
  <2>. QED
    BY <2>5, <2>6
<1>. QED
  BY <1>1, <1>2, <1>3 DEF Program

\* Pins that ask for nothing leave no access open.
LEMMA PulseOff ==
  ASSUME NEW p, Pulses(p), ~Reading(p), ~Writing(p)
  PROVE  pulse' = None
BY DEF Pulses, Begins, Ends

\* The read pin is high whenever no read is under way, reset or not.
LEMMA NextNotRead ==
  ASSUME TypeOK, Levels, Program, NEW Reset \in BOOLEAN, Registers(Reset)
  PROVE  NotRead'
<1>1. CASE Reset
  BY <1>1 DEF Registers, NotRead
<1>2. CASE ~Reset
  <2>1. pins'.RD_N = ports.r
    BY <1>2 DEF Registers
  <2>2. CASE Think
    BY <2>1, <2>2 DEF Think, Levels, NotRead, WriteLines
  <2>3. CASE CallIO
    BY <2>1, <2>3 DEF CallIO, Levels, NotRead
  <2>4. CASE AccessPort
    <3>1. pc \in InitLines \union CallLines /\ pc' = NextLine(pc)
      BY <2>4 DEF AccessPort, TypeOK
    <3>. QED
      BY <2>1, <3>1
      DEF NextLine, Levels, NotRead, InitLines, CallLines, WriteLines, ReadLines
  <2>. QED
    BY <2>2, <2>3, <2>4 DEF Program
<1>. QED
  BY <1>1, <1>2

\* The clock of an edge without a reset.
Clock ==
  /\ from_sw_data_out_buffer' = ports.data /\ from_sw_data_in' = OTG_DATA
  /\ pins' = PinsOf /\ readdata' = from_sw_data_in /\ bus' = OTG_DATA
  /\ Pulses(pins')
  /\ done' = IF pc = 0 THEN None ELSE Finished(pins')

\* What the clock makes of the access in progress.
LEMMA ChipStep ==
  ASSUME TypeOK, Levels, pc \in CallLines, Undisturbed, Clock
  PROVE  /\ pc \in {27, 28, 29, 43, 44, 45} => pulse' = None /\ done' = None
         /\ pc = 30 /\ idle = 1 => pulse' = Write /\ done' = None
         /\ (pc = 30 /\ idle >= 2) \/ pc = 31 => pulse' = Write /\ done' = None
         /\ pc = 46 /\ idle = 1 =>
              done' = None /\ \E word \in Words :
                pulse' = [op |-> "read", address |-> Address, data |-> word]
         /\ (pc = 46 /\ idle >= 2) \/ pc = 47 =>
              pulse' = pulse /\ done' = None /\ OTG_DATA = pulse.data
         /\ pc = 32 /\ idle = 1 =>
              pulse' = None /\ done' = [op |-> "write", address |-> Address, data |-> Data]
         /\ pc = 48 /\ idle = 1 => pulse' = None /\ done' = Read /\ temp = pulse.data
         /\ pc \in {32, 48} /\ idle >= 2 => pulse' = None /\ done' = done
<1>1. pins'.RST_N = 1 /\ pins'.CS_N = ports.cs /\ pins'.RD_N = ports.r /\ pins'.WR_N = ports.w
      /\ pins'.ADDR = ports.address
  BY DEF Clock, PinsOf
<1>2. /\ pc \in {27, 28, 29, 32, 43, 44, 45, 48} => ~Reading(pins') /\ ~Writing(pins')
      /\ pc \in {30, 31} => Writing(pins') /\ ~Reading(pins') /\ pins'.ADDR = Address
      /\ pc \in {46, 47} => Reading(pins') /\ pins'.ADDR = Address
  BY <1>1 DEF Reading, Writing, Levels, CallLines, WriteLines, ReadLines
<1>3. Pulses(pins') /\ done' = Finished(pins') /\ Address \in Addresses
  BY DEF Clock, CallLines, WriteLines, ReadLines, TypeOK
<1>4. pc \in {27, 28, 29, 43, 44, 45} => pulse' = None /\ done' = None
  BY <1>2, <1>3, PulseIdle DEF Undisturbed
<1>5. pc = 30 /\ idle = 1 => pulse' = Write /\ done' = None
  BY <1>2, <1>3, PulseBegins DEF Undisturbed, Write
<1>6. (pc = 30 /\ idle >= 2) \/ pc = 31 => pulse' = Write /\ done' = None
  <2>1. HAVE (pc = 30 /\ idle >= 2) \/ pc = 31
  <2>2. pulse = Write /\ done = None
    BY <2>1 DEF Undisturbed
  <2>3. pulse # None /\ pulse.op = "write" /\ pulse.address = Address
    BY <1>3, <2>2, Pulse
  <2>. QED
    BY <1>2, <1>3, <2>1, <2>2, <2>3, PulseGoesOn
<1>7. pc = 46 /\ idle = 1 =>
        done' = None /\ \E word \in Words :
          pulse' = [op |-> "read", address |-> Address, data |-> word]
  BY <1>2, <1>3, PulseBegins DEF Undisturbed
<1>8. (pc = 46 /\ idle >= 2) \/ pc = 47 =>
        pulse' = pulse /\ done' = None /\ OTG_DATA = pulse.data
  <2>1. HAVE (pc = 46 /\ idle >= 2) \/ pc = 47
  <2>2. pulse = Read /\ pulse.data \in Words /\ done = None
    BY <2>1 DEF Undisturbed
  <2>3. pulse # None /\ pulse.op = "read" /\ pulse.address = Address
    BY <1>3, <2>2, Pulse
  <2>4. ports.w = 1
    BY <2>1 DEF Levels
  <2>5. OTG_DATA = pulse.data
    BY <2>3, <2>4 DEF OTG_DATA
  <2>. QED
    BY <1>2, <1>3, <2>1, <2>2, <2>3, <2>5, PulseGoesOn
<1>9. pc = 32 /\ idle = 1 =>
        pulse' = None /\ done' = [op |-> "write", address |-> Address, data |-> Data]
  <2>1. HAVE pc = 32 /\ idle = 1
  <2>2. pulse = Write /\ done = None /\ bus = Data
    BY <2>1 DEF Undisturbed
  <2>3. pulse # None /\ pulse.op = "write" /\ pulse.address = Address
    BY <1>3, <2>2, Pulse
  <2>4. ports.w = 1
    BY <2>1 DEF Levels
  <2>5. OTG_DATA = Data
    BY <2>2, <2>3, <2>4 DEF OTG_DATA
  <2>. QED
    BY <1>2, <1>3, <2>1, <2>2, <2>3, <2>5, PulseEnds
<1>10. pc = 48 /\ idle = 1 => pulse' = None /\ done' = Read /\ temp = pulse.data
  <2>1. HAVE pc = 48 /\ idle = 1
  <2>2. pulse = Read /\ pulse.data \in Words /\ done = None /\ temp = pulse.data
    BY <2>1 DEF Undisturbed
  <2>3. pulse # None /\ pulse.op = "read"
    BY <1>3, <2>2, Pulse
  <2>. QED
    BY <1>2, <1>3, <2>1, <2>2, <2>3, PulseEnds
<1>11. pc \in {32, 48} /\ idle >= 2 => pulse' = None /\ done' = done
  BY <1>2, <1>3, PulseIdle DEF Undisturbed
<1>. QED
  BY <1>4, <1>5, <1>6, <1>7, <1>8, <1>9, <1>10, <1>11

\* A call starts from quiet pins and no open access.
LEMMA CallBegins ==
  ASSUME TypeOK, Levels, CallIO, Clock
  PROVE  Undisturbed'
<1>1. /\ pc = 0 /\ pc' \in {27, 43} /\ ports' = ports
      /\ ports.r = 1 /\ ports.w = 1 /\ ports.cs = 1
  BY DEF CallIO, Levels
<1>2. pins' = PinsOf /\ PinsOf' = PinsOf
  BY <1>1 DEF Clock, PinsOf
<1>3. ~Reading(pins') /\ ~Writing(pins')
  BY <1>1, <1>2 DEF Reading, Writing, PinsOf
<1>4. pulse' = None /\ done' = None
  BY <1>1, <1>3, PulseOff DEF Clock
<1>. QED
  BY <1>1, <1>2, <1>4 DEF Undisturbed

\* A clock between two statements of a call.
LEMMA CallWaits ==
  ASSUME TypeOK, Levels, pc \in CallLines, Undisturbed, Clock, Think
  PROVE  Undisturbed'
<1>1. /\ UNCHANGED <<pc, Address, Data, temp, ports>>
      /\ idle' = IF idle = Gap THEN Gap ELSE idle + 1
  BY DEF Think, programVars
<1>2. idle \in 0..Gap /\ idle >= 1 /\ idle' >= 2 /\ Gap >= 4
      /\ (idle' >= 3 => idle >= 2) /\ (idle' >= 4 => idle >= 3)
  BY <1>1, GapIs DEF TypeOK, CallLines, WriteLines, ReadLines, InitLines
<1>3. pins' = PinsOf'
  BY <1>1 DEF Clock, PinsOf
<1>4. Write' = Write /\ Read' = [op |-> "read", address |-> Address, data |-> pulse'.data]
  BY <1>1 DEF Write, Read
<1>5. CASE pc \in {27, 28, 29, 43, 44, 45}
  BY <1>1, <1>2, <1>3, <1>5, ChipStep DEF Undisturbed
<1>6. CASE pc \in {30, 31}
  <2>1. pulse' = Write /\ done' = None
    BY <1>2, <1>6, ChipStep
  <2>2. pc = 31 => from_sw_data_out_buffer' = Data
    BY DEF Clock, Levels
  <2>. QED
    BY <1>1, <1>2, <1>3, <1>4, <1>6, <2>1, <2>2 DEF Undisturbed
<1>7. CASE pc = 32
  <2>1. pulse' = None /\ done' = [op |-> "write", address |-> Address, data |-> Data]
    BY <1>2, <1>7, ChipStep DEF Undisturbed
  <2>. QED
    BY <1>1, <1>2, <1>3, <1>7, <2>1 DEF Undisturbed
<1>8. CASE pc \in {46, 47}
  <2>1. done' = None /\ pulse' = Read' /\ pulse'.data \in Words
    <3>1. CASE pc = 46 /\ idle = 1
      <4>1. PICK word \in Words :
              pulse' = [op |-> "read", address |-> Address, data |-> word]
        BY <3>1, ChipStep
      <4>2. pulse'.data = word
        BY <4>1
      <4>. QED
        BY <1>4, <3>1, <4>1, <4>2, ChipStep
    <3>2. CASE (pc = 46 /\ idle >= 2) \/ pc = 47
      <4>1. pulse' = pulse /\ done' = None
        BY <3>2, ChipStep
      <4>2. pulse = Read /\ pulse.data \in Words
        BY <3>2 DEF Undisturbed
      <4>. QED
        BY <1>4, <4>1, <4>2 DEF Read
    <3>. QED
      BY <1>2, <1>8, <3>1, <3>2
  <2>2. pc = 46 /\ idle' >= 3 => from_sw_data_in' = pulse'.data
    BY <1>2, ChipStep DEF Clock
  <2>3. pc = 46 /\ idle' >= 4 => readdata' = pulse'.data
    BY <1>2, ChipStep DEF Clock, Undisturbed
  <2>4. pc = 47 => temp' = pulse'.data
    BY <1>1, ChipStep DEF Undisturbed
  <2>. QED
    BY <1>1, <1>2, <1>3, <1>8, <2>1, <2>2, <2>3, <2>4 DEF Undisturbed
<1>9. CASE pc = 48
  <2>1. pulse' = None
    BY <1>2, <1>9, ChipStep
  <2>2. done' = [op |-> "read", address |-> Address, data |-> temp] /\ temp \in Words
    <3>1. CASE idle = 1
      <4>1. done' = Read /\ temp = pulse.data /\ pulse.data \in Words
        BY <1>9, <3>1, ChipStep DEF Undisturbed
      <4>. QED
        BY <4>1 DEF Read
    <3>2. CASE idle >= 2
      BY <1>9, <3>2, ChipStep DEF Undisturbed
    <3>. QED
      BY <1>2, <3>1, <3>2
  <2>. QED
    BY <1>1, <1>2, <1>3, <1>9, <2>1, <2>2 DEF Undisturbed
<1>. QED
  BY <1>5, <1>6, <1>7, <1>8, <1>9 DEF CallLines, WriteLines, ReadLines

\* A statement of a call but its last.
LEMMA CallAdvances ==
  ASSUME TypeOK, Levels, pc \in CallLines, Undisturbed, Clock, AccessPort, pc' \in CallLines
  PROVE  Undisturbed'
<1>1. pc \in {27, 28, 29, 30, 31, 43, 44, 45, 46, 47} /\ pc' = pc + 1
  BY DEF AccessPort, NextLine, CallLines, WriteLines, ReadLines
<1>2. idle >= 2 /\ idle >= 4 /\ idle' = 1 /\ UNCHANGED <<Address, Data>>
  BY GapIs DEF AccessPort
<1>3. pins' = PinsOf
  BY DEF Clock
<1>4. PinsBefore'
  <2>1. pins'.RST_N = 1 /\ pins'.RD_N = ports.r /\ pins'.WR_N = ports.w
        /\ pins'.CS_N = ports.cs /\ pins'.ADDR = ports.address
    BY <1>3 DEF PinsOf
  <2>. QED
    BY <1>1, <1>2, <2>1 DEF PinsBefore, Levels, CallLines, WriteLines, ReadLines
<1>5. Write' = Write /\ Read' = [op |-> "read", address |-> Address, data |-> pulse'.data]
  BY <1>2 DEF Write, Read
<1>6. CASE pc \in {27, 28, 29, 43, 44, 45}
  BY <1>1, <1>2, <1>4, <1>6, ChipStep DEF Undisturbed
<1>7. CASE pc \in {30, 31}
  <2>1. pulse' = Write /\ done' = None
    BY <1>2, <1>7, ChipStep
  <2>2. pc = 31 => bus' = Data
    BY <1>2 DEF Clock, OTG_DATA, Levels, Undisturbed
  <2>. QED
    BY <1>1, <1>2, <1>4, <1>5, <1>7, <2>1, <2>2 DEF Undisturbed
<1>8. CASE pc \in {46, 47}
  <2>1. pulse' = pulse /\ done' = None
    BY <1>2, <1>8, ChipStep
  <2>2. pulse = Read /\ pulse.data \in Words
    BY <1>2, <1>8 DEF Undisturbed
  <2>3. pulse' = Read' /\ pulse'.data \in Words
    BY <1>5, <2>1, <2>2 DEF Read
  <2>4. temp' = pulse'.data
    <3>1. pc = 46 => temp' = readdata
      BY DEF AccessPort, Load
    <3>2. pc = 47 => temp' = temp
      BY DEF AccessPort, Load
    <3>. QED
      BY <1>2, <1>8, <2>1, <3>1, <3>2 DEF Undisturbed
  <2>. QED
    BY <1>1, <1>2, <1>4, <1>8, <2>1, <2>3, <2>4 DEF Undisturbed
<1>. QED
  BY <1>1, <1>6, <1>7, <1>8

\* Without a reset a call stays undisturbed.
LEMMA NextUndisturbed ==
  ASSUME IInv, NEW Reset \in BOOLEAN, PosEdge(Reset), pc' \in CallLines, ~torn'
  PROVE  Undisturbed'
<1>1. ~Reset /\ (pc = 0 \/ ~torn)
  BY DEF PosEdge
<1>2. Clock
  BY <1>1 DEF Clock, PosEdge, Registers, PinsOf
<1>3. TypeOK /\ Levels /\ (pc \in CallLines /\ ~torn => Undisturbed)
  BY DEF IInv
<1>4. CASE CallIO
  BY <1>2, <1>3, <1>4, CallBegins
<1>5. CASE Think \/ AccessPort
  <2>1. pc # 0
    BY <1>5 DEF Think, AccessPort, CallLines, WriteLines, ReadLines
  <2>2. pc \in CallLines
    BY <1>3, <1>5, <2>1
    DEF TypeOK, Think, AccessPort, NextLine, InitLines, CallLines, WriteLines, ReadLines
  <2>3. Undisturbed
    BY <1>1, <1>3, <2>1, <2>2
  <2>. QED
    BY <1>2, <1>3, <1>5, <2>2, <2>3, CallWaits, CallAdvances
<1>. QED
  BY <1>4, <1>5 DEF PosEdge

\* The invariant is inductive.
LEMMA NextIInv == IInv /\ [Next]_vars => IInv'
<1>. SUFFICES ASSUME IInv, [Next]_vars PROVE IInv'
  OBVIOUS
<1>1. CASE Next
  <2>1. PICK Reset \in BOOLEAN : PosEdge(Reset)
    BY <1>1 DEF Next
  <2>2. torn' \in BOOLEAN
    BY <2>1, Zenon DEF PosEdge, IInv, TypeOK
  <2>3. TypeOK /\ Levels /\ Program /\ Registers(Reset)
    BY <2>1 DEF IInv, PosEdge, Program
  <2>4. TypeOK' /\ Levels' /\ NotRead'
    BY <2>2, <2>3, NextTypes, NextNotRead
  <2>. QED
    BY <2>1, <2>4, NextUndisturbed DEF IInv
<1>2. CASE UNCHANGED vars
  BY <1>2 DEF vars, programVars, IInv, TypeOK, Levels, NotRead, Undisturbed, PinsBefore, PinsOf,
              Write, Read
<1>. QED
  BY <1>1, <1>2

\* The inductive invariant holds at every clock.
THEOREM Invariant == Spec => []IInv
BY InitIInv, NextIInv, PTL DEF Spec

\* The FPGA and the chip never drive the data pins together (hpi_io_intf.sv:43).
THEOREM NoContentionHolds == Spec => []NoContention
<1>1. IInv => NoContention
  <2>. SUFFICES ASSUME IInv, pc \notin DOMAIN IO_init, ports.w = 0
       PROVE  ~Reading(pins)
    BY DEF NoContention
  <2>1. pc \in {30, 31}
    BY DEF IInv, Levels, IO_init
  <2>. QED
    BY <2>1 DEF IInv, NotRead, Reading, WriteLines
<1>. QED
  BY <1>1, Invariant, PTL

-----------------------------------------------------------------------------
(* The refinement *)

\* The access asked for, by the line the program is at.
LEMMA CallIs ==
  /\ pc \in WriteLines => call = [op |-> "write", address |-> Address, data |-> Data]
  /\ pc \in ReadLines => call = [op |-> "read", address |-> Address]
  /\ pc \notin CallLines => call = None
<1>1. DOMAIN IO_write = WriteLines /\ DOMAIN IO_read \union {Load} = ReadLines
      /\ WriteLines \cap ReadLines = {}
  BY DEF IO_write, IO_read, Load, WriteLines, ReadLines
<1>2. pc \in WriteLines => call = [op |-> "write", address |-> Address, data |-> Data]
  BY <1>1, Zenon DEF call
<1>3. pc \in ReadLines => call = [op |-> "read", address |-> Address]
  BY <1>1, Zenon DEF call
<1>4. pc \notin CallLines => call = None
  BY <1>1, Zenon DEF call, CallLines
<1>. QED
  BY <1>2, <1>3, <1>4

\* A call is in progress exactly on the lines of the two functions.
LEMMA Known == TypeOK => (call # None <=> pc \in CallLines) /\ (call # None => call \in Abstract!Calls)
<1>. SUFFICES ASSUME TypeOK
     PROVE  (call # None <=> pc \in CallLines) /\ (call # None => call \in Abstract!Calls)
  OBVIOUS
<1>1. CASE pc \in WriteLines
  BY <1>1, CallIs, NoneAssumption DEF TypeOK, CallLines, Abstract!Calls
<1>2. CASE pc \in ReadLines
  BY <1>2, CallIs, NoneAssumption DEF TypeOK, CallLines, Abstract!Calls
<1>3. CASE pc \notin CallLines
  BY <1>3, CallIs
<1>. QED
  BY <1>1, <1>2, <1>3 DEF CallLines

\* The arguments stay through a call.
LEMMA Kept ==
  ASSUME TypeOK, pc \in CallLines, Program, pc' \in CallLines
  PROVE  call' = call
<1>1. /\ UNCHANGED <<Address, Data>>
      /\ pc \in WriteLines => pc' \in WriteLines
      /\ pc \in ReadLines => pc' \in ReadLines
  BY DEF Program, Think, CallIO, AccessPort, NextLine, programVars, CallLines, WriteLines,
         ReadLines
<1>2. CallIs'
  BY CallIs, PTL
<1>. QED
  BY <1>1, <1>2, CallIs DEF CallLines

\* The last store of an undisturbed call finds the access done.
LEMMA Answered ==
  ASSUME TypeOK, pc \in {32, 48}, NEW s,
         pc = 32 => s = [op |-> "write", address |-> Address, data |-> Data],
         pc = 48 => s = [op |-> "read", address |-> Address, data |-> temp] /\ temp \in Words
  PROVE  Abstract!Answers(s, call) /\ (call.op = "read" => s.data = temp)
<1>1. s # None
  BY NoneAssumption DEF TypeOK, CallLines, WriteLines, ReadLines
<1>2. /\ pc = 32 => call = [op |-> "write", address |-> Address, data |-> Data]
      /\ pc = 48 => call = [op |-> "read", address |-> Address]
  BY CallIs DEF WriteLines, ReadLines
<1>. QED
  BY <1>1, <1>2 DEF Abstract!Answers

\* An edge inside a call serves it, tears it, or changes nothing the caller sees.
LEMMA InCall ==
  ASSUME IInv, NEW Reset \in BOOLEAN, PosEdge(Reset), pc \in CallLines, pc' \in CallLines
  PROVE  Abstract!Tear \/ Abstract!Serve \/ UNCHANGED <<call, served, torn>>
<1>1. TypeOK /\ Levels /\ Program /\ pc # 0
  BY DEF IInv, PosEdge, Program, CallLines, WriteLines, ReadLines
<1>2. TypeOK'
  BY NextIInv DEF IInv, Next
<1>3. call' = call /\ call # None
  BY <1>1, Kept, Known
<1>4. CASE torn'
  BY <1>3, <1>4 DEF Abstract!Tear
<1>5. CASE ~torn'
  <2>1. ~Reset /\ ~torn
    BY <1>1, <1>5 DEF PosEdge
  <2>2. Clock
    BY <2>1 DEF PosEdge, Clock, Registers, PinsOf
  <2>3. Undisturbed
    BY <2>1 DEF IInv
  <2>4. served = done /\ served' = done'
    BY <1>3 DEF served
  <2>5. torn' = torn
    BY <1>1, <1>2, <1>5, <2>1, Zenon DEF TypeOK
  <2>6. idle >= 1 /\ idle \in Nat
    BY <1>1, GapIs DEF TypeOK, CallLines, WriteLines, ReadLines, InitLines
  <2>7. CASE pc \in {32, 48} /\ idle = 1
    <3>1. done = None
      BY <2>3, <2>7 DEF Undisturbed
    <3>2. /\ pc = 32 => done' = [op |-> "write", address |-> Address, data |-> Data]
          /\ pc = 48 => done' = [op |-> "read", address |-> Address, data |-> temp]
                        /\ temp \in Words
      <4>1. pc = 48 => Read = [op |-> "read", address |-> Address, data |-> temp]
                       /\ temp \in Words
        BY <2>3, <2>7 DEF Undisturbed, Read
      <4>. QED
        BY <1>1, <2>2, <2>3, <2>7, <4>1, ChipStep
    <3>3. Abstract!Answers(done', call)
      BY <1>1, <2>7, <3>2, Answered
    <3>4. Abstract!Serve
      BY <1>3, <2>1, <2>4, <2>5, <3>1, <3>3, Zenon DEF Abstract!Serve
    <3>. QED
      BY <3>4
  <2>8. CASE ~(pc \in {32, 48} /\ idle = 1)
    <3>1. done' = done
      <4>1. CASE pc \in {32, 48}
        BY <1>1, <2>2, <2>3, <2>6, <2>8, <4>1, ChipStep
      <4>2. CASE pc \notin {32, 48}
        <5>1. done = None
          BY <2>3, <4>2 DEF Undisturbed
        <5>2. pc \in {27, 28, 29, 30, 31, 43, 44, 45, 46, 47} /\ (idle = 1 \/ idle >= 2)
          BY <2>6, <4>2 DEF CallLines, WriteLines, ReadLines
        <5>. QED
          BY <1>1, <2>2, <2>3, <5>1, <5>2, ChipStep
      <4>. QED
        BY <4>1, <4>2
    <3>. QED
      BY <1>3, <2>4, <2>5, <3>1
  <2>. QED
    BY <2>7, <2>8
<1>. QED
  BY <1>4, <1>5

\* The last store returns what the chip did.
LEMMA CallEnds ==
  ASSUME IInv, NEW Reset \in BOOLEAN, PosEdge(Reset), pc \in CallLines, pc' \notin CallLines
  PROVE  Abstract!Return(temp)
<1>1. TypeOK
  BY DEF IInv
<1>2. pc \in {32, 48} /\ idle >= 2
  BY GapIs DEF PosEdge, Think, CallIO, AccessPort, NextLine, CallLines, WriteLines, ReadLines
<1>3. TypeOK'
  BY NextIInv DEF IInv, Next
<1>4. call # None /\ call' = None
  <2>1. Known'
    BY Known, PTL
  <2>. QED
    BY <1>1, <1>3, <2>1, Known
<1>5. served = done /\ served' = None
  BY <1>4 DEF served
<1>6. ~torn => Abstract!Answers(done, call) /\ (call.op = "read" => done.data = temp)
  <2>1. HAVE ~torn
  <2>2. Undisturbed
    BY <2>1 DEF IInv
  <2>3. /\ pc = 32 => done = [op |-> "write", address |-> Address, data |-> Data]
        /\ pc = 48 => done = [op |-> "read", address |-> Address, data |-> temp]
                      /\ temp \in Words
    BY <1>2, <2>2 DEF Undisturbed
  <2>. QED
    BY <1>1, <1>2, <2>3, Answered
<1>. QED
  BY <1>4, <1>5, <1>6, Zenon DEF Abstract!Return

\* IO_write and IO_read are one access of the chip each, with the address and the
\* data of the call, unless a reset falls into it (io_handler.c:20-50).
THEOREM HPIRefinement == Spec => ImplementsHPI
<1>1. Init => Abstract!Init
  <2>. SUFFICES ASSUME Init PROVE Abstract!Init
    OBVIOUS
  <2>1. call = None
    BY CallIs DEF Init, CallLines, WriteLines, ReadLines
  <2>. QED
    BY <2>1 DEF Abstract!Init, served
<1>2. IInv /\ IInv' /\ [Next]_vars => [Abstract!Next(temp)]_(Abstract!IOvars)
  <2>. SUFFICES ASSUME IInv, IInv', [Next]_vars
       PROVE  Abstract!Next(temp) \/ UNCHANGED <<call, served, call # None /\ torn>>
    BY DEF Abstract!IOvars
  <2>1. CASE UNCHANGED vars
    BY <2>1 DEF vars, programVars, call, served, IO_write, IO_read
  <2>2. CASE Next
    <3>1. PICK Reset \in BOOLEAN : PosEdge(Reset)
      BY <2>2 DEF Next
    <3>2. TypeOK /\ TypeOK'
      BY DEF IInv
    <3>3. /\ call # None <=> pc \in CallLines
          /\ call' # None <=> pc' \in CallLines
          /\ call' # None => call' \in Abstract!Calls
      <4>1. Known'
        BY Known, PTL
      <4>. QED
        BY <3>2, <4>1, Known
    <3>4. CASE pc \in CallLines /\ pc' \in CallLines
      <4>1. Abstract!Tear \/ Abstract!Serve \/ UNCHANGED <<call, served, torn>>
        BY <3>1, <3>4, InCall
      <4>. QED
        BY <4>1 DEF Abstract!Next
    <3>5. CASE pc \in CallLines /\ pc' \notin CallLines
      BY <3>1, <3>5, CallEnds DEF Abstract!Next
    <3>6. CASE pc \notin CallLines /\ pc' \in CallLines
      <4>1. pc = 0
        BY <3>1, <3>2, <3>6
        DEF PosEdge, Think, CallIO, AccessPort, NextLine, TypeOK, InitLines, CallLines,
            WriteLines, ReadLines
      <4>2. served' = None
        BY <3>1, <4>1 DEF PosEdge, served
      <4>. QED
        BY <3>2, <3>3, <3>6, <4>2, Zenon DEF TypeOK, Abstract!Next, Abstract!Call
    <3>7. CASE pc \notin CallLines /\ pc' \notin CallLines
      BY <3>3, <3>7, Zenon DEF served
    <3>. QED
      BY <3>4, <3>5, <3>6, <3>7
  <2>. QED
    BY <2>1, <2>2
<1>. QED
  BY <1>1, <1>2, Invariant, PTL DEF Spec, ImplementsHPI
=============================================================================
