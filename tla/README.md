# ECE 385 labs: TLA+ models, TLC runs and TLAPS proofs

The repository holds the laboratory work of a digital systems course: circuits in SystemVerilog
for a DE2-115 board, programs for the SLC-3 computer built in lab 6, and C programs for a Nios II
soft processor. Everything handwritten is a few thousand lines; the rest of the 3,373 files is
written by Quartus and the Nios II tools. This directory specifies the handwritten designs in TLA+,
checks them with TLC on small instances and proves the central results with TLAPS for every value
of the constants.

A circuit is modelled clock by clock: a step is one rising edge of its clock, at which every
register takes its next value together. What the board's user does (buttons, switches, keys) is
chosen freely at every edge. A C program is modelled access by access: a step is one read or write
of a port, and the user may act between any two.

## 1. Inventory

### Lab 6: the SLC-3 (a 16-bit computer)

| part | state | operations | promises |
|---|---|---|---|
| `ISDU.sv`, the controller | `State` (25 of them) | one transition per edge; control signals per state | never stuck inside an instruction; drives at most one gate |
| `datapath.sv` and what it instantiates | `regIR`, `regPC`, `regMDR`, `regMAR`, the register file, `nzp`, `BEN`, and the registered sign extensions | load, reset | each register is loaded with the word the instruction in flight means |
| `Mem2IO.sv`, `tristate.sv`, `test_memory.sv` | `hex_data`, the two tristate buffers, `mem_array` | read, write, reload on reset | address xFFFF is the switches and the display; a read takes two cycles, a write two |
| `SLC3_2.sv` | none | opcodes, instruction builders | the instruction set |
| `memory_contents.sv` | the words of the memory | seven test programs | what their comments say they show |

The controller's signals steer the datapath; the datapath returns the opcode, two bits of the
instruction and `BEN`; MAR and MDR address the memory through `Mem2IO` and `tristate`. Every wire is
either combinational or one register late, and the hard part is that the delays must match: the sign
extensions and the number of the second source register are one clock behind `regIR`, the write
buffer one clock behind MDR, the read buffer one clock behind the memory, while the condition
codes have no reset at all. The user moves Run, Continue and the switches at any edge and may
reset in the middle of any instruction.

### Lab 5: the multiplier, and the two-bit adder

`Control.sv` (20 states) sequences seven add/shift pairs and a subtract/shift over the registers X
(sign), A and B of `Register_unit.sv`; the sum comes from the nine full adders of
`ripple_adder.sv`. State left over from an earlier multiplication (A, and X) is the hard part.
`2Bit_Adder/` is two full adders.

### Lab 7: the accumulator

`main.c` polls two keys through memory-mapped ports, adds the switches to an 8-bit sum and shows
it. Keys and switches move between any two accesses.

### Lab 8: the ball on the screen, steered by a USB keyboard

`VGA_controller.sv` counts pixels and makes the sync signals from a 25 MHz clock; `ball.sv` detects
the end of the vertical sync with the 50 MHz clock and moves the ball once a frame, by the keycode
the software last wrote. KEY[0] resets the controller, KEY[1] the ball. On the processor,
`usb_kb/main.c` and `usb.c` drive a CY7C67200 USB controller through `io_handler.c` and
`hpi_io_intf.sv`: set-up, enumeration with retries, then polling; the answers, the timeouts and the
unplugging of the keyboard come from outside.

| part | state | operations | promises |
|---|---|---|---|
| `VGA_controller.sv`, `ball.sv` | counters, sync, position, motion | count, move once a frame | the ball stays near the screen, moves on one axis, the picture does not tear |
| `hpi_io_intf.sv`, `io_handler.c` | the registers between the processor's ports and the chip's pins | `IO_init`, `IO_write`, `IO_read`, reset | one call is one access of the chip |
| `usb.c`, `main.c` | the step of the enumeration, the lists in the chip's memory, the message register, the keycode | set-up, nine requests, poll, hot plug | every request reaches the keyboard, in order; the driver does not hang |

The hard parts: every signal of an access is a store of its own, a register behind; a list of
transfers is written again whenever its message is late, so that messages outlive the list they
belong to; buffers and lists share a few hundred bytes; the keyboard leaves and comes back at any step.

### Lab 9: AES, and the console

| part | state | operations | promises |
|---|---|---|---|
| `main.c`, `aes.h` | the message, the key, the schedule, the round | clear the registers, choose a mode, read, encrypt (key expansion, rounds), print, store the key | enciphers as the standard does |
| `avalon_aes_interface.sv`, `lab9_top.sv` | sixteen registers, the export register | write, reset | the display shows four bytes of the key |
| `KeyExpansion.sv`, `SubBytes.sv` | the registers behind ten stages of substitutions | a falling edge; a new key | settles to the standard's schedule |
| `InvShiftRows.sv`, `InvMixColumns.sv`, `InvSubBytes` | none | per block | take back what a round does |
| `altera_avalon_jtag_uart_*.c` | two ring buffers, the count of idle ticks | write, read, close; the interrupt routine; the timer | both directions in order, nobody waits without reason |
| the JTAG UART (`lab9_soc_jtag_uart_0.v`) | two FIFOs, the interrupt enables, pause and activity bits | accesses; what the host does | |

The hard parts: the words of the software are little endian and its constants are not; the round
transformations work in place; the display is a register behind registers that are stored word by
word and again after the result; a key that is applied reaches one more round key per clock. In the
console the interrupt routine moves the indices the program has read, and the host may send in the
middle of a read of the device.

### Left aside

Hex drivers, colour mapper and other stateless tables, testbenches (stimuli without assertions),
modules nothing instantiates but those of the AES rounds, and everything generated: `db`,
`incremental_db`, `simulation`, `output_files`, the `*_soc` systems and the `*_bsp` packages, of
which only the console driver and its device, which the programs of labs 7 to 9 run on, are modelled.
Lab 4 has only build output. `lab8/software_codes` and `lab9/software_codes` hold older copies of the
programs. `PROJECT.json` lists every part with its status, and under `hazards` what is hard
to test at its line.

## 2. Modules

```
SLC3_2 -- ISDU -- Datapath -- SLC3 -- SLC3Refinement -- SLC3_proofs
   |                                       : (INSTANCE)  \-- MCSLC3
   +----- SLC3ISA - - - - - - - - - - - - -+
   |         \-- SLC3Programs -- MCPrograms, SLC3Programs_proofs
   +----- memory_contents --/
ball, VGA_controller -- lab8 -- MClab8, lab8_proofs
hpi_io_intf - - (INSTANCE) - - HPI         hpi_io_intf -- hpi_io_intf_proofs
usb -- usb_kb -- usb_kb_proofs
Adders -- Multiplier -- MCMultiplier     Accumulator -- MCAccumulator
Multiplier, Accumulator -- Arithmetic_proofs
Bytes -- aes, RoundModules -- lab9 - - (INSTANCE) - - Cipher -- Rijndael -- Bytes
Rijndael, RoundModules -- KeyExpansion         lab9, KeyExpansion -- MClab9, lab9_proofs
jtag_uart_core -- jtag_uart - - (INSTANCE, for each direction) - - Channel
                        \-- jtag_uart_proofs
```

**SLC-3.** `SLC3_2` has the words, the instruction fields and the builders. `ISDU` is the
controller: each control signal is the set of states that assert it. `Datapath` is what one edge does
to each register; the five registers computed from `regIR` a clock late are the single variable
`extIR`, the `regIR` of one clock ago. `SLC3` composes them with `Mem2IO`, `tristate` and the memory;
a step (`PosEdge`) is one edge of `Clk`. An undriven bus, undriven pins and the default of the bus
multiplexer are the value `Floating`, which is no word, so that loading it into a register would
break `TypeOK`. `ReloadOnReset` tells the two memories apart: the simulated one reloads
`memory_contents` on a reset, the SRAM chip of the board keeps its words.

`SLC3ISA` is the abstract specification: the programmer's registers and one atomic action per
instruction, as the comments of `SLC3_2.sv` describe them, made exact where the hardware is (the
address space folds onto the cells of the memory; xFFFF is read from the switches, written to the
display and to the cell it folds onto; `JSR` with bit 11 off links through the register in bits
11:9; `CLR` is an AND with 0, not with the register itself as the comment at `SLC3_2.sv:59` has it).
`SLC3Refinement` maps the clocked computer to it and states the invariant that carries the mapping.
`memory_contents` is the memory image word for word and `SLC3Programs` runs it on `SLC3ISA` against
a user with a plan of switch words. As the clocked computer implements `SLC3ISA`, what the programs
show there they show on the hardware.

**USB.** `HPI` is what `io_handler.c` promises: a call is one access with its address and its data,
unless KEY[0] tears it. `hpi_io_intf` has the stores of `io_handler.c` line by line (`pc` is the
line), the registers of `hpi_io_intf.sv`, the shared data pins and the pulses the chip sees, and is
shown to implement `HPI`. One level up, `usb` has the lists of `usb.c` word for word as values, and
`usb_kb` the driver (`main.c`), its `pc` named after the wait or the access it is at, and below it
the controller's memory, message register and mailbox and the keyboard, which are external and
modelled as the driver uses them: a controller runs the list its pointer names, a packet is
answered at once, after retries or never, and a request takes effect with its status packet.

**AES.** `Rijndael` is the standard's arithmetic and key schedule, and `Cipher` its round machine;
neither has anything from the code. `aes` is the functions of `main.c` on bytes in memory order, with
the tables of `aes.h`, and `lab9` the program and the registers: loops that store words or transform
the state are a step per word or transformation, for a reset may fall between any two. The mapping
from `lab9` to `Cipher` prints the words as the program prints them. `Cipher` takes the place of the
round constant in its word as a parameter, so that the one thing the software does differently can
be told from everything else. `RoundModules` is the combinational modules of the decryption and
`KeyExpansion` the key schedule with its registers.

**Console.** `jtag_uart_core` is the device and the host at the other end of the cable. `jtag_uart` is
the driver: a step of the program is one access to an index, to a buffer or to a register, and the
interrupt routine runs between any two steps of the program but within no access pair that the code
guards by disabling interrupts (those pairs are one step). A read of the data word takes two clocks:
`RVALID` and the character are of the clock of the request, `RAVAIL` is of the next and counts a
character that the host wrote in the clock of the request. `ReadData(sends)` is the whole read, with
(`sends`) or without such a character, so that `IsrReceive` sees all four answers, nothing valid with
something left among them. The driver implements two instances of `Channel`, the one from the
program to the host and the one back.

**Others.** `ball` is the ball frame by frame, `VGA_controller` the timing, `lab8` both with the two
clocks, the two resets and the edge detector. `Adders` has both adders bit by bit, `Multiplier` the
rest of lab 5 with the synchronizers reduced to inputs that change at edges. `Accumulator` is the
polling loop, its `pc` the line of `main.c`.

An operator whose comment begins with "Faulty variant" is a plausible mistake in the code, kept next
to the definition it would replace; no specification uses one. Each property of each run is known to
fail under one of them (`mutants` in `PROJECT.json`).

## 3. Runs

| run | question | instance | distinct states |
|---|---|---|---|
| `slc3_board` | does the clocked computer implement its instruction set, load no undriven word, and finish every instruction? | 16 cells; every pair of 14 instructions, every branch condition on results of each sign, calls, stores that overwrite code, fetches from the switches; all buttons and switches at every edge; the board's memory, which a reset does not reload | 51,641 |
| `programs` | do the programs of `memory_contents.sv` show what they should, and does the sort sort? | the whole memory, 256 cells; operands of every sign and the extremes; three sets of data | 96,257 |
| `video` | one move per frame, outside the picture, for ever; can keys take the ball off the screen, stop it or pin it to an edge? | 9 by 9 pixels, any keys, both resets at any edge | 227,552 |
| `hpi` | is a call of `io_handler.c` one access of the chip? | two addresses, two words, four clocks between port accesses at least, reset at any edge, from power-up | 5,041 |
| `usb` | do the requests reach the keyboard in order, are the lists left intact, do the waits end that can? | the real lists; port read 2 and 3 times instead of 6 and 8 before the keyboard counts as absent; plugs at any step | 388,413 |
| `multiplier` | exact product plus what A held; the machine stops | two multiplications between resets, operands of every sign and -128 | 111,804 |
| `accumulator` | one addition per press; presses and resets count | four switch words | 155,648 |
| `aes` | does the program encipher as the standard does, but for the place of a constant; does the display show the key; do the round modules invert the rounds; does the key schedule settle? | two examples of the standard and one more key, both modes, reset at any step; 3 repetitions of the benchmark | 10,598 |
| `jtag_uart` | are both directions in order; does everybody who can go on? | buffers of 3 places, FIFOs of 1 and 2, three characters in, four out, two per call; with and without a timer | 1,278,224 |

The state spaces of the SLC-3 are finite because every program loops; no bound cuts a run short.
Sixteen cells are enough for the addresses to fold, for stores to hit code and data, and for a jump
to xFFFF to wrap. The screen of `video` is small, but each region (visible, blanking, sync) and each
order of the two counters' wrap is there, and the proofs cover the real sizes. `MaxStarts` in
`MCMultiplier` bounds the liveness run only: `ProductExact` is proved without it.

In `jtag_uart` a buffer of three places wraps, is empty, is full and has a character on either side
of the wrap; the call of two characters does not fit when one place is left, and four characters in
all fill the buffer and the FIFO and make the program wait. The thresholds of 8 of 64 are 0 of 1 and
0 of 2: the interrupt comes with the FIFO empty, or full. `Timeout` is 2 ticks of 10.
`MaxInput`, `MaxOutput` and `MaxCount` bound what is sent. The FIFOs are drained while the host
is there; the program may close at any time, after which nothing need move (`CHECK_DEADLOCK FALSE`).

In `aes` the program's behaviour does not depend on the data but through the tables, which TLC
compares with the field's arithmetic in all 256 places (`TablesAssumption`, `TablesAgree`, `SubBytesAssumption`). The two
examples have every digit in both cases. The benchmark repeats 3 times for 128: a repetition finds
the registers and the variables as the last one left them. The program and the key schedule share no
state, so a behaviour of `MClab9` is one of the two.

`Gap` in `hpi_io_intf` is the fewest clocks from one port access to the next. With 4 or more a word
read has passed the pins, the input register and the port; with 3 `IO_read` returns the word before.
A Nios II store takes longer than that; the runs check the tightest pace and every slower one.
`usb_kb` forgets the memory beside a list when a list is written, but for the report, and on a soft
reset: no one reads it again before it is written, and the states would multiply. A list
is written in one step: its twenty stores take microseconds and a USB frame a millisecond, and a
list written again holds the words that are there, its retry words apart. A packet that fails ends
its list. Moving the plug sends a message (`main.c:76` enables it), which replaces the one in the
register; the driver does not tell it from none. What `RunAstray` does with the five words written over x0576, whose link is a word
the keyboard sent, is left open: the list is reported as done, or nothing is.

What the runs show that a reader might not expect:
- An STR writes twice: in the first of its two write cycles the memory gets the instruction word
  itself, for the write buffer is a clock late. Only the second makes it right. A reset between the
  two leaves that word in the cell, which on the board survives the reset (`SLC3ISA!TornStores`).
- The ball overshoots an edge by one pixel, never by two.
- `from_sw_reset` reaches no pin: the reset of `IO_init` (`io_handler.c:15`) never gets to the chip,
  only KEY[0] resets it. At power-up every register is 0 and the pins ask for a read and a write at
  once; `NoContention` is claimed from the end of `IO_init` on.
- The FPGA stops driving the data pins in the last clock of the chip's write pulse; the access is
  right because nothing else drives them and they keep their charge for that clock.
- However late or stale the messages are, no request is left out and none comes out of order: the
  retry word of a list that has not run holds the driver back. The lists and the answers share
  memory without harm, `UsbGetConfigDesc2` only because its buffers lie higher than the others'.
- A soft reset forgets nothing on the port: after a keyboard is pulled out the last keycode stands.
- The stale X of the multiplier is harmless: a shift that no addition precedes finds the sign of A in it.

- The sort compares by the sign of a 16-bit difference (`memory_contents.sv:166-167`), so data
  further apart than 32767 come out in no order; `SortSorts` is about data that are not.
- `ClearA` is never asserted, not in `Clear` either (`Control.sv:67`, though `Processor.sv:32` names
  it for the clear of A): a second multiplication adds to what A held. `MultiplyAccumulate` says so,
  of both halt states.
- I/O test 3 finds its own pause through the link register and rewrites it in each round.
- `printf` blocks for ever once the terminal is closed and the buffer full: the packages have no timer
  (`ALT_SYS_CLK` is none), so nothing counts the idle ticks. `WriterReleased` excepts exactly that.
- The display shows bytes of the key; `lab9_top.sv:56` has a comment that says the message. Only the
  key is stored in the registers.
- The interrupt routine of the console turns receive interrupts off when the last word it read says
  that characters are left, and the comment there (`init.c:158`) says that "the buffer is full" then.
  It need not be: the loop also ends at a word that is not valid, and a character that comes in the
  clock of that request is counted in it (an interrupt for one character, `IsrReceive`, then
  `IsrReceive` with `sends`, leaves `avail` true with room for one more in the run's three places).
  It does no harm, as `NotStalled` shows: an interrupt finds at least one character in the FIFO, so
  the buffer holds one by then, and the read that takes it turns the interrupt on again.
- After a new key the hardware's schedule is wrong for ten clocks, round key by round key, and there
  is no signal that says it is settled.

Three runs end in a violation, of something a comment says:
- `aes_cipher`: `aes.h` has the round constants in the high byte of a word, while the words are packed
  with their first byte low. Every result differs from the standard's. `ImplementsButForRcon` shows
  that this is the only difference.
- `usb_config`: after a step the driver looks at the retry word of the setup packet only. If the
  status packet fails the keyboard has not taken the request, and "set configuration done!" is
  printed of a keyboard that is not configured.
- `usb_wait`: `UsbWaitTDListDone` reads the message and then clears it. A done message that comes in
  between is lost, and the driver stays in the loop for ever. The run's specification,
  `UntouchedSpec`, has a keyboard nobody touches (and so may stop where none is plugged in).
  `UsbGetRetryCnt` has a wait of the same kind (`usb.c:569`): for one more message, which comes only
  when somebody moves the plug.

### Fairness

A clock never stops: `FairSpec` has weak fairness of the edge (with all its inputs free), nothing
about the user. So `InstructionCompletes` allows a reset at any time and promises nothing about
pauses, which wait for the user; `FramesKeepComing` excepts a reset held or repeated. `SLC3Programs`
has weak fairness of `Execute`, which the clock and `InstructionCompletes` justify. In `Accumulator`
the processor runs whatever the user does: weak fairness of its next access. In `usb_kb` the processor
and the firmware run (weak fairness of `Driver`, `ExecuteCommand` and `Controller`); strong fairness
of the end of a list says that a list posted over and over is not for ever cut short, for the 10 ms
between two posts (`main.c:184`) are longer than a list takes. Nothing is assumed of the user.
In `jtag_uart` a call that has begun, the interrupt routine and, where there is one, the timer go on
(weak fairness); the host, while it is there, takes what it is given and pauses now and then. It need
not send, it may leave for good, and the program need not call again. `lab9` has no fairness: no
liveness is claimed of it.

### Only the model's

The inputs of `Multiplier` keep the switches still while it runs. Buttons have one value per edge:
metastability is not modelled. `Accumulator` reads the switches once per addition, as the code does.
The history variables (`operands`, `unanswered`, `taken`, `recent`, `unsorted`, `shown`,
`clocks`, `reading`, `output`) record, and no action reads them but to record; in `jtag_uart`
`written` and `input` also number the characters, and end them at their bounds; `plan` and `turn` are the user of the programs.

## 4. Proofs

All of them hold for every value of the constants allowed by the named assumptions.

- `SLC3_proofs!Invariant`: `Spec => []IInv`, with `IInv == TypeOK /\ InFlightInv`. `TypeOK` is not
  inductive: that MDR never takes a floating word in `S_33_2` depends on the read buffer, which
  depends on the states before. `InFlightInv` says what each register holds of the instruction in
  flight in each state: that the late sign extensions have caught up, that the opcode fits the
  state, that MAR, the read buffer, MDR and IR carry the word at the fetch address, that BEN is
  of the current condition codes, and what the two write cycles of a store offer the memory. The
  proof has a lemma per state with the register transfers of its edge, then preserves types and
  the conjuncts of `InFlightInv` state by state. `TypeCorrect` and `InFlightCorrect` follow.
- `SLC3_proofs!Refinement`: `Spec => ImplementsISA`. Under `IInv` each edge is a step of
  `SLC3ISA` or a stutter. An instruction takes effect at one edge of its last states; the map
  shows `pc` one behind `regPC` while an instruction is in flight, and the memory with the
  operand already stored between the two write cycles. Any memory size up to 65536, any program,
  any switch words, both kinds of memory.
- `SLC3Programs_proofs`: `ProgramsShowHolds` and `SortSortsHolds`, from `ProgramInvariant`, for every
  16-bit word a user may enter and a reset at any step, where the run has a few plans. `Setting`
  is what they assume of the constants: the chip of `test_memory.sv`, with 256 words, the image of
  `memory_contents.sv`, and reloaded by a reset. (On the board's SRAM a reset can leave an
  instruction word in a cell of the code, see `TornStores`; then no program is sure to work.)
  `ChoosesProgram` is what they assume of the user: the first word is the address of a program other
  than I/O test 3 and the run-once test. `IInv` is `Always` and an invariant per program. `Always`
  has what all code relies on: register 0 is zero, a condition code is set, and the memory holds the
  code, but for the pause at cell 148, which the display function rewrites sixteen times and which
  stays a PSE (`Code`). `MultiplierInv` is the loop invariant of a multiplication that shifts the
  bits of the first operand out at the left (`Out`, `Left`): the sum is the second operand times
  the bits that are out, modulo 2^16, the first of them with the sign turned. `SortInv` says that
  the passes made have put their data in place (`Tops`), that a pass carries the largest datum so
  far (`Front`), and, between the two stores of a swap, that register 4 holds the datum missing from
  the memory (`DataInSort`). `EntryInv` counts the words stored against the last words read
  (`Stored`, `OneBehind`). The memory is decoded once (`Placed`, the `Words` lemmas), each builder
  of `SLC3_2.sv` has a lemma for its step, and each program is a case per cell. TLC checks `IInv` too:
  it holds in all states of the run `programs` but those of the plan that fetches from the switches.
- `lab8_proofs`, of `ball`: `NearScreen` and `MovesAlongOneAxis`, for every screen and ball that fit ten-bit
  registers (`BallAssumption`). `MotionHasRoom` strengthens them: a motion towards an edge has a
  pixel left, because the frame that reaches the edge turns the motion in time. They are about the
  ball frame by frame; `BallRefinement` shows that the ball behind the edge detector is
  that ball, and `BallInLab8` carries both to the composition.
- `lab8_proofs`: `SyncPlaceInvariant` and `PictureDoesNotTear`, for every timing with lines longer
  than three pixels. `SyncPlace` says where the beam can be while the edge detector holds the end of
  a sync; the rest of the invariant there relates the phase of the two clocks. `NoFrameTwice` is
  `FrameOnce` for every timing with visible lines longer than three pixels and whose vertical sync
  is one pulse (`OnePulse`; the code's is lines 490 and 491). `PictureShown` is the strengthening:
  from the end of the last visible line to the end of the sync the picture stays shown.
- `Arithmetic_proofs`, of `Adders`: `Adder2Exact` and `RippleAdderExact`, for every input: the carries between the
  full adders cancel, and the ninth adder repeats the sign bits.
- `Arithmetic_proofs`: `SignIsKept` and `ProductExact`, for all switch words and any number of
  multiplications, loads and resets. The invariant takes X and A for a nine-bit signed number: the
  low bits of B are what is left of the multiplier, and X, A and the high bits of B are A's old
  value plus the multiplicand times the bits seen (`Aligned`, `Total`, `Seen`). An addition adds the
  weight of the next bit, by `RippleAdderExact`; a shift changes neither side; the subtraction gives
  the sign bit its negative weight.
- `Arithmetic_proofs`: `OneAddPerPressHolds` and `ShowsSumHolds`. `Polling` strengthens them: a key
  that is down while the program polls went down after the last addition.
- `hpi_io_intf_proofs`: `NoContentionHolds` and `HPIRefinement` (`Spec => ImplementsHPI`), for every
  set of addresses and words and every pace of the processor with at least four clocks between two
  accesses (`GapAssumption`; `NoneAssumption` keeps the mark of no data apart from the words). The
  ports are stores of the program and the pins follow them a clock later, so what the chip sees at a
  line depends on the clocks since the last store. `Undisturbed` says, line by line of a call and by
  that number of clocks, what the ports, the registers, the pins and the chip's pulse are; it is
  claimed only while no reset fell into the call, and `Levels` and `NotRead` say what a reset leaves
  true. `NoContention` follows from it, and so does that the access takes effect once, at the line
  that ends its pulse, with the address and the data of the call.
- `usb_kb_proofs`: `TypeCorrect`, `ListIntactHolds`, `AddressedHolds` and `RequestsInOrderHolds`, for
  every number of port reads before a keyboard counts as absent (`ReadsAssumption`). None of the four
  is inductive. `IInv` says which list lies in the controller's memory at each step of the driver:
  none (`NoList`), that of the step (`ThisList`), that of the step before (`LastList`), or that with
  the five words over x0576 (`FiveWords`); and how far the keyboard has come with it (`Served`): its
  last request is that list's or the one before, and it is that list's for certain once the setup
  packet is marked as done, for that is the one retry word `main.c` looks at. What the proof needs of
  the lists is stated of a list (`ListOK`) and computed for each of the ten (`Lists`, `Requests`):
  only the first descriptor is a setup packet, the descriptors are for the address the keyboard has
  in that step, and every buffer lies beyond the list. `Beyond` is why the memory behind a list starts
  nothing, when the controller is still at a descriptor of a longer list that was written over. TLC
  checks `IInv` as well: it holds in all states of the run `usb`.
- `jtag_uart_proofs`: `NotStalledHolds`, `TransmitRefinement` and `ReceiveRefinement`, for every size
  of the buffers and the FIFOs, every threshold and any number of characters (`JtagAssumption`). The
  invariant has the program's half (`SpaceLeft`, `CopyFits`: the copy under way fits the ring whatever
  the interrupt routine has taken meanwhile), the reader's half (`FetchHeld`: what was copied
  stays filled until the index moves), the routine's half (`Pausing`, `Received`: a pause interrupts
  only with characters in the FIFO, so its loop ends with one in the receive buffer, whatever arrives
  during its reads) and what relates both to the enables
  (`NotStalled`). That the characters come out in order needs the ring as a sequence: `RingIs`,
  `RingGrows` and `RingShrinks` say what a store at `in` and a move of `out` do to it.
- `lab9_proofs`, of the key schedule: `KeysSettle`. Whatever keys are applied and whenever, n clocks
  after the last of them the first n round keys are those of the standard. `Settled` is the
  strengthening. It assumes of the substitution table what `SubBytesAssumption` says and TLC evaluates:
  it is the standard's.
- `lab9_proofs`, of the display: `DisplayFollowsKey` and `DisplayShowsTyped`. The key is stored
  register by register, a reset may fall between any two stores, and the export register is one
  more store behind: `Stored` says which registers hold the key in each loop, `Packed` that the words of
  the program are the packed key, `CaughtUp` that the display is what the registers held a clock ago.
  The first theorem needs no hypothesis; that the bytes shown are those that were typed needs keys of
  hexadecimal digits (`DigitKeys`), which is what the program asks for (`main.c:71`: "Inputs must be
  0-9, A-F, or a-f"): of any other character `charToHex` makes a byte with no such meaning.
- `lab9_proofs`, of the encipherment: `CipherRefinement`, from `DigitKeys` and `DigitMessages`
  (`main.c:71` again), for both modes, any number of repetitions and a reset at any step.
  `EncryptInv` strengthens it: the schedule is the standard's, with the constant in the last byte,
  up to the word in hand (`ExpandFollows` is one word of it), the block is sixteen bytes with the
  round number its transformation has, and the message is what was typed. Each transformation of
  `main.c` is then the standard's on a block: `rowShift` and the byte order of the key by their
  index permutations, `colMix` by the commutation of the byte sums, the tables by
  `TablesAssumption`, which TLC evaluates in all 256 places. `EncryptInv` itself needs no digits
  (`EncryptionInvariant`): whatever characters are typed, the words packed are words of bytes.
- `lab9_proofs`, of the round modules: `RoundModulesTakeBack`, without hypotheses. From
  `EncryptInv` the block is sixteen bytes; what is left is about functions. A byte is its eight bits
  (`SameBits`), exclusive or is that of each bit (`XorBits`), `xtime` moves the bits up and returns
  the highest as 27 (`XtimeBits`), so it is linear (`XtimeSum`) and so are the four multipliers of
  `InvMixColumns.sv` (`ProductSums`). A mixed column is then sixteen products; added up byte by byte
  of the original column (`XorTranspose`) those of a byte's own place cancel to the byte (`OwnPlace`)
  and the others to nothing (`OtherPlaces`). That `gf_mul` of `aes.h` holds the products
  (`Table2`, `Table3`) and that the two substitution tables are inverse (`InverseTable`) is proved for
  all 256 places; `TablesAssumption` is not used.

Only model-checked: the liveness properties (`InstructionCompletes`, `SortReturns`, `EdgeReleases`,
`FramesKeepComing`, `MultiplicationEnds`, `PressCounts`, `ResetCounts`, `PlugNoticed`,
`StatusLoopEnds`, `OutputReachesHost`, `WriterReleased`, `ReaderWakes`; liveness under fairness is out
of the prover's reach). Every other property of the passing runs has a theorem. That `Configured`
and `WaitEnds` fail is shown by TLC's counterexamples; no theorem is about them.

## 5. What is not modelled, and why

Listed per part in `PROJECT.json`. Of the handwritten code:

- lab 6: the run-once test of `memory_contents.sv`, which counts up on the display, 65536 pauses
  before it repeats; I/O test 3, which counts up in its own pause instruction, and after a thousand
  rounds turns it into a word with another opcode; the testbench and the hex drivers.
- lab 8: what the driver only prints; the data toggle of the polls (`main.c:505` flips it at every
  poll, answered or not), whose effect is the firmware's; the last keycode stays on the port while no
  keyboard is plugged in (`main.c:577`), which is told above and is no error by any comment; the
  colour mapper.
- lab 9: `decrypt`, an empty body, so that the words printed as its result were never written; `AES.sv`,
  an empty stub; the read port of the registers, which no program uses; the benchmark's timing, which
  reads a clock that never advances (there is no timer).
- the console: ioctl, the non-blocking flag and the small driver, which no program here selects; the
  one clock by which the almost-empty and almost-full bits follow the FIFOs.

The Nios II systems, the PLL, the SRAM chip's own timing, the CY7C67200 and the host are external.

Most of the repository's lines of code are not in these parts: the vendor's drivers and system headers
come three times over with the board support packages, the chip's header and BIOS image twice, and
lab 8's programs twice. They are the tools' and the vendors' code, or copies, and are left out on
purpose; the one driver that is modelled is mapped to a single one of its three copies.

## 6. Reading order

`ISDU`, `Datapath`, `SLC3`, then `SLC3ISA` and `SLC3Refinement`; `SLC3_proofs` from `NextInvariant`
backwards. `Multiplier` with `Arithmetic_proofs` is the shortest complete example of a design with its
proof. The other modules are independent of these and of each other.

## 7. Plan

Done: every handwritten design of labs 5 to 9 with state, and the console driver; the proofs of the
SLC-3 and its refinement, the adders, the multiplier, the accumulator, the video half, the host port
interface, the USB keyboard driver, the console driver with both its refinements, the hardware's key
schedule, of the AES program the refinement of the standard's cipher and the display of the key, of the
round modules that they undo its transformations, and of the test programs of the SLC-3.

Left: the liveness properties, which need fairness and stay with TLC, and the parts that section 5 names.
