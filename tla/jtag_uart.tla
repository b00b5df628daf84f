------------------------------- MODULE jtag_uart -------------------------------
(***************************************************************************)
(* The console of the three Nios II systems: the driver of the JTAG UART   *)
(* behind printf and scanf (altera_avalon_jtag_uart_*.c, the fast driver   *)
(* without an operating system, in blocking mode).  The program copies to  *)
(* and from two ring buffers; the interrupt routine moves the characters   *)
(* between them and the FIFOs.  The program can be interrupted between any *)
(* two of its steps, the interrupt routine cannot; the host goes on all    *)
(* the time.  A step is one access to the device, to the shared indices or *)
(* to a buffer.                                                             *)
(***************************************************************************)
EXTENDS jtag_uart_core

CONSTANTS
  BUF_LEN,                      \* 2048
  Timeout,                      \* 10 ticks of one second
  MaxOutput, MaxCount           \* bounds: characters in all, and in a call

ASSUME JtagAssumption ==
  /\ BUF_LEN \in Nat /\ BUF_LEN > 1
  /\ Timeout \in Nat \ {0}
  /\ {WriteDepth, ReadDepth} \subseteq Nat \ {0}
  /\ AlmostEmpty \in 0..(WriteDepth - 1) /\ AlmostFull \in 0..(ReadDepth - 1)
  /\ {MaxInput, MaxOutput, MaxCount} \subseteq Nat

VARIABLES
  tx_buf, tx_in, tx_out, rx_buf, rx_in, rx_out,
  host_inactive,
  alarm,                        \* the system has a timer for the alarm
  pc, in, out, n,               \* the program's place and locals
  left,                         \* the count or space left
  copied,                       \* what a read has copied and not yet released
  progress,                     \* a read has copied something
  isr, wi, space, avail,        \* the interrupt routine's place and locals
  written,                      \* history: how many characters were written
  reading                       \* history: the characters read so far

ringVars == <<tx_buf, tx_in, tx_out, rx_buf, rx_in, rx_out>>
mainVars == <<pc, in, out, n, left, copied, progress, written, reading>>
isrVars == <<isr, wi, space, avail>>
vars == <<coreVars, ringVars, host_inactive, alarm, mainVars, isrVars>>

\* altera_avalon_jtag_uart_init has enabled receive interrupts and tried to start
\* the alarm.
Init ==
  /\ CoreInit(TRUE)
  /\ tx_buf = [a \in 0..(BUF_LEN - 1) |-> 0] /\ tx_in = 0 /\ tx_out = 0
  /\ rx_buf = [a \in 0..(BUF_LEN - 1) |-> 0] /\ rx_in = 0 /\ rx_out = 0
  /\ host_inactive = 0
  /\ alarm \in BOOLEAN
  /\ pc = "idle" /\ in = 0 /\ out = 0 /\ n = 0 /\ left = 0
  /\ copied = << >> /\ progress = FALSE
  /\ isr = "off" /\ wi = FALSE /\ space = 0 /\ avail = FALSE
  /\ written = 0 /\ reading = << >>

\* Faulty variant: the index runs past the end of the buffer.
Advance_NoWrap(a, k) == a + k
Advance(a, k) == (a + k) % BUF_LEN

\* Without an alarm the timeout is INT_MAX, and the count stays at 0.
TimedOut == alarm /\ host_inactive >= Timeout

\* A step of the program, which runs while the interrupt routine does not.
At(place) == isr = "off" /\ pc = place
locals == <<in, out, n, left, progress>>
Goto(place) == pc' = place /\ UNCHANGED locals
\* The indices and the length are read anew before they are used again.
GoOn(place) == pc' = place /\ in' = 0 /\ out' = 0 /\ n' = 0 /\ UNCHANGED <<left, progress>>
\* A call ends, and its locals with it.
Return == pc' = "idle" /\ in' = 0 /\ out' = 0 /\ n' = 0 /\ left' = 0 /\ progress' = FALSE
MainOnly == UNCHANGED <<coreVars, host_inactive, alarm, isrVars>>

-----------------------------------------------------------------------------
(* altera_avalon_jtag_uart_write *)

CallWrite == \E count \in 1..MaxCount :
  /\ At("idle") /\ pc' = "wload"
  /\ written + count <= MaxOutput
  /\ left' = count
  /\ MainOnly
  /\ UNCHANGED <<ringVars, in, out, n, progress, copied, written, reading>>

\* Faulty variant: the whole buffer is used, so that a full one looks empty.
WriteRoom_AllOfIt(i, o) == IF i < o THEN o - i ELSE BUF_LEN - i
\* The room that is free without a wrap.
WriteRoom(i, o) ==
  IF i < o THEN o - 1 - i
  ELSE IF o > 0 THEN BUF_LEN - i
  ELSE BUF_LEN - 1 - i

LeastOf(a, b) == IF a < b THEN a ELSE b

WriteLoad ==
  /\ At("wload")
  /\ in' = tx_in /\ out' = tx_out
  /\ n' = LeastOf(WriteRoom(tx_in, tx_out), left)
  /\ pc' = (IF n' = 0 THEN "wkick" ELSE "wcopy")
  /\ MainOnly
  /\ UNCHANGED <<ringVars, left, progress, copied, written, reading>>

WriteCopy ==
  /\ At("wcopy") /\ pc' = "wpublish"
  /\ tx_buf' = [a \in 0..(BUF_LEN - 1) |->
                  IF a \in in..(in + n - 1) THEN written + 1 + a - in ELSE tx_buf[a]]
  /\ left' = left - n
  /\ MainOnly
  /\ UNCHANGED <<tx_in, tx_out, rx_buf, rx_in, rx_out, in, out, n, progress, copied, written, reading>>

WritePublish ==
  /\ At("wpublish") /\ GoOn(IF left > 0 THEN "wload" ELSE "wkick")
  /\ tx_in' = Advance(in, n)
  /\ written' = written + n
  /\ MainOnly
  /\ UNCHANGED <<tx_buf, tx_out, rx_buf, rx_in, rx_out, copied, reading>>

\* Faulty variant: only a write that has to wait kicks the interrupt routine.
WriteKick_WhenFull ==
  /\ At("wkick")
  /\ IF left > 0 THEN Goto("wspin") ELSE Return
  /\ WriteControl(ien_AE \/ left > 0, ien_AF, FALSE)
  /\ UNCHANGED <<ringVars, host_inactive, alarm, copied, written, reading, isrVars>>
\* With interrupts disabled.
WriteKick ==
  /\ At("wkick")
  /\ IF left > 0 THEN Goto("wspin") ELSE Return
  /\ WriteControl(TRUE, ien_AF, FALSE)
  /\ UNCHANGED <<ringVars, host_inactive, alarm, copied, written, reading, isrVars>>

\* Faulty variant: the wait has no end but the buffer's.
WriteSpin_NoTimeout ==
  /\ At("wspin") /\ Goto("wcheck")
  /\ out # tx_out
  /\ MainOnly
  /\ UNCHANGED <<ringVars, copied, written, reading>>
WriteSpin ==
  /\ At("wspin") /\ Goto("wcheck")
  /\ out # tx_out \/ TimedOut
  /\ MainOnly
  /\ UNCHANGED <<ringVars, copied, written, reading>>

\* Gives up with a short count when the host was inactive for a tick.
WriteCheck ==
  /\ At("wcheck")
  /\ IF host_inactive > 0 THEN Return ELSE Goto("wload")
  /\ MainOnly
  /\ UNCHANGED <<ringVars, copied, written, reading>>

-----------------------------------------------------------------------------
(* altera_avalon_jtag_uart_read *)

CallRead == \E count \in 1..MaxCount :
  /\ At("idle") /\ pc' = "rload"
  /\ left' = count
  /\ MainOnly
  /\ UNCHANGED <<ringVars, in, out, n, progress, copied, written, reading>>

\* What can be copied without a wrap; the loop ends when there is nothing.
ReadLoad ==
  /\ At("rload")
  /\ in' = rx_in /\ out' = rx_out
  /\ n' = LeastOf(IF rx_in >= rx_out THEN rx_in - rx_out ELSE BUF_LEN - rx_out, left)
  /\ pc' = (IF n' > 0 THEN "rcopy" ELSE IF progress THEN "renable" ELSE "rspin")
  /\ MainOnly
  /\ UNCHANGED <<ringVars, left, progress, copied, written, reading>>

ReadCopy ==
  /\ At("rcopy") /\ pc' = "rrelease"
  /\ copied' = [k \in 1..n |-> rx_buf[out + k - 1]]
  /\ left' = left - n /\ progress' = TRUE
  /\ MainOnly
  /\ UNCHANGED <<ringVars, in, out, n, written, reading>>

ReadRelease ==
  /\ At("rrelease") /\ GoOn(IF left > 0 THEN "rload" ELSE "renable")
  /\ rx_out' = Advance(out, n)
  /\ reading' = reading \o copied /\ copied' = << >>
  /\ MainOnly
  /\ UNCHANGED <<tx_buf, tx_in, tx_out, rx_buf, rx_in, written>>

ReadSpin ==
  /\ At("rspin") /\ Goto("rcheck")
  /\ in # rx_in \/ TimedOut
  /\ MainOnly
  /\ UNCHANGED <<ringVars, copied, written, reading>>

ReadCheck ==
  /\ At("rcheck")
  /\ IF in = rx_in THEN Return ELSE Goto("rload")
  /\ MainOnly
  /\ UNCHANGED <<ringVars, copied, written, reading>>

\* Faulty variant: a read that has made room leaves the interrupt off.
ReadEnable_LeftOff ==
  /\ At("renable") /\ Return
  /\ UNCHANGED <<coreVars, ringVars, host_inactive, alarm, copied, written, reading, isrVars>>
\* With interrupts disabled.
ReadEnable ==
  /\ At("renable") /\ Return
  /\ WriteControl(ien_AE, TRUE, FALSE)
  /\ UNCHANGED <<ringVars, host_inactive, alarm, copied, written, reading, isrVars>>

-----------------------------------------------------------------------------
(* altera_avalon_jtag_uart_close, when main returns *)

CallClose ==
  /\ At("idle") /\ Goto("close")
  /\ MainOnly
  /\ UNCHANGED <<ringVars, copied, written, reading>>

CloseEnds ==
  /\ At("close") /\ Goto("done")
  /\ tx_out = tx_in \/ TimedOut
  /\ MainOnly
  /\ UNCHANGED <<ringVars, copied, written, reading>>

Main == \/ CallWrite \/ WriteLoad \/ WriteCopy \/ WritePublish \/ WriteKick
        \/ WriteSpin \/ WriteCheck
        \/ CallRead \/ ReadLoad \/ ReadCopy \/ ReadRelease \/ ReadSpin \/ ReadCheck
        \/ ReadEnable \/ CallClose \/ CloseEnds

-----------------------------------------------------------------------------
(* altera_avalon_jtag_uart_irq *)

IsrOnly == UNCHANGED <<host_inactive, alarm, mainVars>>

Interrupt ==
  /\ isr = "off" /\ av_irq /\ isr' = "control"
  /\ IsrOnly
  /\ UNCHANGED <<coreVars, ringVars, wi, space, avail>>

\* The control register is read: what is pending, and the space at this moment.
IsrControl ==
  /\ isr = "control"
  /\ isr' = (IF ipen_AF THEN "receive" ELSE IF ipen_AE THEN "transmit" ELSE "off")
  /\ wi' = ipen_AE
  /\ space' = (IF ipen_AE THEN WriteSpace ELSE 0)
  /\ avail' = ipen_AF
  /\ IsrOnly
  /\ UNCHANGED <<coreVars, ringVars>>

ReceiveFull == Advance(rx_in, 1) = rx_out

\* Faulty variant: the buffer is not looked at.
IsrReceive_Always == \E sends \in BOOLEAN :
  /\ isr = "receive"
  /\ ReadData(sends)
  /\ avail' = (rfifo' # << >>)
  /\ IF rfifo = << >> THEN isr' = "received" /\ UNCHANGED <<rx_buf, rx_in>>
     ELSE /\ rx_buf' = [rx_buf EXCEPT ![rx_in] = Head(rfifo)]
          /\ rx_in' = Advance(rx_in, 1)
          /\ UNCHANGED isr
  /\ IsrOnly
  /\ UNCHANGED <<tx_buf, tx_in, tx_out, rx_out, wi, space>>
\* The host may send while the data word is read: nothing valid, yet something left.
IsrReceive == \E sends \in BOOLEAN :
  /\ isr = "receive" /\ ~ReceiveFull
  /\ ReadData(sends)
  /\ avail' = (rfifo' # << >>)
  /\ IF rfifo = << >> THEN isr' = "received" /\ UNCHANGED <<rx_buf, rx_in>>
     ELSE /\ rx_buf' = [rx_buf EXCEPT ![rx_in] = Head(rfifo)]
          /\ rx_in' = Advance(rx_in, 1)
          /\ UNCHANGED isr
  /\ IsrOnly
  /\ UNCHANGED <<tx_buf, tx_in, tx_out, rx_out, wi, space>>

\* Receive interrupts go off when the last word read says that characters are left:
\* the buffer is full, or one came while the FIFO was found empty.
IsrReceived ==
  /\ isr = "received" \/ (isr = "receive" /\ ReceiveFull)
  /\ isr' = (IF wi THEN "transmit" ELSE "control")
  /\ IF avail THEN WriteControl(ien_AE, FALSE, FALSE) ELSE UNCHANGED coreVars
  /\ IsrOnly
  /\ UNCHANGED <<ringVars, wi, space, avail>>

IsrTransmit ==
  /\ isr = "transmit" /\ space > 0 /\ tx_out # tx_in
  /\ WriteData(tx_buf[tx_out])
  /\ tx_out' = Advance(tx_out, 1)
  /\ space' = space - 1
  /\ IsrOnly
  /\ UNCHANGED <<tx_buf, tx_in, rx_buf, rx_in, rx_out, isr, wi, avail>>

\* Transmit interrupts go off when the buffer is empty and the FIFO is not full.
IsrTransmitted ==
  /\ isr = "transmit" /\ (space = 0 \/ tx_out = tx_in) /\ isr' = "control"
  /\ IF space > 0 THEN WriteControl(FALSE, ien_AF, FALSE) ELSE UNCHANGED coreVars
  /\ IsrOnly
  /\ UNCHANGED <<ringVars, wi, space, avail>>

Isr == Interrupt \/ IsrControl \/ IsrReceive \/ IsrReceived \/ IsrTransmit \/ IsrTransmitted

\* altera_avalon_jtag_uart_timeout, from the timer's interrupt.
Tick ==
  /\ alarm /\ isr = "off"
  /\ IF ac THEN WriteControl(ien_AE, ien_AF, TRUE) /\ host_inactive' = 0
     ELSE /\ host_inactive' = (IF host_inactive < Timeout THEN host_inactive + 1 ELSE Timeout)
          /\ UNCHANGED coreVars
  /\ UNCHANGED <<ringVars, alarm, mainVars, isrVars>>

HostOnly == UNCHANGED <<ringVars, host_inactive, alarm, mainVars, isrVars>>
Host == HostStep /\ HostOnly

Next == Main \/ Isr \/ Tick \/ Host

\* The processor runs, the timer ticks, and the host, while it is there, takes what
\* it is given and pauses now and then.  It need not send anything, nor stay.
Fairness ==
  /\ WF_vars(Main /\ pc # "idle")
  /\ WF_vars(Isr)
  /\ WF_vars(Tick)
  /\ WF_vars(HostTakes /\ HostOnly)
  /\ WF_vars(HostPauses /\ HostOnly)

Spec == Init /\ [][Next]_vars /\ Fairness

-----------------------------------------------------------------------------
(* The two directions *)

Ring(buf, from, to) ==
  [k \in 1..((to - from) % BUF_LEN) |-> buf[(from + k - 1) % BUF_LEN]]

Transmit == INSTANCE Channel WITH
  Capacity <- BUF_LEN - 1 + WriteDepth,
  queue <- wfifo \o Ring(tx_buf, tx_out, tx_in), sent <- written, taken <- output
Receive == INSTANCE Channel WITH
  Capacity <- BUF_LEN - 1 + ReadDepth,
  queue <- Ring(rx_buf, rx_out, rx_in) \o rfifo, sent <- input, taken <- reading

-----------------------------------------------------------------------------
(* Properties *)

Index == 0..(BUF_LEN - 1)
TypeOK ==
  /\ {tx_in, tx_out, rx_in, rx_out, in, out} \subseteq Index
  /\ n \in Index /\ (pc \in {"wcopy", "wpublish"} => in + n <= BUF_LEN)
  /\ left \in 0..MaxCount
  /\ Len(wfifo) <= WriteDepth /\ Len(rfifo) <= ReadDepth
  /\ space \in 0..WriteDepth
  /\ host_inactive \in 0..Timeout
  /\ written \in 0..MaxOutput /\ input \in 0..MaxInput

\* What is printed reaches the host in order, each character once, however the
\* interrupt routine cuts into the copying (write.c:103-127 and init.c:169-195).
TransmitInOrder == Transmit!Spec

\* What the host sends reaches the program in order, each character once: none is
\* read from the FIFO without room in the buffer (init.c:125-167, read.c:120-142).
ReceiveInOrder == Receive!Spec

Writing == {"wload", "wcopy", "wpublish", "wkick"}
Reading == {"rload", "rcopy", "rrelease", "renable"}

\* No direction is switched off for good: characters in the transmit buffer have their
\* interrupt on or are about to get it, and while receive interrupts are off the receive
\* buffer holds a character, whose read turns them on, or the program is about to turn
\* them on (write.c:136-139, read.c:188-195, init.c:156-167, 188-194).  The buffer need
\* not be full, as init.c:158 says: a character that comes in the clock of a read that
\* finds the FIFO empty turns them off as well.
NotStalled ==
  /\ tx_in # tx_out => ien_AE \/ pc \in Writing
  /\ ien_AF \/ rx_in # rx_out \/ (pc \in Reading /\ progress)

\* Everything written reaches the host, unless it goes (the transmit interrupt that
\* turns itself off when the buffer is empty, init.c:188-194).
OutputReachesHost == tx_in # tx_out \/ wfifo # << >> ~> (tx_in = tx_out /\ wfifo = << >>) \/ ~host

\* A program that waits for room goes on, but for a system without a timer whose
\* host is gone (write.c:176-189).
WriterReleased == pc = "wspin" ~> pc # "wspin" \/ (~host /\ ~alarm)

\* A program that waits for input goes on once the host has sent some and stays
\* (read.c:176-181; the interrupt when the host pauses).
ReaderWakes == pc = "rspin" /\ rfifo # << >> ~> pc # "rspin" \/ ~host
=============================================================================
