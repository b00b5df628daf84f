---------------------------- MODULE jtag_uart_core ----------------------------
(***************************************************************************)
(* The JTAG UART of the Nios II systems (lab9_soc_jtag_uart_0.v): a FIFO   *)
(* each way between the driver and the host at the other end of the cable, *)
(* and an interrupt when the one to the host is almost empty, or when the  *)
(* one from the host is almost full or the host pauses.                    *)
(***************************************************************************)
EXTENDS Naturals, Sequences

CONSTANTS
  WriteDepth, ReadDepth,        \* 64 each
  AlmostEmpty, AlmostFull,      \* 8 each
  MaxInput                      \* bound: the characters the host sends

VARIABLES
  wfifo, rfifo,
  ien_AE, ien_AF,               \* the two interrupt enables
  pause_irq, ac,                \* the host paused; the host was active
  host,                         \* the host is there
  input,                        \* how many characters the host has sent
  output                        \* history: the characters the host took

fifoVars == <<wfifo, rfifo>>
coreVars == <<wfifo, rfifo, ien_AE, ien_AF, pause_irq, ac, host, input, output>>

\* After a reset and the driver's first write of the control register.
CoreInit(RE) ==
  /\ wfifo = << >> /\ rfifo = << >>
  /\ ien_AE = FALSE /\ ien_AF = RE
  /\ pause_irq = FALSE /\ ac = FALSE
  /\ host \in BOOLEAN
  /\ input = 0 /\ output = << >>

\* Faulty variant: strictly fewer than the threshold.
ipen_AE_Strict == ien_AE /\ Len(wfifo) < AlmostEmpty
ipen_AE == ien_AE /\ Len(wfifo) <= AlmostEmpty
\* Faulty variant: a pause of the host does not interrupt.
ipen_AF_NoPause == ien_AF /\ ReadDepth - Len(rfifo) <= AlmostFull
ipen_AF == ien_AF /\ (pause_irq \/ ReadDepth - Len(rfifo) <= AlmostFull)
av_irq == ipen_AE \/ ipen_AF
WriteSpace == WriteDepth - Len(wfifo)

-----------------------------------------------------------------------------
(* The processor's accesses *)

\* A character for a full FIFO is dropped.
WriteData(c) ==
  /\ wfifo' = (IF Len(wfifo) < WriteDepth THEN Append(wfifo, c) ELSE wfifo)
  /\ UNCHANGED <<rfifo, ien_AE, ien_AF, pause_irq, ac, host, input, output>>

\* The host has a character, and there is room for it.
Sending == host /\ input < MaxInput /\ Len(rfifo) < ReadDepth

\* Reading takes the first character, if there is one in the clock of the request
\* (RVALID).  The answer shows a clock later how many are left (RAVAIL): a character
\* that the host writes in the clock of the request is counted, not taken.
ReadData(sends) ==
  /\ sends => Sending
  /\ LET rest == IF rfifo = << >> THEN rfifo ELSE Tail(rfifo)
     IN  rfifo' = (IF sends THEN Append(rest, input + 1) ELSE rest)
  /\ input' = (IF sends THEN input + 1 ELSE input)
  /\ ac' = (ac \/ sends)
  /\ pause_irq' = FALSE
  /\ UNCHANGED <<wfifo, ien_AE, ien_AF, host, output>>

\* Clears the activity bit when asked to.
WriteControl(WE, RE, clearAC) ==
  /\ ien_AE' = WE /\ ien_AF' = RE
  /\ ac' = (ac /\ ~clearAC)
  /\ UNCHANGED <<wfifo, rfifo, pause_irq, host, input, output>>

-----------------------------------------------------------------------------
(* The host *)

HostSends ==
  /\ Sending
  /\ rfifo' = Append(rfifo, input + 1) /\ input' = input + 1
  /\ ac' = TRUE
  /\ UNCHANGED <<wfifo, ien_AE, ien_AF, pause_irq, host, output>>

HostPauses ==
  /\ host
  /\ pause_irq' = (pause_irq \/ rfifo # << >>)
  /\ ac' = TRUE
  /\ UNCHANGED <<wfifo, rfifo, ien_AE, ien_AF, host, input, output>>

HostTakes ==
  /\ host /\ wfifo # << >>
  /\ output' = Append(output, Head(wfifo)) /\ wfifo' = Tail(wfifo)
  /\ UNCHANGED <<rfifo, ien_AE, ien_AF, pause_irq, ac, host, input>>

\* The terminal is closed, or the cable pulled out.
HostLeaves ==
  /\ host /\ host' = FALSE
  /\ UNCHANGED <<wfifo, rfifo, ien_AE, ien_AF, pause_irq, ac, input, output>>

HostStep == HostSends \/ HostPauses \/ HostTakes \/ HostLeaves
=============================================================================
