------------------------------- MODULE usb_kb -------------------------------
(***************************************************************************)
(* The USB keyboard driver of lab 8 (software/usb_kb/main.c and usb.c)     *)
(* against the CY7C67200 controller and a keyboard that may be plugged in  *)
(* and pulled out at any time.  The host's step is what it does up to and  *)
(* including one access the controller can tell from the ones before.  The *)
(* controller and the keyboard are external: they are modelled as the      *)
(* driver uses them.                                                       *)
(***************************************************************************)
EXTENDS usb

CONSTANTS PlugReads, RemovalReads   \* how often the port is read again before
                                    \* the keyboard counts as absent
ASSUME ReadsAssumption == PlugReads \in Nat /\ RemovalReads \in Nat

VARIABLES
  pc, step,             \* the step of the enumeration, Poll when it is over
  usb_ctl_val, hot_plug_count, data_size,
  keycode,              \* the word read at x051E; its low byte is on the port
  mem, current,         \* the controller: its memory, the descriptor to run
  msg, flag,            \* ... the SIE1 message and its flag in HPI_STATUS
  mailbox, command,     \* ... its last mail, the command it still has to run
  device, request       \* the keyboard, and the last request it took

locals == <<usb_ctl_val, hot_plug_count, data_size, keycode>>
controllerVars == <<mem, current, msg, flag, mailbox, command>>
deviceVars == <<device, request>>
vars == <<pc, step, locals, controllerVars, deviceVars>>

HUSB_TDListDone == \h1000
OtherMessage == 0       \* the driver tells no other message from none at all
Poll == 10
PollAt == \h051C
ReportWord == -2        \* a word of the keyboard's report
DescriptorWord == -3    \* a word of one of its descriptors

Enumeration ==
  <<UsbSetAddress, UsbGetDeviceDesc1, UsbGetDeviceDesc2, UsbGetConfigDesc1,
    UsbGetConfigDesc2, UsbSetConfig, UsbClassRequest, UsbGetHidDesc, UsbGetReportDesc>>

\* The descriptor of a poll; its toggle, which changes with every poll, is left out.
PollList == TD(PollAt, data_size % 16, \h0291, 0, 0)

List == IF step = Poll THEN PollList ELSE Enumeration[step]

-----------------------------------------------------------------------------
(* The driver. *)

\* UsbSoftReset and step 1a.  The firmware restarts during the sleep, and
\* leaves garbage in the mailbox.
UsbSoftReset ==
  /\ pc = "USB_HOT_PLUG"
  /\ mailbox' = "garbage" /\ command' = "none"
  /\ current' = 0 /\ msg' = 0 /\ flag' = FALSE
  /\ step' = 1 /\ hot_plug_count' = 0
  /\ pc' = "sie1_init"
  /\ mem' = [x \in Addresses |-> Unknown]
  /\ UNCHANGED <<usb_ctl_val, data_size, keycode, deviceVars>>

Sie1Init ==
  /\ pc = "sie1_init"
  /\ command' = "HUSB_SIE1_INIT_INT"
  /\ pc' = "sie1_status"
  /\ UNCHANGED <<step, locals, mem, current, msg, flag, mailbox, deviceVars>>

\* Any bit of HPI_STATUS ends the wait, not only that of the mail.
Sie1Status ==
  /\ pc = "sie1_status"
  /\ pc' = "sie1_ack"
  /\ UNCHANGED <<step, locals, controllerVars, deviceVars>>

Sie1Ack ==
  /\ pc = "sie1_ack"
  /\ pc' = IF mailbox = "COMM_ACK" THEN "husb_reset" ELSE "USB_HOT_PLUG"
  /\ UNCHANGED <<step, locals, controllerVars, deviceVars>>

HusbReset ==
  /\ pc = "husb_reset"
  /\ command' = "HUSB_RESET_INT"
  /\ pc' = "husb_ack"
  /\ UNCHANGED <<step, locals, mem, current, msg, flag, mailbox, deviceVars>>

\* Nothing waits for the answer: the mail of step 1 passes for it.
HusbAck ==
  /\ pc = "husb_ack"
  /\ pc' = IF mailbox = "COMM_ACK" THEN "ctl_reg" ELSE "USB_HOT_PLUG"
  /\ UNCHANGED <<step, locals, controllerVars, deviceVars>>

\* What USB1_CTL_REG shows of the data lines; both are low during a bus reset.
LinesHigh == device # "off" /\ command # "HUSB_RESET_INT"

\* Faulty variant: the port is read again without an end to the count.
DetectDevice_NoEnd ==
  /\ pc = "ctl_reg"
  /\ IF LinesHigh THEN pc' = "post" /\ hot_plug_count' = 0
     ELSE pc' = pc /\ hot_plug_count' = hot_plug_count + 1
  /\ UNCHANGED <<step, usb_ctl_val, data_size, keycode, controllerVars, deviceVars>>
DetectDevice ==
  /\ pc = "ctl_reg"
  /\ IF LinesHigh THEN pc' = "post" /\ hot_plug_count' = 0
     ELSE /\ pc' = IF hot_plug_count = PlugReads THEN "no_device" ELSE pc
          /\ hot_plug_count' = IF hot_plug_count = PlugReads THEN 0 ELSE hot_plug_count + 1
  /\ UNCHANGED <<step, usb_ctl_val, data_size, keycode, controllerVars, deviceVars>>

\* Faulty variant: the keyboard is taken as it comes, without a bus reset.
AwaitDevice_NoReset ==
  /\ pc = "no_device"
  /\ LinesHigh
  /\ pc' = "post"
  /\ UNCHANGED <<step, locals, controllerVars, deviceVars>>
AwaitDevice ==
  /\ pc = "no_device"
  /\ LinesHigh
  /\ pc' = "USB_HOT_PLUG"
  /\ UNCHANGED <<step, locals, controllerVars, deviceVars>>

\* UsbSetAddress ... UsbGetReportDesc, and the descriptor of a poll: the words,
\* then the pointer.
PostList ==
  /\ pc = "post"
  /\ mem' = Overwritten(mem, List)
  /\ pc' = "start"
  /\ UNCHANGED <<step, locals, current, msg, flag, mailbox, command, deviceVars>>
StartList ==
  /\ pc = "start"
  /\ current' = ListStart
  /\ pc' = "status"
  /\ UNCHANGED <<step, locals, mem, msg, flag, mailbox, command, deviceVars>>

\* Faulty variant: the flag of the other port is tested.
TestStatus_SIE2 ==
  /\ pc = "status"
  /\ pc' = "post"
  /\ UNCHANGED <<step, locals, controllerVars, deviceVars>>
\* while (!(IO_read(HPI_STATUS) & HPI_STATUS_SIE1msg_FLAG)): without a message
\* the list is written again, over the one that may be running.
TestStatus ==
  /\ pc = "status"
  /\ pc' = IF flag THEN "wait" ELSE "post"
  /\ UNCHANGED <<step, locals, controllerVars, deviceVars>>

\* UsbWaitTDListDone reads the message, which clears its flag, and then clears it.
WaitRead ==
  /\ pc = "wait"
  /\ usb_ctl_val' = msg
  /\ flag' = FALSE
  /\ pc' = "wait_clear"
  /\ UNCHANGED <<step, hot_plug_count, data_size, keycode,
                 mem, current, msg, mailbox, command, deviceVars>>
WaitClear ==
  /\ pc = "wait_clear"
  /\ msg' = 0
  /\ pc' = IF usb_ctl_val # HUSB_TDListDone THEN "wait"
           ELSE IF step = Poll THEN "keycode" ELSE "check"
  /\ usb_ctl_val' = 0
  /\ UNCHANGED <<step, hot_plug_count, data_size, keycode,
                 mem, current, flag, mailbox, command, deviceVars>>

\* Where a step that went well goes on.
NextStep ==
  /\ step' = step + 1
  /\ pc' = IF Enumeration[step] = UsbGetConfigDesc2 THEN "device_info" ELSE "post"

\* Faulty variant: a transfer that needed a retry, or failed, counts as done.
Check_AnyResult ==
  /\ pc = "check"
  /\ IF mem[ListStart + 8] # Active THEN NextStep
     ELSE pc' = "retry" /\ UNCHANGED step
  /\ UNCHANGED <<locals, controllerVars, deviceVars>>
\* Faulty variant: of the nine copies of this test that of step 3 is left out.
Check_NotOfStep3 ==
  /\ pc = "check"
  /\ IF step = 3 \/ mem[ListStart + 8] = Ok THEN NextStep
     ELSE pc' = "retry" /\ UNCHANGED step
  /\ UNCHANGED <<locals, controllerVars, deviceVars>>
Check ==
  /\ pc = "check"
  /\ IF mem[ListStart + 8] = Ok THEN NextStep
     ELSE pc' = "retry" /\ UNCHANGED step
  /\ UNCHANGED <<locals, controllerVars, deviceVars>>

\* UsbGetRetryCnt, and goto USB_HOT_PLUG.
RetryRead ==
  /\ pc = "retry"
  /\ flag' = FALSE
  /\ pc' = IF msg = HUSB_TDListDone THEN "retry_clear" ELSE "USB_HOT_PLUG"
  /\ UNCHANGED <<step, locals, mem, current, msg, mailbox, command, deviceVars>>
RetryClear ==
  /\ pc = "retry_clear"
  /\ msg' = 0
  /\ pc' = "retry_status"
  /\ UNCHANGED <<step, locals, mem, current, flag, mailbox, command, deviceVars>>
RetryStatus ==
  /\ pc = "retry_status"
  /\ flag
  /\ pc' = "USB_HOT_PLUG"
  /\ UNCHANGED <<step, locals, controllerVars, deviceVars>>

\* The five words at x0576 overwrite what the keyboard sent there, among them
\* the size read back at x057C; the pointer makes the controller run them.
DeviceInfo ==
  /\ pc = "device_info"
  /\ mem' = WriteWords(mem, \h0576, <<\h073F, \h8105, \h0003, \h0008, \hAC0A>>)
  /\ current' = \h0576
  /\ data_size' = mem'[\h057C] % 256
  /\ pc' = "post"
  /\ UNCHANGED <<step, usb_ctl_val, hot_plug_count, keycode,
                 msg, flag, mailbox, command, deviceVars>>

ReadKeycode ==
  /\ pc = "keycode"
  /\ keycode' = mem[\h051E]
  /\ pc' = "removal"
  /\ UNCHANGED <<step, usb_ctl_val, hot_plug_count, data_size, controllerVars, deviceVars>>

TestRemoval ==
  /\ pc = "removal"
  /\ IF LinesHigh THEN pc' = "post" /\ hot_plug_count' = 0
     ELSE /\ pc' = IF hot_plug_count = RemovalReads THEN "removed" ELSE pc
          /\ hot_plug_count' = IF hot_plug_count = RemovalReads THEN 0 ELSE hot_plug_count + 1
  /\ UNCHANGED <<step, usb_ctl_val, data_size, keycode, controllerVars, deviceVars>>

AwaitReplug ==
  /\ pc = "removed"
  /\ LinesHigh
  /\ pc' = "USB_HOT_PLUG"
  /\ UNCHANGED <<step, locals, controllerVars, deviceVars>>

Driver ==
  \/ UsbSoftReset \/ Sie1Init \/ Sie1Status \/ Sie1Ack \/ HusbReset \/ HusbAck
  \/ DetectDevice \/ AwaitDevice \/ PostList \/ StartList \/ TestStatus
  \/ WaitRead \/ WaitClear \/ Check \/ RetryRead \/ RetryClear \/ RetryStatus
  \/ DeviceInfo \/ ReadKeycode \/ TestRemoval \/ AwaitReplug

-----------------------------------------------------------------------------
(* The controller's firmware and the keyboard. *)

driverVars == <<pc, step, locals>>

ExecuteCommand ==
  /\ command # "none"
  /\ command' = "none"
  /\ mailbox' = "COMM_ACK"
  /\ IF command = "HUSB_RESET_INT" /\ device # "off"
     THEN device' = "default" /\ request' = <<>>
     ELSE UNCHANGED deviceVars
  /\ UNCHANGED <<driverVars, mem, current, msg, flag>>

\* The device address, packet kind and endpoint in a descriptor's third word.
DeviceIn(packet) == packet \div 256
KindIn(packet) == (packet % 256) \div 16
EndpointIn(packet) == packet % 16

Answers(packet) ==
  CASE device = "default" -> DeviceIn(packet) = 0 /\ EndpointIn(packet) = 0
    [] device = "addressed" -> DeviceIn(packet) = 2 /\ EndpointIn(packet) = 0
    [] device = "configured" -> DeviceIn(packet) = 2
    [] OTHER -> FALSE

ListDone ==
  /\ current' = 0
  /\ msg' = HUSB_TDListDone
  /\ flag' = TRUE

Advance(next) ==
  IF next = 0 THEN ListDone ELSE current' = next /\ UNCHANGED <<msg, flag>>

\* The buffer words an answer of the given length fills.
Buffer(base, length) == {base + 2 * i : i \in 0..((length + 1) \div 2 - 1)}

Runs(a) == a # 0 /\ mem[a + 8] >= 0 /\ (mem[a + 8] \div 16) % 2 = 1

\* The keyboard answers the packet of the current descriptor, at once or after
\* a retry.  A request takes effect with its status packet.
RunTD ==
  LET base == mem[current]
      packet == mem[current + 4]
      sends == IF KindIn(packet) = 9 THEN Buffer(base, mem[current + 2]) ELSE {}
  IN  /\ command = "none" /\ Runs(current)
      /\ Answers(packet)
      /\ \E left \in IF current = ListStart THEN {Ok, Ok - 1} ELSE {Ok} :
           mem' = [x \in Addresses |->
                     IF x \in sends
                     THEN IF EndpointIn(packet) = 1 THEN ReportWord ELSE DescriptorWord
                     ELSE IF x = current + 8 THEN left ELSE mem[x]]
      /\ request' = IF KindIn(packet) = 13 THEN [i \in 1..4 |-> mem[base + 2 * (i - 1)]]
                    ELSE request
      /\ device' = IF packet % 256 = \h90 /\ mem[current + 2] = 0 /\ request # <<>>
                   THEN CASE request[1] = \h0500 -> "addressed"
                          [] request[1] = \h0900 -> "configured"
                          [] OTHER -> device
                   ELSE device
      /\ Advance(mem[current + 10])
  /\ UNCHANGED <<driverVars, mailbox, command>>

\* No answer, or a wrong one: all retries fail, and the list ends.
FailTD ==
  /\ command = "none" /\ Runs(current)
  /\ mem' = [mem EXCEPT ![current + 8] = 0]
  /\ ListDone
  /\ UNCHANGED <<driverVars, mailbox, command, deviceVars>>

\* A descriptor that is not active is passed over.
SkipTD ==
  /\ command = "none" /\ current # 0 /\ ~Runs(current)
  /\ mem[current + 10] \in Addresses \union {0}
  /\ Advance(mem[current + 10])
  /\ UNCHANGED <<driverVars, mem, mailbox, command, deviceVars>>

\* The words at x0576 link to what the keyboard sent, or to nothing: who knows
\* where that leads, and whether the firmware then reports a list as done.
RunAstray ==
  /\ command = "none" /\ current # 0 /\ ~Runs(current)
  /\ mem[current + 10] \notin Addresses \union {0}
  /\ \/ ListDone
     \/ current' = 0 /\ UNCHANGED <<msg, flag>>
  /\ UNCHANGED <<driverVars, mem, mailbox, command, deviceVars>>

Controller == RunTD \/ FailTD \/ SkipTD \/ RunAstray

\* A_CHG_IRQ_EN (main.c:76) has the firmware send a message of its own when the
\* keyboard comes or goes.
PlugMessage ==
  /\ msg' = OtherMessage /\ flag' = TRUE
  /\ UNCHANGED <<driverVars, mem, current, mailbox, command>>
PlugIn ==
  /\ device = "off"
  /\ device' = "powered"
  /\ UNCHANGED request
  /\ PlugMessage
PullOut ==
  /\ device # "off"
  /\ device' = "off"
  /\ request' = <<>>
  /\ PlugMessage

Init ==
  /\ pc = "USB_HOT_PLUG" /\ step = 1
  /\ usb_ctl_val = 0 /\ hot_plug_count = 0 /\ data_size = 0 /\ keycode = 0
  /\ mem = [x \in Addresses |-> Unknown] /\ current = 0
  /\ msg = 0 /\ flag = FALSE /\ mailbox = "garbage" /\ command = "none"
  /\ device \in {"off", "powered"} /\ request = <<>>

Next == Driver \/ ExecuteCommand \/ Controller \/ PlugIn \/ PullOut

Spec == Init /\ [][Next]_vars

\* The processor runs, and the firmware executes commands and lists: in the end
\* the keyboard answers or the transfer fails.  The sleep of 10 ms between two
\* reposts is longer than a list takes, so that however often a list is posted
\* anew the controller comes to the end of one.
Fairness ==
  /\ WF_vars(Driver) /\ WF_vars(ExecuteCommand)
  /\ WF_vars(Controller) /\ SF_vars(Controller /\ ListDone)
FairSpec == Spec /\ Fairness

\* The same with a keyboard that nobody touches.
UntouchedSpec == Init /\ [][Driver \/ ExecuteCommand \/ Controller]_vars /\ Fairness

-----------------------------------------------------------------------------
(* Properties *)

\* The values the variables take; the counter stays within the port reads of
\* main.c:142 and 564, and the controller within its lists.
TypeOK ==
  /\ pc \in {"USB_HOT_PLUG", "sie1_init", "sie1_status", "sie1_ack", "husb_reset",
             "husb_ack", "ctl_reg", "no_device", "post", "start", "status", "wait",
             "wait_clear", "check", "retry", "retry_clear", "retry_status",
             "device_info", "keycode", "removal", "removed"}
  /\ step \in 1..Poll
  /\ {usb_ctl_val, msg} \subseteq {OtherMessage, HUSB_TDListDone}
  /\ hot_plug_count \in 0..(IF pc = "removal" THEN RemovalReads ELSE PlugReads)
  /\ data_size \in 0..255 /\ keycode \in Int
  /\ mem \in [Addresses -> Int] /\ current \in Addresses \union {0}
  /\ flag \in BOOLEAN /\ mailbox \in {"garbage", "COMM_ACK"}
  /\ command \in {"none", "HUSB_SIE1_INIT_INT", "HUSB_RESET_INT"}
  /\ device \in {"off", "powered", "default", "addressed", "configured"}
  /\ request = <<>> \/ request \in [1..4 -> Nat]

\* While the driver waits for a list, what the keyboard sends overwrites no word
\* of it, and neither does what a list of an earlier step still does: only the
\* controller's retry words change (the buffers and links of usb.c:116-534).
ListIntact ==
  pc \in {"status", "wait", "wait_clear", "check"} =>
    \A i \in DOMAIN List :
      LET word == mem[ListStart + 2 * (i - 1)]
      IN  word = List[i] \/ (List[i] = Active /\ word \in {0, Ok - 1, Ok})

\* Past the first device descriptor no keyboard is left at address 0, though a
\* message may have been a stale one: the descriptor is asked for at address 2
\* (usb.c:153, main.c:225).
Addressed == step > 2 => device # "default"

\* A keyboard gets the requests in their order, again perhaps, but none left
\* out, whatever messages are stale or lost (main.c:195-495).
RequestOf(s) == SubSeq(Enumeration[s], 7, 10)
Place(r) == IF r = <<>> THEN 0 ELSE CHOOSE s \in DOMAIN Enumeration : RequestOf(s) = r
RequestsInOrder ==
  [][request' # request => request' = <<>> \/ Place(request') = Place(request) + 1]_vars

\* A keyboard that is plugged in while the driver waits for one, and stays in,
\* makes it start again (main.c:152-159, 577-591).
PlugNoticed ==
  (pc \in {"no_device", "removed"} /\ LinesHigh) ~> (pc = "USB_HOT_PLUG" \/ ~LinesHigh)

\* Posting a list over and over comes to an end (main.c:181 and its like).
StatusLoopEnds == (pc = "status") ~> (pc = "wait")

\* main.c:404 prints "set configuration done!": past that step, the keyboard is
\* configured.  The code does not keep this: only the retry word of the setup
\* packet is looked at, and the status packet may have failed.
Configured == step > 6 => device # "addressed"

\* usb.h:92, "Check and wait until HUSB_TDListDone is read from HPI Data": the
\* message is read in the end.  The code does not keep this, not even with a
\* keyboard nobody touches: it clears the register unread when the message comes
\* between the two accesses.
WaitEnds == (pc = "wait") ~> (pc \in {"check", "keycode"})
=============================================================================
