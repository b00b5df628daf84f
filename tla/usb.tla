-------------------------------- MODULE usb ---------------------------------
(***************************************************************************)
(* The transfer lists usb.c writes into the memory of the CY7C67200.  A    *)
(* transfer descriptor is six words: the buffer, the length, the packet's  *)
(* kind, endpoint and device, the toggle, the retry word, and the address  *)
(* of the next descriptor.  The lists start at x0500, with the eight bytes *)
(* of the request at x050C.  UsbX is the words UsbX() writes from x0500 on.*)
(***************************************************************************)
EXTENDS Integers, Sequences

ListStart == \h0500
RequestAt == \h050C

\* The memory the lists and their buffers take, word by word, but for most of the
\* report descriptor, which no one reads; its first content is Unknown.
Addresses == {ListStart + 2 * i : i \in 0..64}
Unknown == -1

Active == \h13                 \* retry words: to be done, three retries left,
Ok == \h03                     \* done without a retry

TD(base, length, packet, toggle, next) == <<base, length, packet, toggle, Active, next>>
SetUp == TD(RequestAt, 8, \h02D0, \h01, \h0514)
DataIn(base, length, toggle, next) == TD(base, length, \h0290, toggle, next)
StatusIn == TD(0, 0, \h0290, \h41, 0)
StatusOut == TD(0, 0, \h0210, \h41, 0)

UsbSetAddress ==
  TD(RequestAt, 8, \h00D0, \h01, \h0514) \o <<\h0500, \h0002, 0, 0>>
  \o TD(0, 0, \h0090, \h41, 0)

UsbGetDeviceDesc1 ==
  SetUp \o <<\h0680, \h0100, 0, \h0008>> \o DataIn(\h052C, 8, \h41, \h0520) \o StatusOut

UsbGetDeviceDesc2 ==
  SetUp \o <<\h0680, \h0100, 0, \h0012>>
  \o DataIn(\h0544, 8, \h41, \h0520) \o DataIn(\h054C, 8, \h01, \h052C)
  \o DataIn(\h0554, 2, \h41, \h0538) \o StatusOut

UsbGetConfigDesc1 ==
  SetUp \o <<\h0680, \h0200, 0, \h0009>>
  \o DataIn(\h0544, 8, \h41, \h0520) \o DataIn(\h054C, 1, \h01, \h052C) \o StatusOut

\* Faulty variant: the buffers begin where those of the other lists do.
UsbGetConfigDesc2_LowBuffer ==
  SetUp \o <<\h0680, \h0200, 0, \h00FF>>
  \o DataIn(\h0544, 8, \h41, \h0520) \o DataIn(\h054C, 8, \h01, \h052C)
  \o DataIn(\h0554, 8, \h41, \h0538) \o DataIn(\h055C, 8, \h01, \h0544)
  \o DataIn(\h0564, 2, \h41, \h0550) \o StatusOut
UsbGetConfigDesc2 ==
  SetUp \o <<\h0680, \h0200, 0, \h00FF>>
  \o DataIn(\h055C, 8, \h41, \h0520) \o DataIn(\h0564, 8, \h01, \h052C)
  \o DataIn(\h056C, 8, \h41, \h0538) \o DataIn(\h0574, 8, \h01, \h0544)
  \o DataIn(\h057C, 2, \h41, \h0550) \o StatusOut

UsbSetConfig == SetUp \o <<\h0900, \h0001, 0, 0>> \o StatusIn

UsbClassRequest == SetUp \o <<\h0A21, 0, 0, 0>> \o StatusIn

UsbGetHidDesc ==
  SetUp \o <<\h0681, \h2100, 0, \h007B>> \o DataIn(\h0544, 8, \h41, \h0520) \o StatusOut

UsbGetReportDesc ==
  SetUp \o <<\h0681, \h2200, 0, \h007B>>
  \o DataIn(\h0580, 8, \h41, \h0520) \o DataIn(\h0588, 8, \h01, \h052C)
  \o DataIn(\h0590, 8, \h41, \h0538) \o DataIn(\h0598, 8, \h01, \h0544)
  \o DataIn(\h05A0, 8, \h41, \h0550) \o DataIn(\h05A8, 8, \h01, \h055C)
  \o DataIn(\h05B0, 8, \h41, \h0568) \o DataIn(\h05B8, 3, \h01, \h0574) \o StatusOut

\* Memory mem after the words are written from address a on, and after a list is.
\* No one reads the words beside a list before they are written again, but for
\* those where the poll has its report: Overwritten forgets them.
WriteWords(mem, a, words) ==
  [x \in Addresses |-> IF x \in {a + 2 * (i - 1) : i \in DOMAIN words}
                       THEN words[(x - a) \div 2 + 1] ELSE mem[x]]

PollBuffer == {\h051C, \h051E, \h0520, \h0522}
Overwritten(mem, words) ==
  WriteWords([x \in Addresses |-> IF x \in PollBuffer THEN mem[x] ELSE Unknown],
             ListStart, words)
=============================================================================
