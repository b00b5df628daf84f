---------------------------- MODULE usb_kb_proofs ----------------------------
(***************************************************************************)
(* The keyboard driver of lab 8, for any number of port reads before the   *)
(* keyboard counts as absent: its lists stay intact in the controller's    *)
(* memory, no keyboard is left at address 0 and the requests come in order *)
(* whatever messages are late, stale or lost.                              *)
(***************************************************************************)
EXTENDS usb_kb, SequenceTheorems, TLAPS

-----------------------------------------------------------------------------
(* The lists *)

\* The list of a step as it lies in the memory; of the poll, with the size read
\* back from x057C.
PollWords == TD(PollAt, 8, \h0291, 0, 0)
Words(h) == IF h = Poll THEN PollWords ELSE Enumeration[h]
Size(h) == Len(Words(h))
EndAt(size) == ListStart + 2 * (size - 1)
EndOf(h) == EndAt(Size(h))

\* The request of a step; none before the first.
RequestFor(h) == IF h = 0 THEN <<>> ELSE RequestOf(h)

\* Where descriptors start, and the places of their first words in a list.
Grid == {\h0500, \h0514, \h0520, \h052C, \h0538, \h0544, \h0550, \h055C, \h0568, \h0574}
Places == {1, 11, 17, 23, 29, 35, 41, 47, 53, 59}

\* The descriptor at place k of list L, which is that of step h and ends at end: its
\* first three words and the last are no retry words, it links to a descriptor, it is
\* for the address the keyboard has in that step, only the first is a setup packet,
\* and what an answer fills lies beyond the list.
DescriptorOK(L, end, h, k) ==
  /\ L[k] # Active /\ L[k + 1] # Active /\ L[k + 2] # Active /\ L[k + 5] # Active
  /\ L[k + 4] = Active
  /\ L[k + 5] \in Grid \cup {0}
  /\ DeviceIn(L[k + 2]) = IF h = 1 THEN 0 ELSE 2
  /\ KindIn(L[k + 2]) = 13 => k = 1 /\ h # Poll
  /\ k = 1 /\ h # Poll => KindIn(L[k + 2]) = 13 /\ L[k] = RequestAt
  /\ KindIn(L[k + 2]) = 9 => L[k + 1] = 0 \/ L[k] > end

ListOK(L, h) ==
  /\ L \in Seq(Nat) /\ Len(L) \in 6..64
  /\ \A k \in Places : k <= Len(L) => k + 5 <= Len(L) /\ DescriptorOK(L, EndAt(Len(L)), h, k)
  /\ h # Poll => Len(L) >= 16
  /\ h # Poll => L[7] # Active /\ L[8] # Active /\ L[9] # Active /\ L[10] # Active

\* Each list by itself.
LEMMA Lists == \A h \in 1..Poll : ListOK(Words(h), h)
<1>1. /\ Words(1) = UsbSetAddress /\ Words(2) = UsbGetDeviceDesc1
      /\ Words(3) = UsbGetDeviceDesc2 /\ Words(4) = UsbGetConfigDesc1
      /\ Words(5) = UsbGetConfigDesc2 /\ Words(6) = UsbSetConfig
      /\ Words(7) = UsbClassRequest /\ Words(8) = UsbGetHidDesc
      /\ Words(9) = UsbGetReportDesc /\ Words(10) = PollWords
  BY DEF Words, Enumeration, Poll
<1>2. \A h \in 1..Poll : h = 1 \/ h = 2 \/ h = 3 \/ h = 4 \/ h = 5
                         \/ h = 6 \/ h = 7 \/ h = 8 \/ h = 9 \/ h = 10
  BY DEF Poll
<1>. USE DEF ListOK, DescriptorOK, Places, Grid, EndAt, DeviceIn, KindIn, Poll, ListStart,
             RequestAt, SetUp, DataIn, StatusIn, StatusOut, TD, Active
<1>3. ListOK(UsbSetAddress, 1)
  BY SMTT(60) DEF UsbSetAddress
<1>4. ListOK(UsbGetDeviceDesc1, 2)
  BY SMTT(60) DEF UsbGetDeviceDesc1
<1>5. ListOK(UsbGetDeviceDesc2, 3)
  BY SMTT(60) DEF UsbGetDeviceDesc2
<1>6. ListOK(UsbGetConfigDesc1, 4)
  BY SMTT(60) DEF UsbGetConfigDesc1
<1>7. ListOK(UsbGetConfigDesc2, 5)
  BY SMTT(60) DEF UsbGetConfigDesc2
<1>8. ListOK(UsbSetConfig, 6)
  BY SMTT(60) DEF UsbSetConfig
<1>9. ListOK(UsbClassRequest, 7)
  BY SMTT(60) DEF UsbClassRequest
<1>10. ListOK(UsbGetHidDesc, 8)
  BY SMTT(60) DEF UsbGetHidDesc
<1>11. ListOK(UsbGetReportDesc, 9)
  BY SMTT(60) DEF UsbGetReportDesc
<1>12. ListOK(PollWords, 10)
  BY SMTT(60) DEF PollAt, PollWords
<1>. HIDE DEF ListOK, Poll
<1>. QED
  BY <1>1, <1>2, <1>3, <1>4, <1>5, <1>6, <1>7, <1>8, <1>9, <1>10, <1>11, <1>12, Zenon

\* The same, of the list of a step.
LEMMA ListIs ==
  ASSUME NEW h \in 1..Poll
  PROVE  /\ Size(h) \in 6..64 /\ Words(h) \in [1..Size(h) -> Nat]
         /\ \A k \in Places : k <= Size(h) =>
              k + 5 <= Size(h) /\ DescriptorOK(Words(h), EndOf(h), h, k)
         /\ h # Poll => Size(h) >= 16
         /\ h # Poll => /\ Words(h)[7] # Active /\ Words(h)[8] # Active
                        /\ Words(h)[9] # Active /\ Words(h)[10] # Active
<1>1. ListOK(Words(h), h)
  BY Lists
<1>2. Words(h) \in Seq(Nat)
  BY <1>1 DEF ListOK
<1>3. Words(h) \in [1..Size(h) -> Nat]
  BY <1>2 DEF Size
<1>4. /\ Size(h) \in 6..64
      /\ h # Poll => Size(h) >= 16
      /\ h # Poll => /\ Words(h)[7] # Active /\ Words(h)[8] # Active
                     /\ Words(h)[9] # Active /\ Words(h)[10] # Active
  BY <1>1, Zenon DEF ListOK, Size
<1>5. \A k \in Places : k <= Size(h) =>
        k + 5 <= Size(h) /\ DescriptorOK(Words(h), EndOf(h), h, k)
  BY <1>1, Zenon DEF ListOK, Size, EndOf
<1>. QED
  BY <1>3, <1>4, <1>5, Zenon

\* The words of a request, which tell the steps apart.
RequestWords(L, v1, v2, v3, v4) ==
  L[7] = v1 /\ L[8] = v2 /\ L[9] = v3 /\ L[10] = v4
\* Each request by itself (its words lie at x050C, usb.c:130-133 and their like).
LEMMA Requests ==
  /\ RequestWords(UsbSetAddress, \h0500, \h0002, 0, 0)
  /\ RequestWords(UsbGetDeviceDesc1, \h0680, \h0100, 0, \h0008)
  /\ RequestWords(UsbGetDeviceDesc2, \h0680, \h0100, 0, \h0012)
  /\ RequestWords(UsbGetConfigDesc1, \h0680, \h0200, 0, \h0009)
  /\ RequestWords(UsbGetConfigDesc2, \h0680, \h0200, 0, \h00FF)
  /\ RequestWords(UsbSetConfig, \h0900, \h0001, 0, 0)
  /\ RequestWords(UsbClassRequest, \h0A21, 0, 0, 0)
  /\ RequestWords(UsbGetHidDesc, \h0681, \h2100, 0, \h007B)
  /\ RequestWords(UsbGetReportDesc, \h0681, \h2200, 0, \h007B)
<1>. USE DEF RequestWords, RequestAt, SetUp, DataIn, StatusIn, StatusOut, TD, Active
<1>1. RequestWords(UsbSetAddress, \h0500, \h0002, 0, 0)
  BY SMTT(60) DEF UsbSetAddress
<1>2. RequestWords(UsbGetDeviceDesc1, \h0680, \h0100, 0, \h0008)
  BY SMTT(60) DEF UsbGetDeviceDesc1
<1>3. RequestWords(UsbGetDeviceDesc2, \h0680, \h0100, 0, \h0012)
  BY SMTT(60) DEF UsbGetDeviceDesc2
<1>4. RequestWords(UsbGetConfigDesc1, \h0680, \h0200, 0, \h0009)
  BY SMTT(60) DEF UsbGetConfigDesc1
<1>5. RequestWords(UsbGetConfigDesc2, \h0680, \h0200, 0, \h00FF)
  BY SMTT(60) DEF UsbGetConfigDesc2
<1>6. RequestWords(UsbSetConfig, \h0900, \h0001, 0, 0)
  BY SMTT(60) DEF UsbSetConfig
<1>7. RequestWords(UsbClassRequest, \h0A21, 0, 0, 0)
  BY SMTT(60) DEF UsbClassRequest
<1>8. RequestWords(UsbGetHidDesc, \h0681, \h2100, 0, \h007B)
  BY SMTT(60) DEF UsbGetHidDesc
<1>9. RequestWords(UsbGetReportDesc, \h0681, \h2200, 0, \h007B)
  BY SMTT(60) DEF UsbGetReportDesc
<1>. HIDE DEF RequestWords
<1>. QED
  BY <1>1, <1>2, <1>3, <1>4, <1>5, <1>6, <1>7, <1>8, <1>9

\* RequestOf, place by place.
LEMMA RequestIs ==
  ASSUME NEW h \in 1..9
  PROVE  /\ RequestOf(h) = [i \in 1..4 |-> Words(h)[i + 6]]
         /\ RequestOf(h) \in [1..4 -> Nat]
<1>0. h \in 1..Poll /\ h # Poll
  BY DEF Poll
<1>1. Words(h) \in Seq(Nat) /\ Len(Words(h)) >= 16
  BY <1>0, Lists DEF ListOK
<1>2. SubSeq(Words(h), 7, 10) = [i \in 1..4 |-> Words(h)[i + 6]]
  <2>1. DOMAIN SubSeq(Words(h), 7, 10) = 1..4 /\ SubSeq(Words(h), 7, 10) \in Seq(Nat)
    BY <1>1, SubSeqProperties
  <2>2. \A i \in 1..4 : SubSeq(Words(h), 7, 10)[i] = Words(h)[i + 6]
    BY <1>1, SubSeqProperties
  <2>. QED
    BY <2>1, <2>2
<1>3. RequestOf(h) = SubSeq(Words(h), 7, 10)
  BY <1>0, Zenon DEF RequestOf, Words
<1>4. \A i \in 1..4 : Words(h)[i + 6] \in Nat
  BY <1>1
<1>. QED
  BY <1>2, <1>3, <1>4

\* No two steps have the same request.
LEMMA Distinct == \A g, h \in 1..9 : RequestOf(g) = RequestOf(h) => g = h
<1>1. /\ Words(1) = UsbSetAddress /\ Words(2) = UsbGetDeviceDesc1
      /\ Words(3) = UsbGetDeviceDesc2 /\ Words(4) = UsbGetConfigDesc1
      /\ Words(5) = UsbGetConfigDesc2 /\ Words(6) = UsbSetConfig
      /\ Words(7) = UsbClassRequest /\ Words(8) = UsbGetHidDesc
      /\ Words(9) = UsbGetReportDesc
  BY DEF Words, Enumeration, Poll
<1>2. \A h \in 1..9 :
        /\ RequestOf(h)[1] = Words(h)[7]
        /\ RequestOf(h)[2] = Words(h)[8]
        /\ RequestOf(h)[4] = Words(h)[10]
  BY RequestIs
<1>3. /\ Words(1)[7] = \h0500
      /\ Words(2)[7] = \h0680 /\ Words(2)[8] = \h0100 /\ Words(2)[10] = \h0008
      /\ Words(3)[7] = \h0680 /\ Words(3)[8] = \h0100 /\ Words(3)[10] = \h0012
      /\ Words(4)[7] = \h0680 /\ Words(4)[8] = \h0200 /\ Words(4)[10] = \h0009
      /\ Words(5)[7] = \h0680 /\ Words(5)[8] = \h0200 /\ Words(5)[10] = \h00FF
      /\ Words(6)[7] = \h0900 /\ Words(7)[7] = \h0A21
      /\ Words(8)[7] = \h0681 /\ Words(8)[8] = \h2100
      /\ Words(9)[7] = \h0681 /\ Words(9)[8] = \h2200
  <2>1. Words(1)[7] = \h0500
    BY <1>1, Requests DEF RequestWords
  <2>2. Words(2)[7] = \h0680 /\ Words(2)[8] = \h0100 /\ Words(2)[10] = \h0008
    BY <1>1, Requests DEF RequestWords
  <2>3. Words(3)[7] = \h0680 /\ Words(3)[8] = \h0100 /\ Words(3)[10] = \h0012
    BY <1>1, Requests DEF RequestWords
  <2>4. Words(4)[7] = \h0680 /\ Words(4)[8] = \h0200 /\ Words(4)[10] = \h0009
    BY <1>1, Requests DEF RequestWords
  <2>5. Words(5)[7] = \h0680 /\ Words(5)[8] = \h0200 /\ Words(5)[10] = \h00FF
    BY <1>1, Requests DEF RequestWords
  <2>6. Words(6)[7] = \h0900 /\ Words(6)[8] = \h0001 /\ Words(6)[10] = 0
    BY <1>1, Requests DEF RequestWords
  <2>7. Words(7)[7] = \h0A21 /\ Words(7)[8] = 0 /\ Words(7)[10] = 0
    BY <1>1, Requests DEF RequestWords
  <2>8. Words(8)[7] = \h0681 /\ Words(8)[8] = \h2100 /\ Words(8)[10] = \h007B
    BY <1>1, Requests DEF RequestWords
  <2>9. Words(9)[7] = \h0681 /\ Words(9)[8] = \h2200 /\ Words(9)[10] = \h007B
    BY <1>1, Requests DEF RequestWords
  <2>. QED
    BY <2>1, <2>2, <2>3, <2>4, <2>5, <2>6, <2>7, <2>8, <2>9
<1> DEFINE a(h) == RequestOf(h)[1]  b(h) == RequestOf(h)[2]  d(h) == RequestOf(h)[4]
<1>4. /\ a(1) = \h0500
      /\ a(2) = \h0680 /\ b(2) = \h0100 /\ d(2) = \h0008
      /\ a(3) = \h0680 /\ b(3) = \h0100 /\ d(3) = \h0012
      /\ a(4) = \h0680 /\ b(4) = \h0200 /\ d(4) = \h0009
      /\ a(5) = \h0680 /\ b(5) = \h0200 /\ d(5) = \h00FF
      /\ a(6) = \h0900 /\ a(7) = \h0A21
      /\ a(8) = \h0681 /\ b(8) = \h2100
      /\ a(9) = \h0681 /\ b(9) = \h2200
  <2>. HIDE DEF Words, RequestOf
  <2>. QED
    BY <1>2, <1>3
<1>5. ASSUME NEW g \in 1..9, NEW h \in 1..9, a(g) = a(h), b(g) = b(h), d(g) = d(h)
      PROVE  g = h
  <2>1. /\ g = 1 \/ g = 2 \/ g = 3 \/ g = 4 \/ g = 5 \/ g = 6 \/ g = 7 \/ g = 8 \/ g = 9
        /\ h = 1 \/ h = 2 \/ h = 3 \/ h = 4 \/ h = 5 \/ h = 6 \/ h = 7 \/ h = 8 \/ h = 9
    OBVIOUS
  <2>. HIDE DEF a, b, d
  <2>. QED
    BY <1>4, <1>5, <2>1
<1>. QED
  BY <1>5

\* So a request shows its step.
LEMMA PlaceOf == \A h \in 0..9 : Place(RequestFor(h)) = h
<1>1. Place(RequestFor(0)) = 0
  BY DEF Place, RequestFor
<1>2. ASSUME NEW h \in 1..9 PROVE Place(RequestFor(h)) = h
  <2>1. RequestFor(h) = RequestOf(h)
    BY DEF RequestFor
  <2>2. RequestOf(h) # <<>>
    <3>1. DOMAIN RequestOf(h) = 1..4 /\ 1 \in 1..4
      BY RequestIs
    <3>2. DOMAIN <<>> = {}
      OBVIOUS
    <3>. QED
      BY <3>1, <3>2
  <2>3. DOMAIN Enumeration = 1..9
    BY DEF Enumeration
  <2>4. (CHOOSE s \in DOMAIN Enumeration : RequestOf(s) = RequestOf(h)) = h
    BY <2>3, Distinct
  <2>. QED
    BY <2>1, <2>2, <2>4 DEF Place
<1>. QED
  BY <1>1, <1>2

-----------------------------------------------------------------------------
(* A list in the memory *)

\* List h is in memory m, but for the retry words the controller has written; beside
\* it nothing that passes for a descriptor.
Intact(m, h) ==
  \A n \in 1..Size(h) :
    LET word == m[ListStart + 2 * (n - 1)]
    IN  word = Words(h)[n] \/ (Words(h)[n] = Active /\ word \in {0, Ok - 1, Ok})
Beside(m, h) == \A x \in Addresses \ PollBuffer : x > EndOf(h) => m[x] < 0
Held(m, h) == Intact(m, h) /\ Beside(m, h)

\* The first retry word, and what it is after a setup packet that went well.
Retry == ListStart + 8
Done == {Ok, Ok - 1}

\* The link that a descriptor behind a poll's would have.
LinkOK(m) == m[\h051E] < 0 \/ m[\h051E] \in Grid \cup {0}

\* What Beside says of one word.
LEMMA IsBeyond ==
  ASSUME NEW m, NEW h, Beside(m, h), NEW x \in Addresses \ PollBuffer, x > EndOf(h)
  PROVE  m[x] < 0
BY DEF Beside

\* A descriptor's place in its list.
LEMMA GridPlaces == \A c \in Grid : \E k \in Places : c = ListStart + 2 * (k - 1)
BY DEF Grid, Places, ListStart

\* The words of the memory, counted from the start of the lists.
LEMMA InMemory ==
  /\ \A n \in 1..65 : ListStart + 2 * (n - 1) \in Addresses
  /\ \A x \in Addresses : \E n \in 1..65 : x = ListStart + 2 * (n - 1)
<1>1. ASSUME NEW n \in 1..65 PROVE ListStart + 2 * (n - 1) \in Addresses
  <2>1. n - 1 \in 0..64
    OBVIOUS
  <2>. QED
    BY <2>1 DEF Addresses
<1>2. ASSUME NEW x \in Addresses PROVE \E n \in 1..65 : x = ListStart + 2 * (n - 1)
  <2>1. PICK j \in 0..64 : x = ListStart + 2 * j
    BY DEF Addresses
  <2>2. j + 1 \in 1..65 /\ (j + 1) - 1 = j
    OBVIOUS
  <2>. QED
    BY <2>1, <2>2
<1>. QED
  BY <1>1, <1>2

\* Where a list ends, and where its words and some words beyond it are.
LEMMA SizeOf ==
  ASSUME NEW h \in 1..Poll
  PROVE  /\ EndOf(h) \in Int /\ EndOf(h) < \h0580
         /\ h = 6 => EndOf(h) < \h057E
         /\ h = Poll => Size(h) = 6
         /\ h # Poll => 11 \in 1..Size(h) /\ 11 <= Size(h) /\ 16 \in 1..Size(h)
         /\ 1 \in 1..Size(h) /\ 1 <= Size(h) /\ 5 \in 1..Size(h)
         /\ \A n \in 1..Size(h) : n \in 1..65 /\ ListStart + 2 * (n - 1) <= EndOf(h)
<1>1. Size(h) \in 6..64 /\ (h # Poll => Size(h) >= 16)
  BY ListIs
<1>2. h = 6 => Size(h) = 16
  <2>1. Words(6) = UsbSetConfig
    BY DEF Words, Enumeration, Poll
  <2>2. Len(UsbSetConfig) = 16
    BY DEF UsbSetConfig, SetUp, StatusIn, TD, RequestAt, Active
  <2>. QED
    BY <2>1, <2>2, Zenon DEF Size
<1>3. h = Poll => Size(h) = 6
  BY DEF Size, Words, PollWords, TD
<1>4. EndOf(h) = ListStart + 2 * (Size(h) - 1)
  BY DEF EndOf, EndAt
<1>5. \A n \in 1..Size(h) : n \in 1..65 /\ ListStart + 2 * (n - 1) <= EndOf(h)
  BY <1>1, <1>4 DEF ListStart
<1>6. EndOf(h) \in Int /\ EndOf(h) < \h0580 /\ (h = 6 => EndOf(h) < \h057E)
  BY <1>1, <1>2, <1>4 DEF ListStart
<1>. QED
  BY <1>1, <1>3, <1>5, <1>6

\* The words around which things are shown to be are in the memory.
LEMMA InMemoryToo ==
  /\ ListStart \in Addresses /\ Retry \in Addresses /\ \h051E \in Addresses
  /\ \h0576 \in Addresses /\ \h057C \in Addresses
  /\ \h057E \in Addresses \ PollBuffer /\ \h0580 \in Addresses \ PollBuffer
  /\ Retry = ListStart + 2 * (5 - 1) /\ \h051E = ListStart + 2 * (16 - 1)
<1>1. /\ 1 \in 1..65 /\ ListStart = ListStart + 2 * (1 - 1)
      /\ 5 \in 1..65 /\ Retry = ListStart + 2 * (5 - 1)
      /\ 16 \in 1..65 /\ \h051E = ListStart + 2 * (16 - 1)
      /\ 60 \in 1..65 /\ \h0576 = ListStart + 2 * (60 - 1)
      /\ 63 \in 1..65 /\ \h057C = ListStart + 2 * (63 - 1)
      /\ 64 \in 1..65 /\ \h057E = ListStart + 2 * (64 - 1)
      /\ 65 \in 1..65 /\ \h0580 = ListStart + 2 * (65 - 1)
  BY DEF ListStart, Retry
<1>2. /\ ListStart \in Addresses /\ Retry \in Addresses /\ \h051E \in Addresses
      /\ \h0576 \in Addresses /\ \h057C \in Addresses
      /\ \h057E \in Addresses /\ \h0580 \in Addresses
  BY <1>1, InMemory
<1>3. \h057E \notin PollBuffer /\ \h0580 \notin PollBuffer
  BY DEF PollBuffer
<1>. QED
  BY <1>1, <1>2, <1>3

\* The descriptors are in the memory.
LEMMA PlacesInMemory == Grid \subseteq Addresses
<1>1. \A k \in Places : k \in 1..65
  BY DEF Places
<1>. QED
  BY <1>1, GridPlaces, InMemory

\* A descriptor of the list that is in the memory is read as it was written.
LEMMA Descriptor ==
  ASSUME NEW m, NEW h \in 1..Poll, Intact(m, h), NEW k \in Places, k <= Size(h),
         NEW c, c = ListStart + 2 * (k - 1)
  PROVE  /\ k + 5 <= Size(h) /\ DescriptorOK(Words(h), EndOf(h), h, k)
         /\ m[c] = Words(h)[k] /\ m[c + 2] = Words(h)[k + 1]
         /\ m[c + 4] = Words(h)[k + 2] /\ m[c + 10] = Words(h)[k + 5]
         /\ m[c + 8] \in {Active, 0, Ok - 1, Ok}
<1>1. Size(h) \in 6..64 /\ k + 5 <= Size(h) /\ DescriptorOK(Words(h), EndOf(h), h, k)
  BY ListIs
<1>2. k \in Nat \ {0}
  BY DEF Places
<1>3. \A n \in 1..Size(h) :
        \/ m[ListStart + 2 * (n - 1)] = Words(h)[n]
        \/ Words(h)[n] = Active /\ m[ListStart + 2 * (n - 1)] \in {0, Ok - 1, Ok}
  BY DEF Intact
<1>4. /\ c + 2 = ListStart + 2 * ((k + 1) - 1)
      /\ c + 4 = ListStart + 2 * ((k + 2) - 1) /\ c + 8 = ListStart + 2 * ((k + 4) - 1)
      /\ c + 10 = ListStart + 2 * ((k + 5) - 1)
      /\ k \in 1..Size(h) /\ k + 1 \in 1..Size(h) /\ k + 2 \in 1..Size(h)
      /\ k + 4 \in 1..Size(h) /\ k + 5 \in 1..Size(h)
  BY <1>1, <1>2 DEF ListStart
<1>5. /\ Words(h)[k] # Active /\ Words(h)[k + 1] # Active /\ Words(h)[k + 2] # Active
      /\ Words(h)[k + 5] # Active /\ Words(h)[k + 4] = Active
  BY <1>1, Zenon DEF DescriptorOK
<1>6. /\ m[c] = Words(h)[k] /\ m[c + 2] = Words(h)[k + 1]
      /\ m[c + 4] = Words(h)[k + 2] /\ m[c + 10] = Words(h)[k + 5]
  BY <1>3, <1>4, <1>5, Zenon
<1>7. m[c + 8] = Active \/ m[c + 8] \in {0, Ok - 1, Ok}
  BY <1>3, <1>4, <1>5, Zenon
<1>8. m[c + 8] \in {Active, 0, Ok - 1, Ok}
  BY <1>7
<1>. QED
  BY <1>1, <1>6, <1>8, Zenon

\* Beyond the list the controller finds nothing to run: no retry word, but behind a
\* poll's descriptor, where there is no packet.
LEMMA Beyond ==
  ASSUME NEW m, NEW h \in 1..Poll, Beside(m, h), NEW k \in Places, k > Size(h),
         NEW c, c = ListStart + 2 * (k - 1)
  PROVE  /\ m[c + 4] < 0
         /\ \/ m[c + 8] < 0 /\ m[c + 10] < 0
            \/ c + 10 = \h051E
<1>1. Size(h) \in 6..64
  BY ListIs
<1>2. k \in Int /\ k # 1 /\ c \in Int
  BY <1>1 DEF Places, ListStart
<1>3. c + 4 \in Addresses /\ c + 8 \in Addresses /\ c + 10 \in Addresses
  <2>1. /\ k + 2 \in 1..65 /\ k + 4 \in 1..65 /\ k + 5 \in 1..65
        /\ c + 4 = ListStart + 2 * ((k + 2) - 1) /\ c + 8 = ListStart + 2 * ((k + 4) - 1)
        /\ c + 10 = ListStart + 2 * ((k + 5) - 1)
    BY DEF Places, ListStart
  <2>. QED
    BY <2>1, InMemory, Zenon
<1>4. c + 4 > EndOf(h) /\ c + 8 > EndOf(h) /\ c + 10 > EndOf(h)
  BY <1>1, <1>2 DEF EndOf, EndAt, ListStart
<1>5. c + 4 \notin PollBuffer
  BY <1>2 DEF Places, ListStart, PollBuffer
<1>6. k # 11 => c + 8 \notin PollBuffer /\ c + 10 \notin PollBuffer
  BY <1>2 DEF Places, ListStart, PollBuffer
<1>7. k = 11 => c + 10 = \h051E
  BY DEF ListStart
<1>8. m[c + 4] < 0
  BY <1>3, <1>4, <1>5, IsBeyond
<1>9. k # 11 => m[c + 8] < 0 /\ m[c + 10] < 0
  BY <1>3, <1>4, <1>6, IsBeyond
<1>. QED
  BY <1>7, <1>8, <1>9, Zenon

\* A list that is written is there (usb.c:116-534, main.c:505-516).
LEMMA Posted ==
  ASSUME NEW m \in [Addresses -> Int], NEW h \in 1..Poll, LinkOK(m),
         NEW new, new = Overwritten(m, Words(h))
  PROVE  /\ new \in [Addresses -> Int] /\ Held(new, h) /\ LinkOK(new)
         /\ new[Retry] = Active
         /\ h = 6 => new[\h057E] < 0
         /\ new[\h0580] < 0
<1> DEFINE L == Words(h)
           at == {ListStart + 2 * (n - 1) : n \in DOMAIN L}
<1>1. Size(h) \in 6..64 /\ L \in [1..Size(h) -> Nat]
  BY ListIs
<1>2. L[5] = Active /\ (h # Poll => 16 \in 1..Size(h) /\ L[16] \in Grid \cup {0})
  <2>1. 1 \in Places /\ 11 \in Places /\ 1 + 4 = 5 /\ 11 + 5 = 16
    BY DEF Places
  <2>2. 1 <= Size(h) /\ (h # Poll => 11 <= Size(h) /\ 16 \in 1..Size(h))
    BY SizeOf
  <2>3. /\ DescriptorOK(L, EndOf(h), h, 1)
        /\ h # Poll => DescriptorOK(L, EndOf(h), h, 11)
    BY <2>1, <2>2, ListIs, Zenon
  <2>. QED
    BY <2>1, <2>2, <2>3, Zenon DEF DescriptorOK
<1>3. new = [x \in Addresses |-> IF x \in at THEN L[(x - ListStart) \div 2 + 1]
                                 ELSE IF x \in PollBuffer THEN m[x] ELSE Unknown]
  BY DEF Overwritten, WriteWords
<1>. HIDE DEF L
<1>4. \A x \in at : x <= EndOf(h) /\ \E n \in 1..Size(h) : x = ListStart + 2 * (n - 1)
  <2>1. DOMAIN L = 1..Size(h)
    BY <1>1
  <2>2. \A n \in 1..Size(h) : ListStart + 2 * (n - 1) <= EndOf(h)
    BY SizeOf
  <2>. QED
    BY <2>1, <2>2, Zenon DEF at
<1>5. ASSUME NEW n \in 1..Size(h)
      PROVE  /\ ListStart + 2 * (n - 1) \in Addresses
             /\ ListStart + 2 * (n - 1) \in at
             /\ new[ListStart + 2 * (n - 1)] = L[n]
  <2>0. n \in 1..65
    BY SizeOf
  <2>1. n \in 1..65 /\ n \in DOMAIN L
    BY <1>1, <2>0
  <2> DEFINE y == ListStart + 2 * (n - 1)
  <2>2. y \in Addresses
    BY <2>1, InMemory
  <2>3. y \in at
    BY <2>1, Zenon
  <2>4. (y - ListStart) \div 2 + 1 = n
    BY <2>1 DEF ListStart
  <2>. HIDE DEF at, y
  <2>5. new[y] = L[(y - ListStart) \div 2 + 1]
    BY <1>3, <2>2, <2>3, Zenon
  <2>6. new[y] = L[n]
    BY <2>4, <2>5, Zenon
  <2>. QED
    BY <2>2, <2>3, <2>6, Zenon DEF y
<1>. HIDE DEF at
<1>6. \A x \in Addresses : x \notin at => new[x] = IF x \in PollBuffer THEN m[x] ELSE Unknown
  BY <1>3
<1>7. new \in [Addresses -> Int]
  <2>1. ASSUME NEW x \in Addresses PROVE new[x] \in Int
    <3>1. CASE x \in at
      <4>1. PICK n \in 1..Size(h) : x = ListStart + 2 * (n - 1)
        BY <1>4, <3>1
      <4>2. new[x] = L[n]
        BY <1>5, <4>1, Zenon
      <4>. QED
        BY <1>1, <4>2
    <3>2. CASE x \notin at
      BY <1>6, <3>2 DEF Unknown
    <3>. QED
      BY <3>1, <3>2
  <2>2. new = [x \in Addresses |-> new[x]]
    BY <1>3
  <2>. QED
    BY <2>1, <2>2
<1>8. Intact(new, h)
  BY <1>5, Zenon DEF Intact, L
<1>9. Beside(new, h)
  <2>1. ASSUME NEW x \in Addresses \ PollBuffer, x > EndOf(h) PROVE new[x] < 0
    <3>1. EndOf(h) \in Int
      BY SizeOf
    <3>2. x \in Int
      BY DEF ListStart, Addresses
    <3>3. ~(x <= EndOf(h))
      BY <2>1, <3>1, <3>2
    <3>4. x \notin at
      BY <1>4, <3>3, Zenon
    <3>. QED
      BY <1>6, <2>1, <3>4 DEF Unknown
  <2>. QED
    BY <2>1, Zenon DEF Beside
<1>10. new[Retry] = Active
  <2>1. 5 \in 1..Size(h)
    BY SizeOf
  <2>. QED
    BY <1>2, <1>5, <2>1, InMemoryToo
<1>12. LinkOK(new)
  <2>1. CASE \h051E \in at
    <3>1. PICK n \in 1..Size(h) : \h051E = ListStart + 2 * (n - 1)
      BY <1>4, <2>1
    <3>2. n = 16
      BY <3>1 DEF ListStart
    <3>3. new[\h051E] = L[16]
      <4>1. 16 \in 1..Size(h)
        BY <3>1, <3>2, Zenon
      <4>. QED
        BY <1>5, <4>1, InMemoryToo
    <3>4. h # Poll
      <4>1. h = Poll => Size(h) = 6
        BY SizeOf
      <4>2. 16 \notin 1..6
        OBVIOUS
      <4>. QED
        BY <3>1, <3>2, <4>1, <4>2, Zenon
    <3>5. L[16] \in Grid \cup {0}
      BY <1>2, <3>4, Zenon
    <3>. QED
      BY <3>3, <3>5 DEF LinkOK
  <2>2. CASE \h051E \notin at
    BY <1>6, <2>2, InMemoryToo DEF LinkOK, PollBuffer
  <2>. QED
    BY <2>1, <2>2
<1>13. new[\h0580] < 0 /\ (h = 6 => new[\h057E] < 0)
  <2>1. \h0580 > EndOf(h) /\ (h = 6 => \h057E > EndOf(h))
    <3>1. EndOf(h) \in Int /\ EndOf(h) < \h0580 /\ (h = 6 => EndOf(h) < \h057E)
      BY SizeOf
    <3>. HIDE DEF EndOf
    <3>. QED
      BY <3>1
  <2>2. \h0580 \in Addresses \ PollBuffer /\ \h057E \in Addresses \ PollBuffer
    BY InMemoryToo
  <2>. QED
    BY <1>9, <2>1, <2>2, IsBeyond
<1>. QED
  BY <1>7, <1>8, <1>9, <1>10, <1>12, <1>13, Zenon DEF Held

\* Memory m after an answer to the descriptor at c, or none.
After(m, sends, word, c, left) ==
  [x \in Addresses |-> IF x \in sends THEN word ELSE IF x = c + 8 THEN left ELSE m[x]]

\* The place of a descriptor in list h; words beyond the list; a word that passes for
\* nothing; what the controller leaves in a retry word.
IsPlace(c, k, h) == k \in Places /\ k <= Size(h) /\ c = ListStart + 2 * (k - 1)
Above(sends, h) == \A x \in sends : x > EndOf(h)
Negative(word) == word \in Int /\ word < 0
Left == {0, Ok - 1, Ok}
\* The list stays, whose descriptor at place k was answered, or was not.
LEMMA Changed ==
  ASSUME NEW m \in [Addresses -> Int], NEW h \in 1..Poll, Held(m, h), LinkOK(m),
         NEW k, NEW c, IsPlace(c, k, h),
         NEW sends, Above(sends, h), NEW word, Negative(word), NEW left \in Left
  PROVE  /\ After(m, sends, word, c, left) \in [Addresses -> Int]
         /\ Held(After(m, sends, word, c, left), h) /\ LinkOK(After(m, sends, word, c, left))
         /\ After(m, sends, word, c, left)[Retry] = IF k = 1 THEN left ELSE m[Retry]
<1> DEFINE new == After(m, sends, word, c, left)
<1>0. /\ k \in Places /\ k <= Size(h) /\ c = ListStart + 2 * (k - 1)
      /\ \A x \in sends : x > EndOf(h)
      /\ word \in Int /\ word < 0 /\ left \in {0, Ok - 1, Ok}
  BY Zenon DEF IsPlace, Above, Negative, Left
<1>1. /\ k + 5 <= Size(h) /\ Words(h)[k + 4] = Active
  BY <1>0, ListIs, Zenon DEF DescriptorOK
<1>2. k \in Int /\ k >= 1 /\ c \in Int /\ c + 8 = ListStart + 2 * ((k + 4) - 1)
  BY <1>0 DEF Places, ListStart
<1>3. Size(h) \in 6..64 /\ k + 4 \in 1..Size(h)
  <2>1. Size(h) \in 6..64
    BY ListIs
  <2>. QED
    BY <1>1, <1>2, <2>1
<1>4. /\ EndOf(h) \in Int
      /\ \A n \in 1..Size(h) : n \in 1..65 /\ ListStart + 2 * (n - 1) <= EndOf(h)
  BY SizeOf
<1>5. ASSUME NEW y \in Int, y <= EndOf(h) PROVE y \notin sends
  BY <1>0, <1>4, <1>5
<1>6. c + 8 <= EndOf(h)
  BY <1>2, <1>3, <1>4, Zenon
<1>7. \A x \in Addresses : x \in Int
  BY DEF Addresses, ListStart
<1>8. \A x \in Addresses : new[x] = IF x \in sends THEN word
                                   ELSE IF x = c + 8 THEN left ELSE m[x]
  BY Zenon DEF After
<1>9. new \in [Addresses -> Int]
  <2>1. left \in Int
    BY <1>0 DEF Ok
  <2>. QED
    BY <1>0, <2>1 DEF After
<1>. HIDE DEF new
<1>10. Intact(new, h)
  <2>1. ASSUME NEW n \in 1..Size(h), NEW y, y = ListStart + 2 * (n - 1)
        PROVE  new[y] = Words(h)[n] \/ (Words(h)[n] = Active /\ new[y] \in {0, Ok - 1, Ok})
    <3>1. n \in 1..65 /\ y <= EndOf(h)
      BY <1>4, <2>1, Zenon
    <3>2. y \in Addresses
      BY <2>1, <3>1, InMemory
    <3>3. y \notin sends
      BY <1>5, <1>7, <3>1, <3>2, Zenon
    <3>4. CASE y = c + 8
      <4>1. n = k + 4
        BY <1>2, <2>1, <3>1, <3>4 DEF ListStart
      <4>. QED
        BY <1>0, <1>1, <1>8, <3>2, <3>3, <3>4, <4>1, Zenon
    <3>5. CASE y # c + 8
      <4>1. new[y] = m[y]
        BY <1>8, <3>2, <3>3, <3>5, Zenon
      <4>2. m[y] = Words(h)[n] \/ (Words(h)[n] = Active /\ m[y] \in {0, Ok - 1, Ok})
        BY <2>1, Zenon DEF Held, Intact
      <4>. QED
        BY <4>1, <4>2, Zenon
    <3>. QED
      BY <3>4, <3>5
  <2>. QED
    BY <2>1, Zenon DEF Intact
<1>11. Beside(new, h)
  <2>1. ASSUME NEW x \in Addresses \ PollBuffer, x > EndOf(h) PROVE new[x] < 0
    <3>1. x # c + 8
      BY <1>2, <1>4, <1>6, <1>7, <2>1
    <3>2. m[x] < 0
      BY <2>1, IsBeyond DEF Held
    <3>. QED
      BY <1>0, <1>8, <3>1, <3>2
  <2>. QED
    BY <2>1, Zenon DEF Beside
<1>12. LinkOK(new)
  <2>1. c + 8 # \h051E
    BY <1>0 DEF Places, ListStart
  <2>2. new[\h051E] = word \/ new[\h051E] = m[\h051E]
    BY <1>8, <2>1, InMemoryToo
  <2>. QED
    BY <1>0, <2>2 DEF LinkOK
<1>13. new[Retry] = IF k = 1 THEN left ELSE m[Retry]
  <2>1. Retry \notin sends
    <3>1. 5 \in 1..Size(h)
      BY SizeOf
    <3>2. Retry <= EndOf(h)
      BY <1>4, <3>1, InMemoryToo
    <3>. QED
      BY <1>5, <1>7, <3>2, InMemoryToo
  <2>2. Retry = c + 8 <=> k = 1
    BY <1>2 DEF Retry, ListStart
  <2>3. Retry \in Addresses
    BY InMemoryToo
  <2>4. new[Retry] = IF Retry = c + 8 THEN left ELSE m[Retry]
    BY <1>8, <2>1, <2>3, Zenon
  <2>. QED
    BY <2>2, <2>4, Zenon
<1>. QED
  BY <1>9, <1>10, <1>11, <1>12, <1>13, Zenon DEF Held, new

-----------------------------------------------------------------------------
(* The controller's steps on a list *)

\* The current descriptor is one of the list, or nothing is answered there.
LEMMA Answered ==
  ASSUME mem \in [Addresses -> Int], NEW h \in 1..Poll, Held(mem, h),
         NEW k \in Places, current = ListStart + 2 * (k - 1),
         Answers(mem[current + 4])
  PROVE  k <= Size(h)
<1>. SUFFICES ASSUME ~(k <= Size(h)) PROVE FALSE
  OBVIOUS
<1>1. k > Size(h)
  <2>1. Size(h) \in 6..64
    BY ListIs
  <2>2. k \in Int
    BY DEF Places
  <2>. QED
    BY <2>1, <2>2
<1>2. mem[current + 4] < 0
  BY <1>1, Beyond DEF Held
<1>3. mem[current + 4] \in Int
  <2>1. k + 2 \in 1..65 /\ current + 4 = ListStart + 2 * ((k + 2) - 1)
    BY DEF Places, ListStart
  <2>. QED
    BY <2>1, InMemory
<1>4. ASSUME NEW p \in Int, p < 0 PROVE ~Answers(p)
  <2>1. DeviceIn(p) # 0 /\ DeviceIn(p) # 2
    BY <1>4 DEF DeviceIn
  <2>. QED
    BY <2>1, Zenon DEF Answers
<1>. QED
  BY <1>2, <1>3, <1>4, Zenon

\* Where an answer is put lies beyond the list.
LEMMA BufferBeyond ==
  ASSUME NEW end \in Int, NEW base \in Nat, NEW length \in Nat, length = 0 \/ base > end
  PROVE  \A x \in Buffer(base, length) : x > end
<1>1. ASSUME NEW i \in 0..((length + 1) \div 2 - 1) PROVE base + 2 * i > end
  <2>1. CASE length = 0
    BY <2>1
  <2>2. CASE length # 0
    BY <2>2
  <2>. QED
    BY <2>1, <2>2
<1>. QED
  BY <1>1 DEF Buffer

\* What an answered packet does.
LEMMA RunTDOnList ==
  ASSUME mem \in [Addresses -> Int], NEW h \in 1..Poll, Held(mem, h), LinkOK(mem),
         current \in Grid, RunTD
  PROVE  /\ mem' \in [Addresses -> Int] /\ Held(mem', h) /\ LinkOK(mem')
         /\ current' \in Grid \cup {0}
         /\ current = ListStart => mem[Retry] = Active /\ mem'[Retry] \in Done
         /\ current # ListStart => mem'[Retry] = mem[Retry]
         /\ request' = IF current = ListStart /\ h # Poll THEN RequestOf(h) ELSE request
         /\ device' \in {device, "addressed", "configured"}
         /\ (device = "default" /\ h = 1) \/ (device \in {"addressed", "configured"} /\ h # 1)
<1> DEFINE base == mem[current]
           packet == mem[current + 4]
           sends == IF KindIn(packet) = 9 THEN Buffer(base, mem[current + 2]) ELSE {}
           word == IF EndpointIn(packet) = 1 THEN ReportWord ELSE DescriptorWord
<1>1. PICK k \in Places : current = ListStart + 2 * (k - 1)
  BY GridPlaces
<1>2. Runs(current) /\ Answers(packet)
  BY Zenon DEF RunTD
<1>3. k <= Size(h)
  BY <1>1, <1>2, Answered
<1>4. /\ DescriptorOK(Words(h), EndOf(h), h, k)
      /\ base = Words(h)[k] /\ mem[current + 2] = Words(h)[k + 1]
      /\ packet = Words(h)[k + 2] /\ mem[current + 10] = Words(h)[k + 5]
      /\ mem[current + 8] \in {Active, 0, Ok - 1, Ok}
  <2>1. Intact(mem, h)
    BY DEF Held
  <2>. QED
    BY <1>1, <1>3, <2>1, Descriptor
<1>5. mem[current + 8] = Active
  BY <1>2, <1>4 DEF Runs, Active, Ok
<1>6. current = ListStart <=> k = 1
  BY <1>1 DEF ListStart, Places
<1>7. PICK left \in IF current = ListStart THEN {Ok, Ok - 1} ELSE {Ok} :
        mem' = After(mem, sends, word, current, left)
  BY Zenon DEF RunTD, After
<1>8. left \in {0, Ok - 1, Ok} /\ left \in Done
  BY <1>7 DEF Done
<1>9. \A x \in sends : x > EndOf(h)
  <2>1. EndOf(h) \in Int
    BY SizeOf
  <2>2. base \in Nat /\ mem[current + 2] \in Nat
    <3>1. Words(h) \in [1..Size(h) -> Nat] /\ k + 5 <= Size(h) /\ Size(h) \in 6..64
      BY <1>3, ListIs
    <3>2. k \in 1..Size(h) /\ k + 1 \in 1..Size(h)
      <4>1. Size(h) \in 6..64 /\ k + 5 <= Size(h)
        BY <3>1, Zenon
      <4>. QED
        BY <4>1 DEF Places
    <3>. HIDE DEF base
    <3>. QED
      BY <1>4, <3>1, <3>2
  <2>3. KindIn(packet) = 9 => mem[current + 2] = 0 \/ base > EndOf(h)
    BY <1>4, Zenon DEF DescriptorOK
  <2>. HIDE DEF base, packet
  <2>. QED
    BY <2>1, <2>2, <2>3, BufferBeyond
<1>10. word \in Int /\ word < 0
  BY DEF ReportWord, DescriptorWord
<1>11. /\ mem' \in [Addresses -> Int] /\ Held(mem', h) /\ LinkOK(mem')
       /\ mem'[Retry] = IF k = 1 THEN left ELSE mem[Retry]
  <2>. HIDE DEF sends, word
  <2> DEFINE new == After(mem, sends, word, current, left)
  <2>0. IsPlace(current, k, h) /\ Above(sends, h) /\ Negative(word) /\ left \in Left
    BY <1>1, <1>3, <1>8, <1>9, <1>10, Zenon DEF IsPlace, Above, Negative, Left
  <2>1. /\ new \in [Addresses -> Int] /\ Held(new, h) /\ LinkOK(new)
        /\ new[Retry] = IF k = 1 THEN left ELSE mem[Retry]
    BY <2>0, Changed, SMT
  <2>. QED
    BY <1>7, <2>1, Zenon
<1>12. current' \in Grid \cup {0}
  <2>1. Words(h)[k + 5] \in Grid \cup {0}
    BY <1>4, Zenon DEF DescriptorOK
  <2>2. current' = mem[current + 10] \/ current' = 0
    BY DEF RunTD, Advance, ListDone
  <2>. QED
    BY <1>4, <2>1, <2>2
<1>13. current = ListStart => mem[Retry] = Active /\ mem'[Retry] \in Done
  BY <1>5, <1>6, <1>8, <1>11 DEF Retry
<1>14. current # ListStart => mem'[Retry] = mem[Retry]
  BY <1>6, <1>11
<1>15. request' = IF current = ListStart /\ h # Poll THEN RequestOf(h) ELSE request
  <2>1. KindIn(packet) = 13 <=> current = ListStart /\ h # Poll
    BY <1>4, <1>6, Zenon DEF DescriptorOK
  <2>2. request' = IF KindIn(packet) = 13 THEN [i \in 1..4 |-> mem[base + 2 * (i - 1)]]
                   ELSE request
    BY Zenon DEF RunTD
  <2>3. ASSUME current = ListStart, h # Poll
        PROVE  [i \in 1..4 |-> mem[base + 2 * (i - 1)]] = RequestOf(h)
    <3>1. base = RequestAt
      BY <1>4, <1>6, <2>3, Zenon DEF DescriptorOK
    <3>2. h \in 1..9
      BY <2>3 DEF Poll
    <3>3. ASSUME NEW i \in 1..4 PROVE mem[base + 2 * (i - 1)] = Words(h)[i + 6]
      <4>1. base + 2 * (i - 1) = ListStart + 2 * ((i + 6) - 1)
        BY <3>1 DEF RequestAt, ListStart
      <4>2. i + 6 \in 1..Size(h)
        <5>1. Size(h) \in 6..64 /\ Size(h) >= 16
          BY <2>3, ListIs
        <5>. QED
          BY <5>1
      <4>3. Words(h)[i + 6] # Active
        <5>1. /\ Words(h)[7] # Active /\ Words(h)[8] # Active
              /\ Words(h)[9] # Active /\ Words(h)[10] # Active
          BY <2>3, ListIs
        <5>2. i + 6 = 7 \/ i + 6 = 8 \/ i + 6 = 9 \/ i + 6 = 10
          OBVIOUS
        <5>. QED
          BY <5>1, <5>2, Zenon
      <4>. QED
        BY <4>1, <4>2, <4>3, Zenon DEF Held, Intact
    <3>4. RequestOf(h) = [i \in 1..4 |-> Words(h)[i + 6]]
      BY <3>2, RequestIs
    <3>. HIDE DEF base
    <3>. QED
      BY <3>3, <3>4, Zenon
  <2>. QED
    BY <2>1, <2>2, <2>3, Zenon
<1>16. device' \in {device, "addressed", "configured"}
  <2>. HIDE DEF packet
  <2>. QED
    BY DEF RunTD
<1>17. (device = "default" /\ h = 1) \/ (device \in {"addressed", "configured"} /\ h # 1)
  <2>1. DeviceIn(packet) = IF h = 1 THEN 0 ELSE 2
    BY <1>4, Zenon DEF DescriptorOK
  <2>. HIDE DEF packet
  <2>0. (DeviceIn(packet) = 0 => h = 1) /\ (DeviceIn(packet) = 2 => h # 1)
    BY <2>1
  <2>2. Answers(packet)
    BY <1>2
  <2>3. CASE device = "default"
    <3>1. DeviceIn(packet) = 0
      BY <2>2, <2>3 DEF Answers
    <3>. QED
      BY <2>0, <2>3, <3>1, Zenon
  <2>4. CASE device = "addressed"
    <3>1. DeviceIn(packet) = 2
      BY <2>2, <2>4 DEF Answers
    <3>. QED
      BY <2>0, <2>4, <3>1
  <2>5. CASE device = "configured"
    <3>1. DeviceIn(packet) = 2
      BY <2>2, <2>5 DEF Answers
    <3>. QED
      BY <2>0, <2>5, <3>1
  <2>6. device \in {"default", "addressed", "configured"}
    BY <2>2, Zenon DEF Answers
  <2>. QED
    BY <2>3, <2>4, <2>5, <2>6
<1>. QED
  BY <1>11, <1>12, <1>13, <1>14, <1>15, <1>16, <1>17, Zenon

\* One word of a memory assigned.
LEMMA Assigned ==
  ASSUME NEW m \in [Addresses -> Int], NEW a, NEW v \in Int
  PROVE  /\ [m EXCEPT ![a] = v] \in [Addresses -> Int]
         /\ \A x \in Addresses : x # a => [m EXCEPT ![a] = v][x] = m[x]
OBVIOUS

\* What a packet without an answer does: to its descriptor, or to a word that looks
\* like the retry word of one behind a poll's.
LEMMA FailTDOnList ==
  ASSUME mem \in [Addresses -> Int], NEW h \in 1..Poll, Held(mem, h), LinkOK(mem),
         current \in Grid, FailTD
  PROVE  /\ mem' \in [Addresses -> Int] /\ Held(mem', h) /\ LinkOK(mem')
         /\ mem'[Retry] = mem[Retry] \/ (mem[Retry] # Ok /\ mem'[Retry] = 0)
<1>1. PICK k \in Places : current = ListStart + 2 * (k - 1)
  BY GridPlaces
<1>2. Runs(current) /\ mem' = [mem EXCEPT ![current + 8] = 0]
  BY Zenon DEF FailTD
<1>3. CASE k <= Size(h)
  <2> DEFINE none == {}  left == 0
  <2>1. mem' = After(mem, none, ReportWord, current, left)
    BY <1>2 DEF After
  <2>2. Negative(ReportWord) /\ left \in Left
    BY DEF ReportWord, Negative, Left
  <2> DEFINE new == After(mem, none, ReportWord, current, left)
  <2>3. IsPlace(current, k, h) /\ Above(none, h)
    BY <1>1, <1>3 DEF IsPlace, Above
  <2>. HIDE DEF none, left
  <2>4. /\ new \in [Addresses -> Int] /\ Held(new, h) /\ LinkOK(new)
        /\ new[Retry] = IF k = 1 THEN left ELSE mem[Retry]
    BY <2>2, <2>3, Changed, SMT
  <2>5. k = 1 => mem[Retry] # Ok
    <3>1. k = 1 => Retry = current + 8
      BY <1>1 DEF Retry, ListStart
    <3>2. mem[current + 8] # Ok
      BY <1>2 DEF Runs, Ok
    <3>. QED
      BY <3>1, <3>2
  <2>. QED
    BY <2>1, <2>4, <2>5 DEF left
<1>4. CASE ~(k <= Size(h))
  <2>1. Size(h) \in 6..64 /\ k \in Int
    <3>1. Size(h) \in 6..64
      BY ListIs
    <3>. QED
      BY <3>1 DEF Places
  <2>2. k > Size(h)
    BY <1>4, <2>1
  <2>3. current + 8 \in Addresses /\ mem[current + 8] >= 0 /\ mem[current + 8] \in Int
    <3>1. k + 4 \in 1..65 /\ current + 8 = ListStart + 2 * ((k + 4) - 1)
      BY <1>1 DEF Places, ListStart
    <3>2. current + 8 \in Addresses
      BY <3>1, InMemory
    <3>. QED
      BY <1>2, <3>2 DEF Runs
  <2>4. current + 10 = \h051E
    <3>1. mem[current + 8] < 0 \/ current + 10 = \h051E
      BY <1>1, <2>2, Beyond DEF Held
    <3>. QED
      BY <2>3, <3>1
  <2>5. current + 8 = \h051C
    BY <1>1, <2>1, <2>4 DEF ListStart
  <2>6. mem' = [mem EXCEPT ![\h051C] = 0]
    BY <1>2, <2>5
  <2>7. mem' \in [Addresses -> Int] /\ \A x \in Addresses : x # \h051C => mem'[x] = mem[x]
    BY <2>6, Assigned
  <2>8. Intact(mem', h)
    <3>1. k = 11
      BY <1>1, <2>1, <2>4 DEF ListStart
    <3>2. ASSUME NEW n \in 1..Size(h) PROVE mem'[ListStart + 2 * (n - 1)]
                                            = mem[ListStart + 2 * (n - 1)]
      <4>1. n \in 1..65 /\ n # 15
        BY <2>1, <2>2, <3>1
      <4>2. ListStart + 2 * (n - 1) \in Addresses
        BY <4>1, InMemory
      <4>3. ListStart + 2 * (n - 1) # \h051C
        BY <4>1 DEF ListStart
      <4>. QED
        BY <2>7, <4>2, <4>3
    <3>. QED
      BY <3>2, Zenon DEF Held, Intact
  <2>9. Beside(mem', h)
    <3>1. ASSUME NEW x \in Addresses \ PollBuffer, x > EndOf(h) PROVE mem'[x] < 0
      <4>1. x # \h051C
        BY DEF PollBuffer
      <4>2. mem[x] < 0
        BY <3>1, IsBeyond DEF Held
      <4>. QED
        BY <2>7, <4>1, <4>2
    <3>. QED
      BY <3>1, Zenon DEF Beside
  <2>10. LinkOK(mem') /\ mem'[Retry] = mem[Retry]
    <3>1. Retry # \h051C
      BY DEF Retry, ListStart
    <3>. QED
      BY <2>7, <3>1, InMemoryToo DEF LinkOK
  <2>. QED
    BY <2>7, <2>8, <2>9, <2>10, Zenon DEF Held
<1>. QED
  BY <1>3, <1>4

\* Where a descriptor that is passed over leads.
LEMMA SkipTDOnList ==
  ASSUME mem \in [Addresses -> Int], NEW h \in 1..Poll, Held(mem, h), LinkOK(mem),
         current \in Grid, SkipTD
  PROVE  current' \in Grid \cup {0}
<1>1. PICK k \in Places : current = ListStart + 2 * (k - 1)
  BY GridPlaces
<1>2. /\ mem[current + 10] \in Addresses \cup {0}
      /\ current' = mem[current + 10] \/ current' = 0
  BY DEF SkipTD, Advance, ListDone
<1>3. CASE k <= Size(h)
  <2>1. /\ DescriptorOK(Words(h), EndOf(h), h, k) /\ mem[current + 10] = Words(h)[k + 5]
    <3>1. Intact(mem, h)
      BY DEF Held
    <3>. QED
      BY <1>1, <1>3, <3>1, Descriptor
  <2>2. Words(h)[k + 5] \in Grid \cup {0}
    BY <2>1, Zenon DEF DescriptorOK
  <2>. QED
    BY <1>2, <2>1, <2>2
<1>4. CASE ~(k <= Size(h))
  <2>1. k > Size(h)
    <3>1. Size(h) \in 6..64
      BY ListIs
    <3>2. k \in Int
      BY DEF Places
    <3>. QED
      BY <1>4, <3>1, <3>2
  <2>2. mem[current + 10] < 0 \/ current + 10 = \h051E
    BY <1>1, <2>1, Beyond DEF Held
  <2>3. ~(mem[current + 10] < 0)
    BY <1>2 DEF Addresses, ListStart
  <2>. QED
    BY <1>2, <2>2, <2>3 DEF LinkOK
<1>. QED
  BY <1>3, <1>4

-----------------------------------------------------------------------------
(* The invariant *)

\* A keyboard in state d that answers.
Alive(d) == d \in {"default", "addressed", "configured"}

\* How far list h in memory m has come with a keyboard in state d that last took
\* request r: it is that of the list or of the list before; that of the list for
\* certain when its setup packet is marked as done, which at address 2 no keyboard
\* at address 0 can do.
Served(m, h, r, d) ==
  /\ Alive(d) /\ h < Poll =>
       /\ r \in {RequestFor(h - 1), RequestFor(h)}
       /\ m[Retry] \in Done => r = RequestFor(h)
  /\ h = 2 /\ m[Retry] \in Done => d # "default"

\* After a soft reset there is no list, and nothing runs.  A bus reset is given then,
\* and where the enumeration begins it has been carried out.
Starting == {"sie1_init", "sie1_status", "sie1_ack", "husb_reset", "husb_ack", "ctl_reg",
             "no_device"}
NoList ==
  /\ pc \in Starting \cup {"USB_HOT_PLUG", "post"}
  /\ step = 1 /\ current = 0 /\ \A x \in Addresses : mem[x] < 0
  /\ pc \in {"husb_ack", "ctl_reg", "no_device", "post"} =>
       command = "HUSB_RESET_INT" \/ device \notin {"addressed", "configured"}
  /\ command = "HUSB_RESET_INT" => pc \in {"husb_ack", "ctl_reg", "no_device", "USB_HOT_PLUG"}

\* The list of the step is there.
Running == {"start", "status", "wait", "wait_clear", "check", "retry", "retry_clear",
            "retry_status", "keycode", "removal", "removed"}
ThisList ==
  /\ pc \in Running \cup {"USB_HOT_PLUG", "post"} /\ command # "HUSB_RESET_INT"
  /\ Held(mem, step) /\ Served(mem, step, request, device)

\* The list of the step before is, and its setup packet went well.
LastList ==
  /\ pc \in {"device_info", "post"} /\ command # "HUSB_RESET_INT"
  /\ pc = "device_info" => step = 6
  /\ step > 1 /\ Held(mem, step - 1) /\ mem[Retry] = Ok
  /\ Served(mem, step - 1, request, device)

\* The same with the five words over x0576, none of which is run (main.c:360-372).
FiveWords ==
  /\ pc = "post" /\ command # "HUSB_RESET_INT"
  /\ step = 6 /\ Intact(mem, 5) /\ Served(mem, 5, request, device) /\ mem[Retry] = Ok
  /\ current \in {0, \h0576} /\ mem[\h057E] = \hAC0A /\ mem[\h0580] < 0

\* The controller is at a descriptor of some list, or at the five words until the
\* next list is started.
Pointer ==
  /\ current \in Grid \cup {0, \h0576}
  /\ current = \h0576 => /\ step = 6 /\ pc \in {"post", "start"}
                         /\ mem[\h057E] = \hAC0A \/ mem[\h057E] < 0
                         /\ mem[\h0580] < 0
  /\ LinkOK(mem)

\* The counters of the driver; the poll is of the size at x057C.
Counting ==
  /\ pc \notin {"ctl_reg", "removal"} => hot_plug_count = 0
  /\ pc \in {"check", "retry", "retry_clear", "retry_status"} => step < Poll
  /\ step > 6 \/ (step = 6 /\ pc # "device_info") => data_size = 8

\* What holds of the keyboard whatever the driver does.
Keyboard ==
  /\ ~Alive(device) => request = <<>>
  /\ device = "default" => request \in {<<>>, RequestFor(1)}

Memory == NoList \/ ThisList \/ LastList \/ FiveWords
IInv == TypeOK /\ Memory /\ Pointer /\ Counting /\ Keyboard /\ Addressed

-----------------------------------------------------------------------------
(* The controller's steps *)

\* A step that leaves the keyboard as it is.
LEMMA StillServed ==
  ASSUME NEW m, NEW new, NEW h, NEW r, NEW d, Served(m, h, r, d),
         new[Retry] \in Done => new[Retry] = m[Retry]
  PROVE  Served(new, h, r, d)
BY Zenon DEF Served

\* With a list in the memory a step of the controller leaves it there, and a keyboard
\* goes through the requests in their order.
LEMMA OnList ==
  ASSUME TypeOK, Keyboard, LinkOK(mem), NEW h \in 1..Poll, Held(mem, h),
         Served(mem, h, request, device), current \in Grid \cup {0}, Controller
  PROVE  /\ mem' \in [Addresses -> Int] /\ Held(mem', h) /\ LinkOK(mem')
         /\ Served(mem', h, request', device')
         /\ current' \in Grid \cup {0}
         /\ mem[Retry] = Ok => mem'[Retry] = Ok
         /\ Keyboard' /\ device' \in {device, "addressed", "configured"}
         /\ request' = request \/ (request' \in [1..4 -> Nat]
                                    /\ Place(request') = Place(request) + 1)
<1>1. mem \in [Addresses -> Int]
  BY DEF TypeOK
<1>2. ASSUME current = 0 PROVE FALSE
  BY <1>2, Zenon DEF Controller, RunTD, FailTD, SkipTD, RunAstray, Runs
<1>3. current \in Grid
  BY <1>2
<1>4. CASE RunTD
  <2>1. /\ mem' \in [Addresses -> Int] /\ Held(mem', h) /\ LinkOK(mem')
        /\ current' \in Grid \cup {0}
        /\ current = ListStart => mem[Retry] = Active /\ mem'[Retry] \in Done
        /\ current # ListStart => mem'[Retry] = mem[Retry]
        /\ request' = IF current = ListStart /\ h # Poll THEN RequestOf(h) ELSE request
        /\ device' \in {device, "addressed", "configured"}
        /\ (device = "default" /\ h = 1) \/ (device \in {"addressed", "configured"} /\ h # 1)
    BY <1>1, <1>3, <1>4, RunTDOnList, Zenon
  <2>2. h # Poll => h \in 1..9 /\ h < Poll /\ h # 0 /\ h - 1 \in 0..9 /\ h \in 0..9
    BY DEF Poll
  <2>3. h # Poll => RequestOf(h) = RequestFor(h) /\ RequestOf(h) \in [1..4 -> Nat]
    BY <2>2, RequestIs DEF RequestFor
  <2>4. Alive(device) /\ Alive(device')
    BY <2>1, Zenon DEF Alive
  <2>5. h # Poll => /\ request \in {RequestFor(h - 1), RequestFor(h)}
                    /\ mem[Retry] \in Done => request = RequestFor(h)
    BY <2>2, <2>4, Zenon DEF Served
  <2>6. Served(mem', h, request', device')
    <3>1. h # Poll => /\ request' \in {RequestFor(h - 1), RequestFor(h)}
                      /\ mem'[Retry] \in Done => request' = RequestFor(h)
      BY <2>1, <2>3, <2>5, Zenon
    <3>2. h = 2 => device' # "default"
      BY <2>1
    <3>3. h < Poll => h # Poll
      BY DEF Poll
    <3>. QED
      BY <3>1, <3>2, <3>3, Zenon DEF Served
  <2>7. Keyboard'
    <3>1. device' = "default" => h = 1 /\ device = "default"
      BY <2>1
    <3>2. 1 # Poll
      BY DEF Poll
    <3>3. device' = "default" => request' \in {<<>>, RequestFor(1)}
      BY <2>1, <2>3, <3>1, <3>2, Zenon DEF Keyboard
    <3>. QED
      BY <2>4, <3>3, Zenon DEF Keyboard
  <2>8. mem[Retry] = Ok => mem'[Retry] = Ok
    <3>1. Active # Ok
      BY DEF Active, Ok
    <3>. QED
      BY <2>1, <3>1, Zenon
  <2>9. request' = request \/ (request' \in [1..4 -> Nat]
                                /\ Place(request') = Place(request) + 1)
    <3>. SUFFICES ASSUME request' # request
         PROVE  request' \in [1..4 -> Nat] /\ Place(request') = Place(request) + 1
      OBVIOUS
    <3>1. h # Poll /\ request' = RequestFor(h) /\ request' \in [1..4 -> Nat]
      BY <2>1, <2>3, Zenon
    <3>2. request = RequestFor(h - 1)
      BY <2>5, <3>1, Zenon
    <3>3. Place(RequestFor(h)) = h /\ Place(RequestFor(h - 1)) = h - 1
      BY <2>2, <3>1, PlaceOf
    <3>. QED
      BY <3>1, <3>2, <3>3
  <2>. QED
    BY <2>1, <2>6, <2>7, <2>8, <2>9, Zenon
<1>5. CASE FailTD
  <2>1. /\ mem' \in [Addresses -> Int] /\ Held(mem', h) /\ LinkOK(mem')
        /\ mem'[Retry] = mem[Retry] \/ (mem[Retry] # Ok /\ mem'[Retry] = 0)
    BY <1>1, <1>3, <1>5, FailTDOnList, Zenon
  <2>2. current' = 0 /\ device' = device /\ request' = request
    BY <1>5, Zenon DEF FailTD, ListDone, deviceVars
  <2>3. 0 \notin Done
    BY DEF Done, Ok
  <2>4. Served(mem', h, request', device')
    BY <2>1, <2>2, <2>3, StillServed, Zenon
  <2>5. Keyboard'
    BY <2>2, Zenon DEF Keyboard
  <2>. QED
    BY <2>1, <2>2, <2>4, <2>5, Zenon
<1>6. CASE SkipTD \/ RunAstray
  <2>1. mem' = mem /\ device' = device /\ request' = request
    BY <1>6, Zenon DEF SkipTD, RunAstray, deviceVars
  <2>2. current' \in Grid \cup {0}
    <3>1. CASE SkipTD
      BY <1>1, <1>3, <3>1, SkipTDOnList
    <3>2. CASE RunAstray
      BY <3>2, Zenon DEF RunAstray, ListDone
    <3>. QED
      BY <1>6, <3>1, <3>2
  <2>3. Keyboard'
    BY <2>1, Zenon DEF Keyboard
  <2>. QED
    BY <1>1, <2>1, <2>2, <2>3, Zenon
<1>. QED
  BY <1>4, <1>5, <1>6, Zenon DEF Controller

-----------------------------------------------------------------------------
(* The driver's steps *)

\* Where the driver only waits, reads or tests, with the list in the memory.
LEMMA Waits ==
  ASSUME IInv, pc \in Running \ {"start"}, pc' \in Running \cup {"USB_HOT_PLUG", "post"},
         UNCHANGED <<step, mem, current, command, device, request>>, TypeOK', Counting'
  PROVE  IInv'
<1>1. ThisList
  BY DEF IInv, Memory, NoList, LastList, FiveWords, Running, Starting
<1>2. ThisList'
  BY <1>1, Zenon DEF ThisList
<1>3. Pointer'
  <2>1. current # \h0576
    BY DEF IInv, Pointer, Running
  <2>. QED
    BY <2>1 DEF IInv, Pointer
<1>4. Keyboard' /\ Addressed'
  BY Zenon DEF IInv, Keyboard, Addressed
<1>. QED
  BY <1>2, <1>3, <1>4, Zenon DEF IInv, Memory

\* Before there is a list: nothing is in the controller's memory.
LEMMA Starts ==
  ASSUME IInv, NoList, NoList', UNCHANGED <<step, mem, device, request>>, TypeOK', Counting'
  PROVE  IInv'
<1>1. Pointer'
  <2>1. current' = 0
    BY DEF NoList
  <2>2. 0 # \h0576
    OBVIOUS
  <2>. QED
    BY <2>1, <2>2 DEF IInv, Pointer
<1>2. Keyboard' /\ Addressed'
  BY Zenon DEF IInv, Keyboard, Addressed
<1>. QED
  BY <1>1, <1>2, Zenon DEF IInv, Memory

\* With its pc at one of its steps before the first list, there is none.
LEMMA StartsWithout == ASSUME IInv, pc \in Starting PROVE NoList
BY DEF IInv, Memory, ThisList, LastList, FiveWords, Running, Starting

\* One lemma for each step: the soft reset empties the memory.
LEMMA UsbSoftResetKeeps == ASSUME IInv, UsbSoftReset PROVE IInv'
<1>1. TypeOK'
  <2>1. mem' \in [Addresses -> Int]
    BY DEF UsbSoftReset, Unknown
  <2>2. hot_plug_count' \in 0..(IF pc' = "removal" THEN RemovalReads ELSE PlugReads)
    BY ReadsAssumption DEF UsbSoftReset
  <2>3. {usb_ctl_val', msg'} \subseteq {OtherMessage, HUSB_TDListDone}
    BY DEF IInv, TypeOK, UsbSoftReset, OtherMessage
  <2>4. /\ step' \in 1..Poll /\ current' \in Addresses \cup {0} /\ flag' \in BOOLEAN
        /\ mailbox' \in {"garbage", "COMM_ACK"}
        /\ command' \in {"none", "HUSB_SIE1_INIT_INT", "HUSB_RESET_INT"}
    <3>1. /\ step' = 1 /\ current' = 0 /\ flag' = FALSE
          /\ mailbox' = "garbage" /\ command' = "none"
      BY Zenon DEF UsbSoftReset
    <3>2. step' \in 1..Poll
      BY <3>1 DEF Poll
    <3>. QED
      BY <3>1, <3>2, Zenon
  <2>5. /\ data_size' \in 0..255 /\ keycode' \in Int
        /\ device' \in {"off", "powered", "default", "addressed", "configured"}
        /\ request' = <<>> \/ request' \in [1..4 -> Nat]
    BY Zenon DEF IInv, TypeOK, UsbSoftReset, deviceVars
  <2>6. pc' = "sie1_init"
    BY DEF UsbSoftReset
  <2>. QED
    BY <2>1, <2>2, <2>3, <2>4, <2>5, <2>6 DEF TypeOK
<1>2. NoList'
  <2>1. \A x \in Addresses : mem'[x] < 0
    BY DEF UsbSoftReset, Unknown
  <2>. QED
    BY <2>1 DEF UsbSoftReset, NoList, Starting
<1>3. Pointer'
  <2>1. mem'[\h051E] < 0
    BY InMemoryToo DEF UsbSoftReset, Unknown
  <2>. QED
    BY <2>1 DEF UsbSoftReset, Pointer, LinkOK
<1>4. Counting'
  BY DEF UsbSoftReset, Counting, Poll
<1>5. Keyboard' /\ Addressed'
  BY DEF IInv, UsbSoftReset, Keyboard, Addressed, deviceVars
<1>. QED
  BY <1>1, <1>2, <1>3, <1>4, <1>5, Zenon DEF IInv, Memory

\* The command to start the port (main.c:95).
LEMMA Sie1InitKeeps == ASSUME IInv, Sie1Init PROVE IInv'
<1>1. NoList
  BY StartsWithout DEF Sie1Init, Starting
<1>2. NoList'
  BY <1>1 DEF NoList, Sie1Init, Starting
<1>3. TypeOK' /\ Counting'
  BY DEF IInv, TypeOK, Counting, Sie1Init, locals, deviceVars
<1>. QED
  BY <1>1, <1>2, <1>3, Starts DEF Sie1Init, deviceVars

\* The end of a wait on HPI_STATUS.
LEMMA Sie1StatusKeeps == ASSUME IInv, Sie1Status PROVE IInv'
<1>1. NoList
  BY StartsWithout DEF Sie1Status, Starting
<1>2. NoList'
  BY <1>1 DEF NoList, Sie1Status, Starting, controllerVars, deviceVars
<1>3. TypeOK' /\ Counting'
  BY DEF IInv, TypeOK, Counting, Sie1Status, locals, controllerVars, deviceVars
<1>. QED
  BY <1>1, <1>2, <1>3, Starts DEF Sie1Status, controllerVars, deviceVars

\* Whether the mail of that command came.
LEMMA Sie1AckKeeps == ASSUME IInv, Sie1Ack PROVE IInv'
<1>1. NoList
  BY StartsWithout DEF Sie1Ack, Starting
<1>2. NoList'
  BY <1>1 DEF NoList, Sie1Ack, Starting, controllerVars, deviceVars
<1>3. TypeOK' /\ Counting'
  BY DEF IInv, TypeOK, Counting, Sie1Ack, locals, controllerVars, deviceVars
<1>. QED
  BY <1>1, <1>2, <1>3, Starts DEF Sie1Ack, controllerVars, deviceVars

\* The command to reset the bus, which finds no list in the memory.
LEMMA HusbResetKeeps == ASSUME IInv, HusbReset PROVE IInv'
<1>1. NoList
  BY StartsWithout DEF HusbReset, Starting
<1>2. NoList'
  BY <1>1 DEF NoList, HusbReset, Starting
<1>3. TypeOK' /\ Counting'
  BY DEF IInv, TypeOK, Counting, HusbReset, locals, deviceVars
<1>. QED
  BY <1>1, <1>2, <1>3, Starts DEF HusbReset, deviceVars

\* Its mail, which may be the one before.
LEMMA HusbAckKeeps == ASSUME IInv, HusbAck PROVE IInv'
<1>1. NoList
  BY StartsWithout DEF HusbAck, Starting
<1>2. NoList'
  BY <1>1 DEF NoList, HusbAck, Starting, controllerVars, deviceVars
<1>3. TypeOK' /\ Counting'
  BY DEF IInv, TypeOK, Counting, HusbAck, locals, controllerVars, deviceVars
<1>. QED
  BY <1>1, <1>2, <1>3, Starts DEF HusbAck, controllerVars, deviceVars

\* Where the lines are high no command to reset the bus is left.
LEMMA DetectDeviceKeeps == ASSUME IInv, DetectDevice PROVE IInv'
<1>1. NoList
  BY StartsWithout DEF DetectDevice, Starting
<1>2. NoList'
  BY <1>1 DEF NoList, DetectDevice, LinesHigh, Starting, controllerVars, deviceVars
<1>3. TypeOK'
  BY ReadsAssumption
     DEF IInv, TypeOK, Counting, DetectDevice, controllerVars, deviceVars
<1>4. Counting'
  BY DEF IInv, Counting, DetectDevice
<1>. QED
  BY <1>1, <1>2, <1>3, <1>4, Starts DEF DetectDevice, controllerVars, deviceVars

\* And the enumeration begins anew where there was no keyboard.
LEMMA AwaitDeviceKeeps == ASSUME IInv, AwaitDevice PROVE IInv'
<1>1. NoList
  BY StartsWithout DEF AwaitDevice, Starting
<1>2. NoList'
  BY <1>1 DEF NoList, AwaitDevice, Starting, controllerVars, deviceVars
<1>3. TypeOK' /\ Counting'
  BY DEF IInv, TypeOK, Counting, AwaitDevice, locals, controllerVars, deviceVars
<1>. QED
  BY <1>1, <1>2, <1>3, Starts DEF AwaitDevice, controllerVars, deviceVars

\* The list of the step takes the place of whatever was there: the keyboard has taken
\* the request of the step before, or of this one when the list is written again.
LEMMA PostListKeeps == ASSUME IInv, PostList PROVE IInv'
<1>1. /\ mem \in [Addresses -> Int] /\ step \in 1..Poll /\ LinkOK(mem)
      /\ pc = "post" /\ pc' = "start" /\ mem' = Overwritten(mem, List)
      /\ step' = step /\ current' = current /\ command' = command
      /\ device' = device /\ request' = request
  <2>1. mem \in [Addresses -> Int] /\ step \in 1..Poll /\ LinkOK(mem)
    BY DEF IInv, TypeOK, Pointer
  <2>. QED
    BY <2>1, Zenon DEF PostList, deviceVars
<1>2. List = Words(step)
  <2>1. step = Poll => data_size % 16 = 8
    BY DEF IInv, Counting, PostList, Poll
  <2>. QED
    BY <2>1 DEF List, PollList, Words, PollWords
<1>3. /\ mem' \in [Addresses -> Int] /\ Held(mem', step) /\ LinkOK(mem')
      /\ mem'[Retry] = Active
      /\ step = 6 => mem'[\h057E] < 0
      /\ mem'[\h0580] < 0
  <2>1. mem' = Overwritten(mem, Words(step))
    BY <1>1, <1>2, Zenon
  <2>. QED
    BY <1>1, <2>1, Posted
<1>4. Active \notin Done /\ Active # Ok
  BY DEF Active, Done, Ok
<1>5. command # "HUSB_RESET_INT"
  BY <1>1 DEF IInv, Memory, NoList, ThisList, LastList, FiveWords
<1>6. Alive(device) /\ step < Poll => request \in {RequestFor(step - 1), RequestFor(step)}
  <2>1. CASE NoList
    <3>1. step = 1 /\ device \notin {"addressed", "configured"}
      BY <1>1, <1>5, <2>1, Zenon DEF NoList
    <3>2. Alive(device) => device = "default"
      BY <3>1 DEF Alive
    <3>3. RequestFor(1 - 1) = <<>>
      BY DEF RequestFor
    <3>4. device = "default" => request \in {<<>>, RequestFor(1)}
      BY Zenon DEF IInv, Keyboard
    <3>. QED
      BY <3>1, <3>2, <3>3, <3>4, Zenon
  <2>2. CASE ThisList
    BY <2>2, Zenon DEF ThisList, Served
  <2>3. CASE LastList
    <3>1. step - 1 < Poll
      BY <1>1 DEF Poll
    <3>2. Ok \in Done
      BY DEF Done
    <3>. QED
      BY <2>3, <3>1, <3>2, Zenon DEF LastList, Served
  <2>4. CASE FiveWords
    <3>1. 5 < Poll /\ 6 - 1 = 5
      BY DEF Poll
    <3>2. Ok \in Done
      BY DEF Done
    <3>3. step = 6 /\ Served(mem, 5, request, device) /\ mem[Retry] = Ok
      BY <2>4 DEF FiveWords
    <3>4. Alive(device) => request = RequestFor(5)
      BY <3>1, <3>2, <3>3 DEF Served
    <3>. QED
      BY <3>1, <3>3, <3>4
  <2>. QED
    BY <2>1, <2>2, <2>3, <2>4, Zenon DEF IInv, Memory
<1>7. Served(mem', step, request, device)
  <2>1. mem'[Retry] \notin Done
    <3>1. mem'[Retry] = Active
      BY <1>3
    <3>. QED
      BY <1>4, <3>1, Zenon
  <2>. QED
    BY <1>6, <2>1, Zenon DEF Served
<1>8. ThisList'
  BY <1>1, <1>3, <1>5, <1>7 DEF ThisList, Running
<1>9. Pointer'
  <2>1. current = \h0576 => step = 6
    BY DEF IInv, Pointer
  <2>2. current \in Grid \cup {0, \h0576}
    BY DEF IInv, Pointer
  <2>. QED
    BY <1>1, <1>3, <2>1, <2>2 DEF Pointer
<1>10. TypeOK'
  BY <1>3, ReadsAssumption DEF IInv, TypeOK, Counting, PostList, locals, deviceVars
<1>11. Counting' /\ Keyboard' /\ Addressed'
  BY DEF IInv, Counting, Keyboard, Addressed, PostList, locals, deviceVars
<1>. QED
  BY <1>8, <1>9, <1>10, <1>11, Zenon DEF IInv, Memory

\* The pointer leaves the five words.
LEMMA StartListKeeps == ASSUME IInv, StartList PROVE IInv'
<1>1. ThisList
  BY DEF IInv, Memory, NoList, LastList, FiveWords, Starting, StartList
<1>2. /\ pc' = "status" /\ current' = ListStart /\ mem' = mem /\ step' = step
      /\ command' = command /\ device' = device /\ request' = request
  BY Zenon DEF StartList, deviceVars
<1>3. ThisList'
  <2>1. "status" \in Running
    BY DEF Running
  <2>. QED
    BY <1>1, <1>2, <2>1, Zenon DEF ThisList
<1>4. Pointer'
  <2>1. ListStart \in Grid /\ ListStart # \h0576
    BY DEF ListStart, Grid
  <2>2. LinkOK(mem)
    BY DEF IInv, Pointer
  <2>. QED
    BY <1>2, <2>1, <2>2 DEF Pointer
<1>5. TypeOK'
  <2>1. ListStart \in Addresses
    BY InMemoryToo
  <2>. QED
    BY <1>2, <2>1 DEF IInv, TypeOK, StartList, locals, deviceVars
<1>6. Counting' /\ Keyboard' /\ Addressed'
  BY DEF IInv, Counting, Keyboard, Addressed, StartList, locals, deviceVars
<1>. QED
  BY <1>3, <1>4, <1>5, <1>6, Zenon DEF IInv, Memory

\* The waits and tests with a list in the memory.
LEMMA TestStatusKeeps == ASSUME IInv, TestStatus PROVE IInv'
<1>1. TypeOK' /\ Counting'
  BY DEF IInv, TypeOK, Counting, TestStatus, locals, controllerVars, deviceVars
<1>. QED
  BY <1>1, Waits DEF TestStatus, Running, controllerVars, deviceVars

\* The message is read ...
LEMMA WaitReadKeeps == ASSUME IInv, WaitRead PROVE IInv'
<1>1. TypeOK' /\ Counting'
  BY DEF IInv, TypeOK, Counting, WaitRead, deviceVars
<1>. QED
  BY <1>1, Waits DEF WaitRead, Running, deviceVars

\* ... and cleared, and the poll has no result to look at.
LEMMA WaitClearKeeps == ASSUME IInv, WaitClear PROVE IInv'
<1>1. TypeOK'
  BY DEF IInv, TypeOK, Counting, WaitClear, OtherMessage, deviceVars
<1>2. Counting'
  BY DEF IInv, TypeOK, Counting, WaitClear, Poll, deviceVars
<1>. QED
  BY <1>1, <1>2, Waits DEF WaitClear, Running, deviceVars

\* A transfer that did not go well begins with the message ...
LEMMA RetryReadKeeps == ASSUME IInv, RetryRead PROVE IInv'
<1>1. TypeOK' /\ Counting'
  BY DEF IInv, TypeOK, Counting, RetryRead, locals, deviceVars
<1>. QED
  BY <1>1, Waits DEF RetryRead, Running, deviceVars

\* ... which it clears ...
LEMMA RetryClearKeeps == ASSUME IInv, RetryClear PROVE IInv'
<1>1. TypeOK' /\ Counting'
  BY DEF IInv, TypeOK, Counting, RetryClear, OtherMessage, locals, deviceVars
<1>. QED
  BY <1>1, Waits DEF RetryClear, Running, deviceVars

\* ... and ends with the enumeration from its beginning.
LEMMA RetryStatusKeeps == ASSUME IInv, RetryStatus PROVE IInv'
<1>1. TypeOK' /\ Counting'
  BY DEF IInv, TypeOK, Counting, RetryStatus, locals, controllerVars, deviceVars
<1>. QED
  BY <1>1, Waits DEF RetryStatus, Running, controllerVars, deviceVars

\* The report is read,
LEMMA ReadKeycodeKeeps == ASSUME IInv, ReadKeycode PROVE IInv'
<1>1. keycode' \in Int
  BY InMemoryToo DEF IInv, TypeOK, ReadKeycode
<1>2. hot_plug_count' \in 0..(IF pc' = "removal" THEN RemovalReads ELSE PlugReads)
  BY ReadsAssumption DEF IInv, Counting, ReadKeycode
<1>3. TypeOK' /\ Counting'
  BY <1>1, <1>2 DEF IInv, TypeOK, Counting, ReadKeycode, controllerVars, deviceVars
<1>. QED
  BY <1>3, Waits DEF ReadKeycode, Running, controllerVars, deviceVars

\* the port is, no more often than the count allows,
LEMMA TestRemovalKeeps == ASSUME IInv, TestRemoval PROVE IInv'
<1>1. hot_plug_count' \in 0..(IF pc' = "removal" THEN RemovalReads ELSE PlugReads)
  BY ReadsAssumption DEF IInv, TypeOK, TestRemoval
<1>2. TypeOK'
  BY <1>1 DEF IInv, TypeOK, TestRemoval, controllerVars, deviceVars
<1>3. Counting'
  BY DEF IInv, Counting, TestRemoval
<1>. QED
  BY <1>2, <1>3, Waits DEF TestRemoval, Running, controllerVars, deviceVars

\* and a keyboard that comes back is enumerated anew.
LEMMA AwaitReplugKeeps == ASSUME IInv, AwaitReplug PROVE IInv'
<1>1. TypeOK' /\ Counting'
  BY DEF IInv, TypeOK, Counting, AwaitReplug, locals, controllerVars, deviceVars
<1>. QED
  BY <1>1, Waits DEF AwaitReplug, Running, controllerVars, deviceVars

\* The one list after which the driver reads the size of the reports.
LEMMA ConfigDesc2 == \A h \in 1..9 : Enumeration[h] = UsbGetConfigDesc2 <=> h = 5
<1>1. Enumeration[5] = UsbGetConfigDesc2
  BY DEF Enumeration
<1>2. ASSUME NEW h \in 1..9, Enumeration[h] = UsbGetConfigDesc2 PROVE h = 5
  <2>1. RequestOf(h) = RequestOf(5)
    BY <1>1, <1>2, Zenon DEF RequestOf
  <2>. QED
    BY <2>1, Distinct
<1>. QED
  BY <1>1, <1>2

\* Only a list whose setup packet went well is followed by the next.
LEMMA CheckKeeps == ASSUME IInv, Check PROVE IInv'
<1>1. ThisList /\ pc = "check" /\ step \in 1..9
  <2>1. pc = "check"
    BY DEF Check
  <2>2. ThisList
    BY <2>1 DEF IInv, Memory, NoList, LastList, FiveWords, Starting
  <2>3. step \in 1..9
    BY <2>1 DEF IInv, TypeOK, Counting, Poll
  <2>. QED
    BY <2>1, <2>2, <2>3
<1>2. CASE mem[ListStart + 8] = Ok
  <2>1. /\ step' = step + 1
        /\ pc' = IF Enumeration[step] = UsbGetConfigDesc2 THEN "device_info" ELSE "post"
        /\ mem' = mem /\ current' = current /\ command' = command
        /\ device' = device /\ request' = request /\ data_size' = data_size
        /\ hot_plug_count' = hot_plug_count
    BY <1>2, Zenon DEF Check, NextStep, locals, controllerVars, deviceVars
  <2>2. pc' = IF step = 5 THEN "device_info" ELSE "post"
    BY <1>1, <2>1, ConfigDesc2
  <2>3. step' - 1 = step /\ step' > 1 /\ step' \in 1..Poll /\ (step' = 6 <=> step = 5)
    BY <1>1, <2>1 DEF Poll
  <2>4. mem[Retry] = Ok /\ Ok \in Done
    BY <1>2 DEF Retry, Done
  <2>5. LastList'
    <3>1. Held(mem', step' - 1) /\ Served(mem', step' - 1, request', device')
      BY <1>1, <2>1, <2>3, Zenon DEF ThisList
    <3>2. command' # "HUSB_RESET_INT"
      BY <1>1, <2>1, Zenon DEF ThisList
    <3>. QED
      BY <2>1, <2>2, <2>3, <2>4, <3>1, <3>2 DEF LastList
  <2>6. Pointer'
    <3>1. current # \h0576
      BY <1>1 DEF IInv, Pointer
    <3>. QED
      BY <2>1, <3>1 DEF IInv, Pointer
  <2>7. TypeOK'
    BY <1>1, <2>1, <2>2, <2>3 DEF IInv, TypeOK, Counting, Check, locals, controllerVars, deviceVars
  <2>8. Counting'
    BY <1>1, <2>1, <2>2, <2>3 DEF IInv, Counting
  <2>9. Addressed'
    <3>1. CASE step = 2
      <4>1. device # "default"
        BY <1>1, <2>4, <3>1, Zenon DEF ThisList, Served
      <4>. QED
        BY <2>1, <4>1 DEF Addressed
    <3>2. CASE step # 2
      BY <1>1, <2>1, <3>2 DEF IInv, Addressed
    <3>. QED
      BY <3>1, <3>2
  <2>10. Keyboard'
    BY <2>1, Zenon DEF IInv, Keyboard
  <2>. QED
    BY <2>5, <2>6, <2>7, <2>8, <2>9, <2>10, Zenon DEF IInv, Memory
<1>3. CASE mem[ListStart + 8] # Ok
  <2>1. /\ pc' = "retry"
        /\ UNCHANGED <<step, mem, current, command, device, request, data_size, hot_plug_count>>
    BY <1>3, Zenon DEF Check, locals, controllerVars, deviceVars
  <2>2. TypeOK'
    BY <1>1, <1>3, <2>1 DEF IInv, TypeOK, Counting, Check, locals, controllerVars, deviceVars
  <2>3. Counting'
    BY <1>1, <2>1 DEF IInv, Counting, Poll
  <2>. QED
    BY <1>1, <2>1, <2>2, <2>3, Waits DEF Running
<1>. QED
  BY <1>2, <1>3

\* The five words lie beyond the list of step 5 and start nothing.
LEMMA DeviceInfoKeeps == ASSUME IInv, DeviceInfo PROVE IInv'
<1> DEFINE words == <<\h073F, \h8105, \h0003, \h0008, \hAC0A>>
<1>1. LastList /\ pc = "device_info" /\ step = 6
  <2>1. pc = "device_info"
    BY DEF DeviceInfo
  <2>2. LastList
    BY <2>1 DEF IInv, Memory, NoList, ThisList, FiveWords, Starting, Running
  <2>. QED
    BY <2>1, <2>2 DEF LastList
<1>2. /\ mem' = WriteWords(mem, \h0576, words) /\ current' = \h0576 /\ pc' = "post"
      /\ data_size' = mem'[\h057C] % 256
      /\ step' = step /\ command' = command /\ device' = device /\ request' = request
      /\ hot_plug_count' = hot_plug_count
  BY DEF DeviceInfo, deviceVars
<1>3. mem \in [Addresses -> Int] /\ Held(mem, 5) /\ Served(mem, 5, request, device)
      /\ mem[Retry] = Ok /\ LinkOK(mem) /\ command # "HUSB_RESET_INT"
  <2>1. 6 - 1 = 5
    OBVIOUS
  <2>2. mem \in [Addresses -> Int] /\ LinkOK(mem)
    BY DEF IInv, TypeOK, Pointer
  <2>3. Held(mem, 5) /\ Served(mem, 5, request, device)
    BY <1>1, <2>1, Zenon DEF LastList
  <2>. QED
    BY <1>1, <2>2, <2>3, Zenon DEF LastList
<1>4. words \in [1..5 -> Nat] /\ words[4] = 8 /\ words[5] = \hAC0A /\ DOMAIN words = 1..5
  OBVIOUS
<1>. HIDE DEF words
<1> DEFINE at == {\h0576 + 2 * (i - 1) : i \in DOMAIN words}
<1>5. mem' = [x \in Addresses |-> IF x \in at THEN words[(x - \h0576) \div 2 + 1] ELSE mem[x]]
  BY <1>2, Zenon DEF WriteWords
<1>6. at = {\h0576, \h0578, \h057A, \h057C, \h057E}
  <2>2. at = {\h0576 + 2 * (i - 1) : i \in 1..5}
    BY <1>4
  <2>. HIDE DEF at
  <2>. QED
    BY <2>2
<1>. HIDE DEF at
<1>7. mem' \in [Addresses -> Int]
  <2>1. ASSUME NEW x \in at PROVE words[(x - \h0576) \div 2 + 1] \in Int
    <3>1. (x - \h0576) \div 2 + 1 \in 1..5
      BY <1>6
    <3>. QED
      BY <1>4, <3>1
  <2>. QED
    BY <1>3, <1>5, <2>1
<1>8. mem'[\h057C] = 8 /\ mem'[\h057E] = \hAC0A
  <2>1. (\h057C - \h0576) \div 2 + 1 = 4 /\ (\h057E - \h0576) \div 2 + 1 = 5
    OBVIOUS
  <2>2. \h057C \in at /\ \h057E \in at
    BY <1>6
  <2>. QED
    BY <1>5, <1>4, <2>1, <2>2, InMemoryToo
<1>9. ASSUME NEW x \in Addresses, x \notin at PROVE mem'[x] = mem[x]
  BY <1>5, <1>9, Zenon
<1>10. EndOf(5) < \h0576 /\ EndOf(5) \in Int
  <2>1. Len(UsbGetConfigDesc2) = 46
    BY SMTT(60) DEF UsbGetConfigDesc2, SetUp, DataIn, StatusOut, TD, RequestAt, Active
  <2>2. Words(5) = UsbGetConfigDesc2
    BY DEF Words, Enumeration, Poll
  <2>3. Size(5) = 46
    BY <2>1, <2>2, Zenon DEF Size
  <2>. QED
    BY <2>3 DEF EndOf, EndAt, ListStart
<1>11. Intact(mem', 5)
  <2>1. ASSUME NEW n \in 1..Size(5)
        PROVE  mem'[ListStart + 2 * (n - 1)] = mem[ListStart + 2 * (n - 1)]
    <3>1. 5 \in 1..Poll
      BY DEF Poll
    <3>2. n \in 1..65 /\ ListStart + 2 * (n - 1) <= EndOf(5)
      BY <3>1, SizeOf
    <3>3. ListStart + 2 * (n - 1) \in Addresses
      BY <3>2, InMemory
    <3>4. ListStart + 2 * (n - 1) \notin at
      BY <1>6, <1>10, <3>2 DEF ListStart
    <3>. QED
      BY <1>9, <3>3, <3>4, Zenon
  <2>. QED
    BY <1>3, <2>1, Zenon DEF Held, Intact
<1>12. /\ mem'[\h0580] < 0 /\ mem'[Retry] = Ok /\ LinkOK(mem')
  <2>1. /\ \h0580 \notin at /\ Retry \notin at /\ \h051E \notin at
    BY <1>6 DEF Retry, ListStart
  <2>2. mem[\h0580] < 0
    <3>1. \h0580 > EndOf(5) /\ \h0580 \in Addresses \ PollBuffer
      BY <1>10, InMemoryToo
    <3>. QED
      BY <1>3, <3>1, IsBeyond DEF Held
  <2>3. mem'[\h0580] = mem[\h0580] /\ mem'[Retry] = mem[Retry] /\ mem'[\h051E] = mem[\h051E]
    BY <1>9, <2>1, InMemoryToo
  <2>. QED
    BY <1>3, <2>2, <2>3 DEF LinkOK
<1>13. FiveWords'
  <2>1. Served(mem', 5, request', device')
    <3>1. mem'[Retry] = mem[Retry]
      BY <1>3, <1>12
    <3>2. Served(mem', 5, request, device)
      BY <1>3, <3>1, StillServed, Zenon
    <3>. QED
      BY <1>2, <3>2
  <2>. QED
    BY <1>1, <1>2, <1>3, <1>8, <1>11, <1>12, <2>1 DEF FiveWords
<1>14. Pointer'
  BY <1>1, <1>2, <1>8, <1>12 DEF Pointer
<1>15. data_size' = 8
  BY <1>2, <1>8
<1>16. TypeOK'
  BY <1>1, <1>2, <1>7, <1>15, InMemoryToo DEF IInv, TypeOK, Counting, DeviceInfo, deviceVars
<1>17. Counting' /\ Keyboard' /\ Addressed'
  <2>1. Counting'
    BY <1>1, <1>2, <1>15 DEF IInv, Counting
  <2>2. Keyboard' /\ Addressed'
    BY <1>2, Zenon DEF IInv, Keyboard, Addressed
  <2>. QED
    BY <2>1, <2>2
<1>. QED
  BY <1>13, <1>14, <1>16, <1>17, Zenon DEF IInv, Memory

-----------------------------------------------------------------------------
(* The controller, the keyboard and who plugs it *)

\* The firmware's commands; a reset of the bus finds no list.
LEMMA ExecuteCommandKeeps == ASSUME IInv, ExecuteCommand PROVE IInv'
<1>1. /\ pc' = pc /\ step' = step /\ hot_plug_count' = hot_plug_count
      /\ data_size' = data_size /\ mem' = mem /\ current' = current
      /\ command # "none" /\ command' = "none"
  BY Zenon DEF ExecuteCommand, driverVars, locals
<1>2. CASE command = "HUSB_RESET_INT" /\ device # "off"
  <2>1. device' = "default" /\ request' = <<>>
    BY <1>2, Zenon DEF ExecuteCommand
  <2>2. NoList
    BY <1>2 DEF IInv, Memory, ThisList, LastList, FiveWords
  <2>3. NoList'
    BY <1>1, <2>1, <2>2 DEF NoList
  <2>4. TypeOK'
    BY <1>1, <2>1 DEF IInv, TypeOK, ExecuteCommand, driverVars, locals
  <2>5. Pointer' /\ Counting'
    BY <1>1 DEF IInv, Pointer, Counting
  <2>6. Keyboard' /\ Addressed'
    BY <1>1, <2>1, <2>2 DEF Keyboard, Alive, Addressed, NoList
  <2>. QED
    BY <2>3, <2>4, <2>5, <2>6, Zenon DEF IInv, Memory
<1>3. CASE ~(command = "HUSB_RESET_INT" /\ device # "off")
  <2>1. device' = device /\ request' = request
    BY <1>3, Zenon DEF ExecuteCommand, deviceVars
  <2>2. TypeOK'
    BY <1>1, <2>1 DEF IInv, TypeOK, ExecuteCommand, driverVars, locals
  <2>3. Pointer' /\ Counting'
    BY <1>1 DEF IInv, Pointer, Counting
  <2>4. Keyboard' /\ Addressed'
    BY <1>1, <2>1, Zenon DEF IInv, Keyboard, Addressed
  <2>5. Memory'
    <3>1. CASE NoList
      <4>1. NoList'
        BY <1>1, <1>3, <2>1, <3>1 DEF NoList
      <4>. QED
        BY <4>1 DEF Memory
    <3>2. command' # "HUSB_RESET_INT"
      BY <1>1
    <3>3. CASE ThisList
      BY <1>1, <2>1, <3>2, <3>3, Zenon DEF ThisList, Memory
    <3>4. CASE LastList
      BY <1>1, <2>1, <3>2, <3>4, Zenon DEF LastList, Memory
    <3>5. CASE FiveWords
      BY <1>1, <2>1, <3>2, <3>5 DEF FiveWords, Memory
    <3>. QED
      BY <3>1, <3>3, <3>4, <3>5, Zenon DEF IInv, Memory
  <2>. QED
    BY <2>2, <2>3, <2>4, <2>5, Zenon DEF IInv
<1>. QED
  BY <1>2, <1>3

\* What the controller leaves alone.
LEMMA ControllerFrame ==
  ASSUME Controller
  PROVE  /\ UNCHANGED <<driverVars, mailbox, command>> /\ current # 0
         /\ (msg' = msg /\ flag' = flag) \/ (msg' = HUSB_TDListDone /\ flag' = TRUE)
<1>1. current # 0
  BY Zenon DEF Controller, RunTD, FailTD, SkipTD, RunAstray, Runs
<1>2. UNCHANGED <<driverVars, mailbox, command>>
  BY Zenon DEF Controller, RunTD, FailTD, SkipTD, RunAstray
<1>3. (msg' = msg /\ flag' = flag) \/ (msg' = HUSB_TDListDone /\ flag' = TRUE)
  BY Zenon DEF Controller, RunTD, FailTD, SkipTD, RunAstray, Advance, ListDone
<1>. QED
  BY <1>1, <1>2, <1>3

\* At the five words nothing is run: the controller comes to no end of a list there.
LEMMA ControllerAstray ==
  ASSUME IInv, Controller, current = \h0576
  PROVE  current' = 0 /\ UNCHANGED <<mem, device, request>>
<1>1. /\ mem[\h057E] = \hAC0A \/ mem[\h057E] < 0
      /\ mem[\h0580] < 0 /\ mem \in [Addresses -> Int]
  BY DEF IInv, Pointer, TypeOK
<1>2. ~Runs(\h0576)
  <2>1. \h0576 + 8 = \h057E /\ (\hAC0A \div 16) % 2 # 1
    OBVIOUS
  <2>. QED
    BY <1>1, <2>1, InMemoryToo DEF Runs
<1>3. mem[\h0576 + 10] \notin Addresses \cup {0}
  <2>1. \h0576 + 10 = \h0580
    OBVIOUS
  <2>. QED
    BY <1>1, <2>1 DEF Addresses, ListStart
<1>4. RunAstray
  <2>1. ~RunTD /\ ~FailTD
    BY <1>2, Zenon DEF RunTD, FailTD
  <2>2. ~SkipTD
    BY <1>3 DEF SkipTD
  <2>. QED
    BY <2>1, <2>2, Zenon DEF Controller
<1>. QED
  BY <1>4, Zenon DEF RunAstray, ListDone, deviceVars

\* One step of the controller: the list stays, and the requests come in order.
LEMMA ControllerKeeps ==
  ASSUME IInv, Controller
  PROVE  /\ IInv'
         /\ request' = request \/ Place(request') = Place(request) + 1
<1>1. /\ pc' = pc /\ step' = step /\ command' = command
      /\ hot_plug_count' = hot_plug_count /\ data_size' = data_size
      /\ usb_ctl_val' = usb_ctl_val /\ keycode' = keycode /\ mailbox' = mailbox
      /\ current # 0
  BY ControllerFrame DEF driverVars, locals
<1>2. msg' \in {msg, HUSB_TDListDone} /\ flag' \in {flag, TRUE}
  BY ControllerFrame
<1>3. ~NoList
  BY <1>1 DEF NoList
<1>4. CASE current = \h0576
  <2>1. current' = 0 /\ mem' = mem /\ device' = device /\ request' = request
    BY <1>4, ControllerAstray
  <2>2. TypeOK'
    <3>1. {usb_ctl_val', msg'} \subseteq {OtherMessage, HUSB_TDListDone} /\ flag' \in BOOLEAN
      BY <1>1, <1>2 DEF IInv, TypeOK
    <3>. QED
      BY <1>1, <2>1, <3>1 DEF IInv, TypeOK
  <2>3. Pointer' /\ Counting'
    BY <1>1, <2>1 DEF IInv, Pointer, Counting
  <2>4. Keyboard' /\ Addressed'
    BY <1>1, <2>1, Zenon DEF IInv, Keyboard, Addressed
  <2>5. Memory'
    <3>1. CASE ThisList
      BY <1>1, <2>1, <3>1, Zenon DEF ThisList, Memory
    <3>2. CASE LastList
      BY <1>1, <2>1, <3>2, Zenon DEF LastList, Memory
    <3>3. CASE FiveWords
      BY <1>1, <2>1, <3>3 DEF FiveWords, Memory
    <3>. QED
      BY <1>3, <3>1, <3>2, <3>3, Zenon DEF IInv, Memory
  <2>. QED
    BY <2>1, <2>2, <2>3, <2>4, <2>5, Zenon DEF IInv
<1>5. CASE current # \h0576
  <2>1. current \in Grid \cup {0} /\ LinkOK(mem)
    BY <1>5 DEF IInv, Pointer
  <2> DEFINE h == IF ThisList THEN step ELSE step - 1
  <2>2. /\ h \in 1..Poll /\ Held(mem, h) /\ Served(mem, h, request, device)
    <3>1. step \in 1..Poll
      BY DEF IInv, TypeOK
    <3>2. CASE ThisList
      BY <3>1, <3>2, Zenon DEF ThisList
    <3>3. CASE ~ThisList
      <4>1. LastList
        BY <1>1, <1>3, <1>5, <3>3 DEF IInv, Memory, FiveWords
      <4>2. step - 1 \in 1..Poll
        BY <3>1, <4>1 DEF LastList, Poll
      <4>. QED
        BY <3>3, <4>1, <4>2, Zenon DEF LastList
    <3>. QED
      BY <3>2, <3>3
  <2>. HIDE DEF h
  <2>3. /\ mem' \in [Addresses -> Int] /\ Held(mem', h) /\ LinkOK(mem')
        /\ Served(mem', h, request', device')
        /\ current' \in Grid \cup {0}
        /\ mem[Retry] = Ok => mem'[Retry] = Ok
        /\ Keyboard' /\ device' \in {device, "addressed", "configured"}
        /\ request' = request \/ (request' \in [1..4 -> Nat]
                                   /\ Place(request') = Place(request) + 1)
    <3>1. TypeOK /\ Keyboard
      BY DEF IInv
    <3>. QED
      BY <2>1, <2>2, <3>1, OnList, Zenon
  <2>4. TypeOK'
    <3>1. current' \in Addresses \cup {0}
      BY <2>3, GridPlaces, PlacesInMemory
    <3>2. device' \in {"off", "powered", "default", "addressed", "configured"}
      BY <2>3 DEF IInv, TypeOK
    <3>3. request' = <<>> \/ request' \in [1..4 -> Nat]
      BY <2>3, Zenon DEF IInv, TypeOK
    <3>. QED
      BY <1>1, <1>2, <2>3, <3>1, <3>2, <3>3 DEF IInv, TypeOK
  <2>5. Pointer' /\ Counting'
    <3>1. current' # \h0576
      BY <2>3 DEF Grid
    <3>. QED
      BY <1>1, <2>3, <3>1 DEF IInv, Pointer, Counting
  <2>6. Addressed'
    BY <1>1, <2>3 DEF IInv, Addressed
  <2>7. Memory'
    <3>1. CASE ThisList
      <4>1. h = step
        BY <3>1 DEF h
      <4>2. ThisList'
        BY <1>1, <2>3, <3>1, <4>1, Zenon DEF ThisList
      <4>. QED
        BY <4>2 DEF Memory
    <3>2. CASE ~ThisList
      <4>1. LastList /\ h = step - 1
        BY <1>1, <1>3, <1>5, <3>2 DEF IInv, Memory, FiveWords, h
      <4>2. LastList'
        BY <1>1, <2>3, <4>1, Zenon DEF LastList
      <4>. QED
        BY <4>2 DEF Memory
    <3>. QED
      BY <3>1, <3>2
  <2>. QED
    BY <2>3, <2>4, <2>5, <2>6, <2>7, Zenon DEF IInv
<1>. QED
  BY <1>4, <1>5

\* Plugging in and pulling out leaves everything but the keyboard and the message.
LEMMA PlugKeeps == ASSUME IInv, PlugIn \/ PullOut PROVE IInv'
<1>1. /\ pc' = pc /\ step' = step /\ command' = command
      /\ hot_plug_count' = hot_plug_count /\ data_size' = data_size
      /\ usb_ctl_val' = usb_ctl_val /\ keycode' = keycode /\ mailbox' = mailbox
      /\ mem' = mem /\ current' = current
      /\ msg' = OtherMessage /\ flag' = TRUE
  BY Zenon DEF PlugIn, PullOut, PlugMessage, driverVars, locals
<1>2. /\ device' \in {"powered", "off"}
      /\ request' = request \/ request' = <<>>
      /\ device = "off" \/ request' = <<>>
  BY DEF PlugIn, PullOut
<1>3. TypeOK'
  <2>1. {usb_ctl_val', msg'} \subseteq {OtherMessage, HUSB_TDListDone} /\ flag' \in BOOLEAN
    BY <1>1 DEF IInv, TypeOK, OtherMessage
  <2>2. request' = <<>> \/ request' \in [1..4 -> Nat]
    BY <1>2, Zenon DEF IInv, TypeOK
  <2>3. device' \in {"off", "powered", "default", "addressed", "configured"}
    BY <1>2
  <2>. QED
    BY <1>1, <2>1, <2>2, <2>3 DEF IInv, TypeOK
<1>4. Pointer' /\ Counting'
  BY <1>1 DEF IInv, Pointer, Counting
<1>5. ~Alive(device') /\ device' # "default"
  BY <1>2 DEF Alive
<1>6. Keyboard' /\ Addressed'
  <2>1. request' = <<>>
    <3>1. device = "off" => ~Alive(device)
      BY DEF Alive
    <3>. QED
      BY <1>2, <3>1, Zenon DEF IInv, Keyboard
  <2>. QED
    BY <1>5, <2>1, Zenon DEF Keyboard, Addressed
<1>7. \A m, h : Served(m, h, request', device')
  BY <1>5, Zenon DEF Served
<1>8. Memory'
  <2>1. CASE NoList
    <3>1. NoList'
      BY <1>1, <1>2, <2>1 DEF NoList
    <3>. QED
      BY <3>1 DEF Memory
  <2>2. CASE ThisList
    BY <1>1, <1>7, <2>2, Zenon DEF ThisList, Memory
  <2>3. CASE LastList
    BY <1>1, <1>7, <2>3, Zenon DEF LastList, Memory
  <2>4. CASE FiveWords
    BY <1>1, <1>7, <2>4 DEF FiveWords, Memory
  <2>. QED
    BY <2>1, <2>2, <2>3, <2>4, Zenon DEF IInv, Memory
<1>. QED
  BY <1>3, <1>4, <1>6, <1>8, Zenon DEF IInv

-----------------------------------------------------------------------------
(* The theorems *)

\* At power-up there is no list.
LEMMA InitInvariant == Init => IInv
<1>. SUFFICES ASSUME Init PROVE IInv
  OBVIOUS
<1>1. mem \in [Addresses -> Int] /\ \A x \in Addresses : mem[x] < 0
  BY DEF Init, Unknown
<1>2. TypeOK
  <2>1. hot_plug_count \in 0..(IF pc = "removal" THEN RemovalReads ELSE PlugReads)
    BY ReadsAssumption DEF Init
  <2>2. {usb_ctl_val, msg} \subseteq {OtherMessage, HUSB_TDListDone}
    BY DEF Init, OtherMessage
  <2>3. step \in 1..Poll
    BY DEF Init, Poll
  <2>4. /\ current \in Addresses \cup {0} /\ flag \in BOOLEAN
        /\ mailbox \in {"garbage", "COMM_ACK"}
        /\ command \in {"none", "HUSB_SIE1_INIT_INT", "HUSB_RESET_INT"}
        /\ request = <<>>
    BY Zenon DEF Init
  <2>5. /\ pc = "USB_HOT_PLUG" /\ data_size \in 0..255 /\ keycode \in Int
        /\ device \in {"off", "powered", "default", "addressed", "configured"}
    BY DEF Init
  <2>. QED
    BY <1>1, <2>1, <2>2, <2>3, <2>4, <2>5 DEF TypeOK
<1>3. NoList
  BY <1>1 DEF Init, NoList, Starting
<1>4. Pointer
  BY <1>1, InMemoryToo DEF Init, Pointer, LinkOK
<1>5. Counting /\ Keyboard /\ Addressed
  BY DEF Init, Counting, Keyboard, Alive, Addressed, Poll
<1>. QED
  BY <1>2, <1>3, <1>4, <1>5, Zenon DEF IInv, Memory

\* Every step keeps the invariant.
LEMMA NextInvariant == IInv /\ [Next]_vars => IInv'
<1>. SUFFICES ASSUME IInv, [Next]_vars PROVE IInv'
  OBVIOUS
<1>1. CASE Driver
  BY <1>1, UsbSoftResetKeeps, Sie1InitKeeps, Sie1StatusKeeps, Sie1AckKeeps, HusbResetKeeps,
     HusbAckKeeps, DetectDeviceKeeps, AwaitDeviceKeeps, PostListKeeps, StartListKeeps,
     TestStatusKeeps, WaitReadKeeps, WaitClearKeeps, CheckKeeps, RetryReadKeeps,
     RetryClearKeeps, RetryStatusKeeps, DeviceInfoKeeps, ReadKeycodeKeeps,
     TestRemovalKeeps, AwaitReplugKeeps, Zenon DEF Driver
<1>2. CASE ExecuteCommand
  BY <1>2, ExecuteCommandKeeps
<1>3. CASE Controller
  BY <1>3, ControllerKeeps
<1>4. CASE PlugIn \/ PullOut
  BY <1>4, PlugKeeps
<1>5. CASE UNCHANGED vars
  <2>1. /\ pc' = pc /\ step' = step /\ mem' = mem /\ current' = current
        /\ command' = command /\ device' = device /\ request' = request
        /\ hot_plug_count' = hot_plug_count /\ data_size' = data_size
        /\ usb_ctl_val' = usb_ctl_val /\ keycode' = keycode
        /\ msg' = msg /\ flag' = flag /\ mailbox' = mailbox
    BY <1>5, Zenon DEF vars, locals, controllerVars, deviceVars
  <2>2. TypeOK' /\ Counting' /\ Addressed'
    BY <2>1 DEF IInv, TypeOK, Counting, Addressed
  <2>3. Pointer' /\ Keyboard'
    BY <2>1 DEF IInv, Pointer, Keyboard
  <2>4. Memory'
    BY <2>1 DEF IInv, Memory, NoList, ThisList, LastList, FiveWords
  <2>. QED
    BY <2>2, <2>3, <2>4, Zenon DEF IInv
<1>. QED
  BY <1>1, <1>2, <1>3, <1>4, <1>5, Zenon DEF Next

\* Which list lies in the controller's memory, where the controller is in it and how
\* far the keyboard has come, at each step of the driver.
THEOREM Invariant == Spec => []IInv
<1>. QED
  BY InitInvariant, NextInvariant, PTL DEF Spec

\* The values the variables take: the count of port reads ends (main.c:142 and 564),
\* and the controller stays within the lists.
THEOREM TypeCorrect == Spec => []TypeOK
<1>1. IInv => TypeOK
  BY DEF IInv
<1>. QED
  BY <1>1, Invariant, PTL

\* While the driver waits for a list, nothing but the controller's retry words changes
\* in it, whatever a list of an earlier step still does (usb.c:116-534).
THEOREM ListIntactHolds == Spec => []ListIntact
<1>1. IInv => ListIntact
  <2>. SUFFICES ASSUME IInv, pc \in {"status", "wait", "wait_clear", "check"},
                       NEW i \in DOMAIN List
       PROVE  LET word == mem[ListStart + 2 * (i - 1)]
              IN  word = List[i] \/ (List[i] = Active /\ word \in {0, Ok - 1, Ok})
    BY Zenon DEF ListIntact
  <2>1. ThisList
    BY DEF IInv, Memory, NoList, LastList, FiveWords, Starting
  <2>2. List = Words(step)
    <3>1. step = Poll => data_size % 16 = 8
      BY DEF IInv, Counting, Poll
    <3>. QED
      BY <3>1 DEF List, PollList, Words, PollWords
  <2>3. step \in 1..Poll
    BY DEF IInv, TypeOK
  <2>4. i \in 1..Size(step)
    <3>1. DOMAIN Words(step) = 1..Size(step)
      <4>1. Words(step) \in [1..Size(step) -> Nat]
        BY <2>3, ListIs
      <4>. QED
        BY <4>1
    <3>. QED
      BY <2>2, <3>1, Zenon
  <2>5. Intact(mem, step)
    BY <2>1, Zenon DEF ThisList, Held
  <2>. QED
    BY <2>2, <2>4, <2>5, Zenon DEF Intact
<1>. QED
  BY <1>1, Invariant, PTL

\* Past the first device descriptor no keyboard is left at address 0, whatever messages
\* are stale (usb.c:153, main.c:225).
THEOREM AddressedHolds == Spec => []Addressed
<1>1. IInv => Addressed
  BY DEF IInv
<1>. QED
  BY <1>1, Invariant, PTL

\* A keyboard gets the requests in their order, none left out (main.c:195-495).
THEOREM RequestsInOrderHolds == Spec => RequestsInOrder
<1> DEFINE InOrder == request' # request =>
                        request' = <<>> \/ Place(request') = Place(request) + 1
<1>1. IInv /\ [Next]_vars => [InOrder]_vars
  <2>. SUFFICES ASSUME IInv, [Next]_vars PROVE InOrder
    OBVIOUS
  <2>1. CASE Driver
    <3>1. request' = request
      <4>1. CASE UsbSoftReset \/ Sie1Init \/ Sie1Status \/ Sie1Ack \/ HusbReset \/ HusbAck
        BY <4>1, Zenon DEF UsbSoftReset, Sie1Init, Sie1Status, Sie1Ack, HusbReset, HusbAck,
                           deviceVars
      <4>2. CASE DetectDevice \/ AwaitDevice \/ PostList \/ StartList \/ TestStatus
        BY <4>2, Zenon DEF DetectDevice, AwaitDevice, PostList, StartList, TestStatus, deviceVars
      <4>3. CASE WaitRead \/ WaitClear \/ Check \/ RetryRead \/ RetryClear \/ RetryStatus
        BY <4>3, Zenon DEF WaitRead, WaitClear, Check, RetryRead, RetryClear, RetryStatus,
                           deviceVars
      <4>4. CASE ReadKeycode \/ TestRemoval \/ AwaitReplug
        BY <4>4, Zenon DEF ReadKeycode, TestRemoval, AwaitReplug, deviceVars
      <4>5. CASE DeviceInfo
        BY <4>5 DEF DeviceInfo, deviceVars
      <4>. QED
        BY <2>1, <4>1, <4>2, <4>3, <4>4, <4>5, Zenon DEF Driver
    <3>. QED
      BY <3>1, Zenon
  <2>2. CASE ExecuteCommand
    BY <2>2, Zenon DEF ExecuteCommand, deviceVars
  <2>3. CASE Controller
    BY <2>3, ControllerKeeps, Zenon
  <2>4. CASE PlugIn \/ PullOut
    BY <2>4, Zenon DEF PlugIn, PullOut
  <2>5. CASE UNCHANGED vars
    BY <2>5, Zenon DEF vars, deviceVars
  <2>. QED
    BY <2>1, <2>2, <2>3, <2>4, <2>5, Zenon DEF Next
<1>. QED
  BY <1>1, Invariant, PTL DEF Spec, RequestsInOrder
=============================================================================
