--------------------------- MODULE jtag_uart_proofs ---------------------------
(***************************************************************************)
(* The console driver loses, duplicates and reorders no character in       *)
(* either direction, and switches no direction off for good, for           *)
(* every size of the buffers and of the FIFOs.                             *)
(*                                                                         *)
(* The program copies with indices it has read before: the invariant says  *)
(* that what it saw free is free still, and what it saw filled is filled   *)
(* still, although the interrupt routine has moved the other index since.  *)
(***************************************************************************)
EXTENDS jtag_uart, SequenceTheorems, TLAPS

\* The types, by the actions that keep them.
RingTypes ==
  /\ tx_in \in Index /\ tx_out \in Index /\ rx_in \in Index /\ rx_out \in Index
  /\ tx_buf \in [Index -> Nat] /\ rx_buf \in [Index -> Nat]
MainTypes ==
  /\ in \in Index /\ out \in Index /\ n \in Index
  /\ left \in 0..MaxCount /\ written \in 0..MaxOutput
  /\ reading \in Seq(Nat) /\ copied \in Seq(Nat)
CoreTypes ==
  /\ wfifo \in Seq(Nat) /\ Len(wfifo) <= WriteDepth
  /\ rfifo \in Seq(Nat) /\ Len(rfifo) <= ReadDepth
  /\ input \in 0..MaxInput /\ output \in Seq(Nat)
  /\ space \in 0..WriteDepth
  /\ host_inactive \in 0..Timeout
Types == RingTypes /\ MainTypes /\ CoreTypes

\* How many characters are in a buffer.
Used(from, to) == (to - from) % BUF_LEN

\* While the program copies into the transmit buffer, the places it writes are
\* free, and before it moves the index they hold the characters to come; what is
\* left of the call fits the bound.
Copying == {"wcopy", "wpublish"}
CopyFits ==
  /\ pc \in Copying => in = tx_in /\ in + n <= BUF_LEN /\ n > 0
                       /\ Used(tx_out, tx_in) + n <= BUF_LEN - 1
  /\ pc = "wcopy" => n <= left
  /\ pc = "wpublish" => /\ written + n + left <= MaxOutput
                        /\ \A k \in 1..n : tx_buf[in + k - 1] = written + k
  /\ pc \in {"wload", "wcopy", "wkick", "wspin", "wcheck"} => written + left <= MaxOutput
\* The interrupt routine writes no more characters than the FIFO had room for: the
\* host can only take some out meanwhile.
Serving == {"receive", "received", "transmit"}
SpaceLeft == isr \in Serving => Len(wfifo) + space <= WriteDepth

\* While the program copies out of the receive buffer, the places it reads are filled,
\* and keep what it has copied until it moves the index.
Fetching == {"rcopy", "rrelease"}
FetchHeld ==
  /\ pc \in Fetching => out = rx_out /\ out + n <= BUF_LEN /\ n > 0 /\ n <= Used(rx_out, rx_in)
  /\ pc = "rcopy" => n <= left
  /\ pc = "rrelease" => progress /\ copied = [k \in 1..n |-> rx_buf[out + k - 1]]

\* A pause of the host interrupts only while there are characters in the FIFO.
Pausing == pause_irq => rfifo # << >>
\* So the receive interrupt finds a character for its first read, and leaves its loop
\* with one in the receive buffer, whatever the host sends meanwhile.
Received ==
  /\ isr = "receive" => rfifo # << >> \/ rx_in # rx_out
  /\ isr = "received" => rx_in # rx_out

IInv == CopyFits /\ SpaceLeft /\ FetchHeld /\ Pausing /\ Received /\ NotStalled
-----------------------------------------------------------------------------
(* The ring buffers *)

\* Indices advance and differ by less than a length of the buffer.
LEMMA Sizes ==
  /\ BUF_LEN \in Nat /\ BUF_LEN > 1
  /\ WriteDepth \in Nat /\ WriteDepth > 0 /\ ReadDepth \in Nat /\ ReadDepth > 0
  /\ Timeout \in Nat /\ MaxInput \in Nat /\ MaxOutput \in Nat /\ MaxCount \in Nat
BY JtagAssumption

LEMMA Wrap ==
  /\ \A a \in 0..(BUF_LEN - 1) : a % BUF_LEN = a
  /\ \A a \in BUF_LEN..(2 * BUF_LEN - 1) : a % BUF_LEN = a - BUF_LEN
  /\ \A a \in (-BUF_LEN)..(-1) : a % BUF_LEN = a + BUF_LEN
BY JtagAssumption

LEMMA Advanced ==
  ASSUME NEW a \in Index, NEW k \in 0..BUF_LEN
  PROVE  /\ Advance(a, k) \in Index
         /\ Advance(a, k) = IF a + k < BUF_LEN THEN a + k ELSE a + k - BUF_LEN
BY Sizes, Wrap DEF Advance, Index

LEMMA AdvancedInIndex ==
  ASSUME NEW a \in Index, NEW k \in Index
  PROVE  Advance(a, k) \in Index
BY Sizes DEF Advance, Index

LEMMA OneIndex == 1 \in Index
BY Sizes DEF Index

LEMMA UsedIs ==
  ASSUME NEW from \in Index, NEW to \in Index
  PROVE  /\ Used(from, to) \in Index
         /\ Used(from, to) = IF from <= to THEN to - from ELSE to - from + BUF_LEN
BY Sizes, Wrap DEF Used, Index

LEMMA UsedGrows ==
  ASSUME NEW from \in Index, NEW to \in Index, NEW k \in Nat,
         Used(from, to) + k <= BUF_LEN - 1
  PROVE  Advance(to, k) \in Index /\ Used(from, Advance(to, k)) = Used(from, to) + k
<1> DEFINE t == Advance(to, k)
<1>1. /\ Used(from, to) \in Index
      /\ Used(from, to) = IF from <= to THEN to - from ELSE to - from + BUF_LEN
  BY UsedIs
<1>2. k \in 0..BUF_LEN
  BY <1>1, Sizes DEF Index
<1>3. t \in Index /\ t = IF to + k < BUF_LEN THEN to + k ELSE to + k - BUF_LEN
  BY <1>2, Advanced
<1> HIDE DEF t
<1>4. Used(from, t) = IF from <= t THEN t - from ELSE t - from + BUF_LEN
  BY <1>3, UsedIs
<1>5. Used(from, t) = Used(from, to) + k
  BY <1>1, <1>2, <1>3, <1>4, Sizes DEF Index
<1>. QED
  BY <1>3, <1>5 DEF t

LEMMA UsedShrinks ==
  ASSUME NEW from \in Index, NEW to \in Index, NEW k \in Nat, k <= Used(from, to)
  PROVE  Advance(from, k) \in Index /\ Used(Advance(from, k), to) = Used(from, to) - k
<1> DEFINE f == Advance(from, k)
<1>1. /\ Used(from, to) \in Index
      /\ Used(from, to) = IF from <= to THEN to - from ELSE to - from + BUF_LEN
  BY UsedIs
<1>2. k \in 0..BUF_LEN
  BY <1>1, Sizes DEF Index
<1>3. f \in Index /\ f = IF from + k < BUF_LEN THEN from + k ELSE from + k - BUF_LEN
  BY <1>2, Advanced
<1> HIDE DEF f
<1>4. Used(f, to) = IF f <= to THEN to - f ELSE to - f + BUF_LEN
  BY <1>3, UsedIs
<1>5. Used(f, to) = Used(from, to) - k
  BY <1>1, <1>2, <1>3, <1>4, Sizes DEF Index
<1>. QED
  BY <1>3, <1>5 DEF f

\* The place k after a place is (k - d) after the place d after it.
LEMMA AdvancedTwice ==
  ASSUME NEW from \in Index, NEW d \in 0..(BUF_LEN - 1), NEW k \in d..(BUF_LEN - 1)
  PROVE  Advance(Advance(from, d), k - d) = Advance(from, k)
<1> DEFINE f == Advance(from, d)
<1>1. d \in 0..BUF_LEN /\ k \in 0..BUF_LEN /\ k - d \in 0..BUF_LEN
  BY Sizes
<1>2. f \in Index /\ f = IF from + d < BUF_LEN THEN from + d ELSE from + d - BUF_LEN
  BY <1>1, Advanced
<1>3. Advance(from, k) = IF from + k < BUF_LEN THEN from + k ELSE from + k - BUF_LEN
  BY <1>1, Advanced
<1> HIDE DEF f
<1>4. Advance(f, k - d) = IF f + (k - d) < BUF_LEN THEN f + (k - d) ELSE f + (k - d) - BUF_LEN
  BY <1>1, <1>2, Advanced
<1>5. Advance(f, k - d) = Advance(from, k)
  BY <1>1, <1>2, <1>3, <1>4, Sizes DEF Index
<1>. QED
  BY <1>5 DEF f

\* As many places after the first of a ring as it has characters comes its end.
LEMMA EndOfRing ==
  ASSUME NEW from \in Index, NEW to \in Index
  PROVE  Advance(from, Used(from, to)) = to
<1> DEFINE u == Used(from, to)
<1>1. u \in Index /\ u = IF from <= to THEN to - from ELSE to - from + BUF_LEN
  BY UsedIs
<1>2. u \in 0..BUF_LEN
  BY <1>1, Sizes DEF Index
<1> HIDE DEF u
<1>3. Advance(from, u) = IF from + u < BUF_LEN THEN from + u ELSE from + u - BUF_LEN
  BY <1>2, Advanced
<1>4. Advance(from, u) = to
  BY <1>1, <1>2, <1>3, Sizes DEF Index
<1>. QED
  BY <1>4 DEF u

\* A ring as a sequence: its length and its characters.
LEMMA RingIs ==
  ASSUME NEW buf \in [Index -> Nat], NEW from \in Index, NEW to \in Index,
         NEW u \in Nat, u = Used(from, to)
  PROVE  /\ Ring(buf, from, to) \in Seq(Nat) /\ Len(Ring(buf, from, to)) = u
         /\ \A k \in 1..u : Ring(buf, from, to)[k] = buf[Advance(from, k - 1)]
<1>0. u \in Index
  BY UsedIs
<1>1. u \in Nat /\ u < BUF_LEN
  BY <1>0, Sizes DEF Index
<1>2. Ring(buf, from, to) = [k \in 1..u |-> buf[(from + k - 1) % BUF_LEN]]
  BY DEF Ring, Used
<1>3. ASSUME NEW k \in 1..u
      PROVE  (from + k - 1) % BUF_LEN = Advance(from, k - 1) /\ Advance(from, k - 1) \in Index
  <2>1. k - 1 \in 0..BUF_LEN /\ from + k - 1 = from + (k - 1)
    BY <1>1, Sizes DEF Index
  <2>. QED
    BY <2>1, Advanced DEF Advance
<1>4. \A k \in 1..u : buf[(from + k - 1) % BUF_LEN] \in Nat
  BY <1>3
<1>5. Ring(buf, from, to) \in Seq(Nat)
  BY <1>1, <1>2, <1>4
<1>. QED
  BY <1>1, <1>2, <1>3, <1>5

\* The characters of n places from a place on.
Run(buf, from, k) == [j \in 1..k |-> buf[Advance(from, j - 1)]]

LEMMA RunIs ==
  ASSUME NEW buf \in [Index -> Nat], NEW from \in Index, NEW k \in 0..(BUF_LEN - 1)
  PROVE  Run(buf, from, k) \in Seq(Nat) /\ Len(Run(buf, from, k)) = k
<1>1. \A j \in 1..k : Advance(from, j - 1) \in Index
  BY Advanced, Sizes
<1>2. \A j \in 1..k : buf[Advance(from, j - 1)] \in Nat
  BY <1>1
<1>. QED
  BY <1>2, Sizes DEF Run

\* A sequence that reads as another one and then a third is their concatenation.
LEMMA Joined ==
  ASSUME NEW s \in Seq(Nat), NEW t \in Seq(Nat), NEW w \in Seq(Nat),
         Len(w) = Len(s) + Len(t),
         \A j \in 1..Len(s) : w[j] = s[j],
         \A j \in 1..Len(t) : w[Len(s) + j] = t[j]
  PROVE  w = s \o t
<1>1. Len(s) \in Nat /\ Len(t) \in Nat
  OBVIOUS
<1>2. /\ s \o t \in Seq(Nat) /\ Len(s \o t) = Len(s) + Len(t)
      /\ \A i \in 1..(Len(s) + Len(t)) : (s \o t)[i] = IF i <= Len(s) THEN s[i] ELSE t[i - Len(s)]
  BY ConcatProperties
<1>3. ASSUME NEW i \in 1..(Len(s) + Len(t)) PROVE w[i] = (s \o t)[i]
  <2>1. CASE i <= Len(s)
    BY <1>1, <1>2, <2>1
  <2>2. CASE i > Len(s)
    <3>1. i - Len(s) \in 1..Len(t) /\ Len(s) + (i - Len(s)) = i
      BY <1>1, <2>2
    <3>2. w[i] = t[i - Len(s)]
      BY <3>1
    <3>. QED
      BY <1>1, <1>2, <2>2, <3>2
  <2>. QED
    BY <1>1, <2>1, <2>2
<1>. QED
  BY <1>2, <1>3, SeqEqual

\* Characters put behind the last of a ring, and taken from its first on.
LEMMA RingGrows ==
  ASSUME NEW buf \in [Index -> Nat], NEW from \in Index, NEW to \in Index, NEW k \in Nat,
         Used(from, to) + k <= BUF_LEN - 1
  PROVE  Ring(buf, from, Advance(to, k)) = Ring(buf, from, to) \o Run(buf, to, k)
<1> DEFINE u == Used(from, to)
           L == Ring(buf, from, Advance(to, k))
           s == Ring(buf, from, to)
           t == Run(buf, to, k)
<1>0. u \in Index
  BY UsedIs
<1>1. u \in Nat /\ k \in 0..(BUF_LEN - 1) /\ BUF_LEN \in Nat /\ u + k <= BUF_LEN - 1
  BY <1>0, Sizes DEF Index
<1>2. /\ L \in Seq(Nat) /\ Len(L) = u + k
      /\ \A j \in 1..(u + k) : L[j] = buf[Advance(from, j - 1)]
  <2>1. Advance(to, k) \in Index /\ Used(from, Advance(to, k)) = u + k /\ u + k \in Nat
    BY <1>1, UsedGrows
  <2>. QED
    BY <2>1, RingIs
<1>3. s \in Seq(Nat) /\ Len(s) = u /\ \A j \in 1..u : s[j] = buf[Advance(from, j - 1)]
  BY <1>1, RingIs
<1>4. t \in Seq(Nat) /\ Len(t) = k
  BY <1>1, RunIs
<1>5. \A j \in 1..k : t[j] = buf[Advance(to, j - 1)]
  BY DEF Run
<1>6. ASSUME NEW j \in 1..k PROVE Advance(to, j - 1) = Advance(from, (u + j) - 1)
  <2>1. /\ u \in 0..(BUF_LEN - 1) /\ (u + j) - 1 \in u..(BUF_LEN - 1)
        /\ ((u + j) - 1) - u = j - 1
    BY <1>1
  <2>2. Advance(Advance(from, u), ((u + j) - 1) - u) = Advance(from, (u + j) - 1)
    BY <2>1, AdvancedTwice
  <2>. QED
    BY <2>1, <2>2, EndOfRing
<1> HIDE DEF L, s, t, u
<1>7. ASSUME NEW j \in 1..u PROVE L[j] = s[j]
  <2>1. j \in 1..(u + k)
    BY <1>1
  <2>. QED
    BY <1>2, <1>3, <2>1
<1>8. ASSUME NEW j \in 1..k PROVE L[u + j] = t[j]
  <2>1. u + j \in 1..(u + k)
    BY <1>1
  <2>. QED
    BY <1>2, <1>5, <1>6, <2>1
<1>9. L = s \o t
  <2>1. Len(L) = Len(s) + Len(t)
    BY <1>2, <1>3, <1>4
  <2>. QED
    BY <1>2, <1>3, <1>4, <1>7, <1>8, <2>1, Joined
<1>. QED
  BY <1>9 DEF L, s, t

LEMMA RingShrinks ==
  ASSUME NEW buf \in [Index -> Nat], NEW from \in Index, NEW to \in Index, NEW k \in Nat,
         k <= Used(from, to)
  PROVE  Ring(buf, from, to) = Run(buf, from, k) \o Ring(buf, Advance(from, k), to)
<1> DEFINE u == Used(from, to)
           L == Ring(buf, from, to)
           s == Run(buf, from, k)
           t == Ring(buf, Advance(from, k), to)
<1>0. u \in Index
  BY UsedIs
<1>1. /\ u \in Nat /\ u <= BUF_LEN - 1 /\ BUF_LEN \in Nat
      /\ k \in 0..(BUF_LEN - 1) /\ k <= u /\ u - k \in Nat
  BY <1>0, Sizes DEF Index
<1>2. L \in Seq(Nat) /\ Len(L) = u /\ \A j \in 1..u : L[j] = buf[Advance(from, j - 1)]
  BY <1>1, RingIs
<1>3. /\ t \in Seq(Nat) /\ Len(t) = u - k
      /\ \A j \in 1..(u - k) : t[j] = buf[Advance(Advance(from, k), j - 1)]
  <2>1. Advance(from, k) \in Index /\ Used(Advance(from, k), to) = u - k
    BY UsedShrinks
  <2>. QED
    BY <1>1, <2>1, RingIs
<1>4. s \in Seq(Nat) /\ Len(s) = k
  BY <1>1, RunIs
<1>5. \A j \in 1..k : s[j] = buf[Advance(from, j - 1)]
  BY DEF Run
<1>6. ASSUME NEW j \in 1..(u - k)
      PROVE  Advance(Advance(from, k), j - 1) = Advance(from, (k + j) - 1)
  <2>1. (k + j) - 1 \in k..(BUF_LEN - 1) /\ ((k + j) - 1) - k = j - 1
    BY <1>1
  <2>2. Advance(Advance(from, k), ((k + j) - 1) - k) = Advance(from, (k + j) - 1)
    BY <1>1, <2>1, AdvancedTwice
  <2>. QED
    BY <2>1, <2>2
<1> HIDE DEF L, s, t, u
<1>7. ASSUME NEW j \in 1..k PROVE L[j] = s[j]
  BY <1>1, <1>2, <1>5, SMTT(30)
<1>8. ASSUME NEW j \in 1..(u - k) PROVE L[k + j] = t[j]
  <2>1. k + j \in 1..u
    BY <1>1
  <2>. QED
    BY <1>2, <1>3, <1>6, <2>1
<1>9. L = s \o t
  <2>1. Len(L) = Len(s) + Len(t)
    BY <1>1, <1>2, <1>3, <1>4
  <2>. QED
    BY <1>2, <1>3, <1>4, <1>7, <1>8, <2>1, Joined, ZenonT(30)
<1>. QED
  BY <1>9 DEF L, s, t

\* What is written into the free part of a buffer does not change what is in it.
LEMMA RingKept ==
  ASSUME NEW old \in [Index -> Nat], NEW new \in [Index -> Nat],
         NEW from \in Index, NEW to \in Index, NEW k \in Nat,
         to + k <= BUF_LEN, Used(from, to) + k <= BUF_LEN - 1,
         \A a \in Index : a \notin to..(to + k - 1) => new[a] = old[a]
  PROVE  Ring(new, from, to) = Ring(old, from, to)
<1> DEFINE u == Used(from, to)
<1>0. u \in Index
  BY UsedIs
<1>1. /\ u \in Nat /\ u <= BUF_LEN - 1 /\ u + k <= BUF_LEN - 1
      /\ BUF_LEN \in Nat
  BY <1>0, Sizes DEF Index
<1>2. ASSUME NEW j \in 1..u
      PROVE  /\ Advance(from, j - 1) \in Index
             /\ Advance(from, j - 1) \notin to..(to + k - 1)
  <2>1. j - 1 \in 0..BUF_LEN
    BY <1>1
  <2> DEFINE p == Advance(from, j - 1)
  <2>2. p \in Index /\ p = IF from + (j - 1) < BUF_LEN THEN from + (j - 1)
                          ELSE from + (j - 1) - BUF_LEN
    BY <2>1, Advanced
  <2>3. u = IF from <= to THEN to - from ELSE to - from + BUF_LEN
    BY UsedIs
  <2> HIDE DEF u, p
  <2>4. j \in Nat /\ 1 <= j /\ j <= u
    BY <1>1
  <2>5. p \notin to..(to + k - 1)
    BY <1>1, <2>2, <2>3, <2>4 DEF Index
  <2>. QED
    BY <2>2, <2>5 DEF p
<1>3. /\ Ring(old, from, to) \in Seq(Nat) /\ Len(Ring(old, from, to)) = u
      /\ \A j \in 1..u : Ring(old, from, to)[j] = old[Advance(from, j - 1)]
  BY <1>1, RingIs
<1>4. /\ Ring(new, from, to) \in Seq(Nat) /\ Len(Ring(new, from, to)) = u
      /\ \A j \in 1..u : Ring(new, from, to)[j] = new[Advance(from, j - 1)]
  BY <1>1, RingIs
<1> HIDE DEF u
<1>5. \A j \in 1..u : Ring(new, from, to)[j] = Ring(old, from, to)[j]
  BY <1>2, <1>3, <1>4
<1>. QED
  BY <1>3, <1>4, <1>5, SeqEqual

-----------------------------------------------------------------------------
(* The invariant *)

\* The room that WriteLoad finds is free, and does not wrap.
LEMMA RoomIs ==
  ASSUME NEW i \in Index, NEW o \in Index
  PROVE  /\ WriteRoom(i, o) \in Index /\ i + WriteRoom(i, o) <= BUF_LEN
         /\ Used(o, i) + WriteRoom(i, o) <= BUF_LEN - 1
<1>1. /\ Used(o, i) = IF o <= i THEN i - o ELSE i - o + BUF_LEN
  BY UsedIs
<1>. QED
  BY <1>1, Sizes DEF WriteRoom, Index

\* A ring has room for one more unless that would make it look empty.
LEMMA RoomForOne ==
  ASSUME NEW from \in Index, NEW to \in Index, Advance(to, 1) # from
  PROVE  Used(from, to) + 1 <= BUF_LEN - 1
<1>1. Used(from, to) = IF from <= to THEN to - from ELSE to - from + BUF_LEN
  BY UsedIs
<1>2. 1 \in 0..BUF_LEN
  BY Sizes
<1>3. Advance(to, 1) = IF to + 1 < BUF_LEN THEN to + 1 ELSE to + 1 - BUF_LEN
  BY <1>2, Advanced
<1>. QED
  BY <1>1, <1>3, Sizes DEF Index

LEMMA LeastIs ==
  ASSUME NEW a \in Nat, NEW b \in Nat
  PROVE  LeastOf(a, b) \in Nat /\ LeastOf(a, b) <= a /\ LeastOf(a, b) <= b
BY DEF LeastOf

LEMMA LeastFits ==
  ASSUME NEW a \in Nat, NEW b \in Nat, NEW x \in Nat, NEW m \in Int, x + a <= m
  PROVE  x + LeastOf(a, b) <= m
BY DEF LeastOf

LEMMA InitIInv == Init => Types /\ IInv
<1>. SUFFICES ASSUME Init PROVE Types /\ IInv
  OBVIOUS
<1>1. Types
  BY Sizes DEF Init, CoreInit, Types, RingTypes, MainTypes, CoreTypes, Index
<1>2. CopyFits /\ SpaceLeft /\ FetchHeld /\ Pausing /\ Received
  BY DEF Init, CoreInit, CopyFits, SpaceLeft, FetchHeld, Pausing, Received, Copying, Serving,
         Fetching
<1>3. NotStalled
  BY Zenon DEF Init, CoreInit, NotStalled
<1>. QED
  BY <1>1, <1>2, <1>3 DEF IInv

LEMMA NextRingTypes ==
  ASSUME Types, CopyFits, FetchHeld, [Next]_vars
  PROVE  RingTypes'
<1> USE DEF RingTypes
<1>0. RingTypes /\ MainTypes /\ CoreTypes
  BY DEF Types
<1>1. CASE WriteCopy
  <2>1. /\ tx_buf' = [a \in Index |-> IF a \in in..(in + n - 1) THEN written + 1 + a - in
                                      ELSE tx_buf[a]]
        /\ UNCHANGED <<tx_in, tx_out, rx_buf, rx_in, rx_out>>
    BY <1>1 DEF WriteCopy, Index
  <2>2. ASSUME NEW a \in in..(in + n - 1) PROVE written + 1 + a - in \in Nat
    BY <1>0, Sizes DEF MainTypes, Index
  <2>. QED
    BY <1>0, <2>1, <2>2
<1>2. CASE WritePublish
  <2>1. Advance(in, n) \in Index
    BY <1>0, AdvancedInIndex DEF MainTypes
  <2>. QED
    BY <1>0, <1>2, <2>1 DEF WritePublish
<1>3. CASE ReadRelease
  <2>1. Advance(out, n) \in Index
    BY <1>0, AdvancedInIndex DEF MainTypes
  <2>. QED
    BY <1>0, <1>3, <2>1 DEF ReadRelease
<1>4. CASE IsrReceive
  <2>1. Advance(rx_in, 1) \in Index
    BY <1>0, OneIndex, AdvancedInIndex
  <2>2. CASE rfifo = << >>
    BY <1>0, <1>4, <2>2 DEF IsrReceive
  <2>3. CASE rfifo # << >>
    <3>1. Head(rfifo) \in Nat
      BY <1>0, <2>3, HeadTailProperties DEF CoreTypes
    <3>. QED
      BY <1>0, <1>4, <2>1, <2>3, <3>1 DEF IsrReceive
  <2>. QED
    BY <2>2, <2>3
<1>5. CASE IsrTransmit
  <2>1. Advance(tx_out, 1) \in Index
    BY <1>0, OneIndex, AdvancedInIndex
  <2>. QED
    BY <1>0, <1>5, <2>1 DEF IsrTransmit
<1>6. CASE UNCHANGED ringVars
  BY <1>0, <1>6 DEF ringVars
<1>7. CallWrite \/ WriteLoad \/ WriteKick \/ WriteSpin \/ WriteCheck \/ CallRead \/ ReadLoad
        \/ ReadCopy \/ ReadSpin \/ ReadCheck \/ ReadEnable \/ CallClose \/ CloseEnds
        \/ Interrupt \/ IsrControl \/ IsrReceived \/ IsrTransmitted \/ Tick \/ Host
        \/ UNCHANGED vars => UNCHANGED ringVars
  BY DEF CallWrite, WriteLoad, WriteKick, WriteSpin, WriteCheck, CallRead, ReadLoad, ReadCopy,
         ReadSpin, ReadCheck, ReadEnable, CallClose, CloseEnds, Interrupt, IsrControl,
         IsrReceived, IsrTransmitted, Tick, Host, HostOnly, vars
<1>. QED
  BY <1>1, <1>2, <1>3, <1>4, <1>5, <1>6, <1>7 DEF Next, Main, Isr

LEMMA NextMainTypes ==
  ASSUME Types, CopyFits, FetchHeld, [Next]_vars
  PROVE  MainTypes'
<1>0. RingTypes /\ MainTypes /\ CoreTypes
  BY DEF Types
<1>1. 0 \in Index /\ 0 \in 0..MaxCount
  BY Sizes DEF Index
<1>2. CASE CallWrite \/ CallRead
  BY <1>0, <1>2, Sizes DEF CallWrite, CallRead, MainTypes
<1>3. CASE WriteLoad
  <2>1. n' \in Index
    <3>1. WriteRoom(tx_in, tx_out) \in Index
      BY <1>0, RoomIs DEF RingTypes
    <3>. QED
      BY <1>0, <1>3, <3>1, Sizes DEF WriteLoad, LeastOf, MainTypes, Index
  <2>. QED
    BY <1>0, <1>3, <2>1 DEF WriteLoad, MainTypes, RingTypes
<1>4. CASE WriteCopy
  <2>1. left - n \in 0..MaxCount
    BY <1>0, <1>4, Sizes DEF WriteCopy, At, CopyFits, MainTypes, Index
  <2>. QED
    BY <1>0, <1>4, <2>1 DEF WriteCopy, MainTypes
<1>5. CASE WritePublish
  <2>1. written + n \in 0..MaxOutput
    BY <1>0, <1>5, Sizes DEF WritePublish, At, CopyFits, MainTypes, Index
  <2>. QED
    BY <1>0, <1>1, <1>5, <2>1 DEF WritePublish, GoOn, MainTypes
<1>6. CASE WriteKick \/ WriteSpin \/ WriteCheck \/ ReadSpin \/ ReadCheck \/ ReadEnable
             \/ CallClose \/ CloseEnds
  BY <1>0, <1>1, <1>6 DEF WriteKick, WriteSpin, WriteCheck, ReadSpin, ReadCheck, ReadEnable,
     CallClose, CloseEnds, Goto, Return, locals, MainTypes
<1>7. CASE ReadLoad
  <2>1. n' \in Index
    BY <1>0, <1>7, Sizes DEF ReadLoad, LeastOf, MainTypes, RingTypes, Index
  <2>. QED
    BY <1>0, <1>7, <2>1 DEF ReadLoad, MainTypes, RingTypes
<1>8. CASE ReadCopy
  <2>1. left - n \in 0..MaxCount
    BY <1>0, <1>8, Sizes DEF ReadCopy, At, FetchHeld, MainTypes, Index
  <2>2. \A k \in 1..n : rx_buf[out + k - 1] \in Nat
    <3>1. \A k \in 1..n : out + k - 1 \in Index
      BY <1>0, <1>8, Sizes DEF ReadCopy, At, FetchHeld, Fetching, MainTypes, Index
    <3>. QED
      BY <1>0, <3>1 DEF RingTypes
  <2>3. copied' \in Seq(Nat)
    <3>1. n \in Nat
      BY <1>0, Sizes DEF MainTypes, Index
    <3>. QED
      BY <1>8, <2>2, <3>1 DEF ReadCopy
  <2>. QED
    BY <1>0, <1>8, <2>1, <2>3 DEF ReadCopy, MainTypes
<1>9. CASE ReadRelease
  <2>1. reading' \in Seq(Nat) /\ copied' \in Seq(Nat)
    BY <1>0, <1>9, ConcatProperties DEF ReadRelease, MainTypes
  <2>. QED
    BY <1>0, <1>1, <1>9, <2>1 DEF ReadRelease, GoOn, MainTypes
<1>10. CASE UNCHANGED mainVars
  BY <1>0, <1>10 DEF mainVars, MainTypes
<1>11. Isr \/ Tick \/ Host \/ UNCHANGED vars => UNCHANGED mainVars
  BY DEF Isr, Interrupt, IsrControl, IsrReceive, IsrReceived, IsrTransmit, IsrTransmitted,
         IsrOnly, Tick, Host, HostOnly, vars
<1>. QED
  BY <1>2, <1>3, <1>4, <1>5, <1>6, <1>7, <1>8, <1>9, <1>10, <1>11 DEF Next, Main

LEMMA NextCoreTypes ==
  ASSUME Types, [Next]_vars
  PROVE  CoreTypes'
<1>0. RingTypes /\ MainTypes /\ CoreTypes
  BY DEF Types
<1>1. CASE IsrControl
  <2>1. space' \in 0..WriteDepth
    <3>1. Len(wfifo) \in Nat /\ Len(wfifo) <= WriteDepth
      BY <1>0, LenProperties DEF CoreTypes
    <3>. QED
      BY <1>1, <3>1, Sizes DEF IsrControl, WriteSpace
  <2>. QED
    BY <1>0, <1>1, <2>1 DEF IsrControl, IsrOnly, coreVars, CoreTypes
<1>2. CASE IsrReceive
  <2>1. PICK sends \in BOOLEAN : ReadData(sends) /\ UNCHANGED <<space, host_inactive>>
    BY <1>2 DEF IsrReceive, IsrOnly
  <2> DEFINE rest == IF rfifo = << >> THEN rfifo ELSE Tail(rfifo)
  <2>2. rest \in Seq(Nat) /\ Len(rest) \in Nat /\ Len(rest) <= Len(rfifo) /\ Len(rfifo) \in Nat
    BY <1>0, HeadTailProperties, LenProperties DEF CoreTypes
  <2>3. /\ rfifo' = (IF sends THEN Append(rest, input + 1) ELSE rest)
        /\ input' = (IF sends THEN input + 1 ELSE input)
        /\ UNCHANGED <<wfifo, output>>
        /\ sends => input < MaxInput /\ Len(rfifo) < ReadDepth
    BY <2>1 DEF ReadData, Sending
  <2> HIDE DEF rest
  <2>4. CASE sends
    <3>1. input + 1 \in 0..MaxInput /\ input + 1 \in Nat
      BY <1>0, <2>3, <2>4, Sizes DEF CoreTypes
    <3>2. Append(rest, input + 1) \in Seq(Nat) /\ Len(Append(rest, input + 1)) = Len(rest) + 1
      BY <2>2, <3>1, AppendProperties
    <3>3. Len(rest) + 1 <= ReadDepth
      BY <2>2, <2>3, <2>4, Sizes
    <3>. QED
      BY <1>0, <2>1, <2>3, <2>4, <3>1, <3>2, <3>3 DEF CoreTypes
  <2>5. CASE ~sends
    <3>1. Len(rest) <= ReadDepth
      BY <1>0, <2>2, Sizes DEF CoreTypes
    <3>. QED
      BY <1>0, <2>1, <2>2, <2>3, <2>5, <3>1 DEF CoreTypes
  <2>. QED
    BY <2>4, <2>5
<1>3. CASE IsrTransmit
  <2>1. wfifo' \in Seq(Nat) /\ Len(wfifo') <= WriteDepth
    <3>1. tx_buf[tx_out] \in Nat /\ Len(wfifo) \in Nat
      BY <1>0, LenProperties DEF RingTypes, CoreTypes
    <3>2. /\ Append(wfifo, tx_buf[tx_out]) \in Seq(Nat)
          /\ Len(Append(wfifo, tx_buf[tx_out])) = Len(wfifo) + 1
      BY <1>0, <3>1, AppendProperties DEF CoreTypes
    <3>. QED
      BY <1>0, <1>3, <3>1, <3>2, Sizes DEF IsrTransmit, WriteData, CoreTypes
  <2>2. space' \in 0..WriteDepth
    BY <1>0, <1>3, Sizes DEF IsrTransmit, CoreTypes
  <2>. QED
    BY <1>0, <1>3, <2>1, <2>2 DEF IsrTransmit, WriteData, IsrOnly, CoreTypes
<1>4. CASE Tick
  <2>1. host_inactive' \in 0..Timeout
    <3>1. host_inactive' \in {0, Timeout}
            \/ (host_inactive' = host_inactive + 1 /\ host_inactive < Timeout)
      BY <1>4 DEF Tick
    <3>. QED
      BY <1>0, <3>1, Sizes DEF CoreTypes
  <2>. QED
    BY <1>0, <1>4, <2>1 DEF Tick, WriteControl, coreVars, isrVars, CoreTypes
<1>5. CASE Host
  <2>1. CASE HostSends
    <3>1. /\ Append(rfifo, input + 1) \in Seq(Nat)
          /\ Len(Append(rfifo, input + 1)) = Len(rfifo) + 1
          /\ Len(rfifo) \in Nat
      <4>1. input + 1 \in Nat
        BY <1>0, Sizes DEF CoreTypes
      <4>. QED
        BY <1>0, <4>1, AppendProperties, LenProperties DEF CoreTypes
    <3>2. input + 1 \in 0..MaxInput /\ Len(rfifo) + 1 <= ReadDepth
      BY <1>0, <2>1, <3>1, Sizes DEF HostSends, Sending, CoreTypes
    <3>. QED
      BY <1>0, <1>5, <2>1, <3>1, <3>2 DEF Host, HostOnly, HostSends, isrVars, CoreTypes
  <2>2. CASE HostTakes
    <3>1. /\ Tail(wfifo) \in Seq(Nat) /\ Len(Tail(wfifo)) = Len(wfifo) - 1 /\ Len(wfifo) \in Nat
          /\ Head(wfifo) \in Nat
      BY <1>0, <2>2, HeadTailProperties, LenProperties DEF HostTakes, CoreTypes
    <3>2. Append(output, Head(wfifo)) \in Seq(Nat)
      BY <1>0, <3>1, AppendProperties DEF CoreTypes
    <3>3. Len(Tail(wfifo)) <= WriteDepth
      BY <1>0, <3>1, Sizes DEF CoreTypes
    <3>. QED
      BY <1>0, <1>5, <2>2, <3>1, <3>2, <3>3 DEF Host, HostOnly, HostTakes, isrVars, CoreTypes
  <2>3. CASE HostPauses \/ HostLeaves
    BY <1>0, <1>5, <2>3 DEF Host, HostOnly, HostPauses, HostLeaves, isrVars, CoreTypes
  <2>. QED
    BY <1>5, <2>1, <2>2, <2>3 DEF Host, HostStep
<1>6. CASE UNCHANGED <<wfifo, rfifo, input, output, space, host_inactive>>
  BY <1>0, <1>6 DEF CoreTypes
<1>7. Main \/ Interrupt \/ IsrReceived \/ IsrTransmitted \/ UNCHANGED vars
        => UNCHANGED <<wfifo, rfifo, input, output, space, host_inactive>>
  BY DEF Main, CallWrite, WriteLoad, WriteCopy, WritePublish, WriteKick, WriteSpin, WriteCheck,
         CallRead, ReadLoad, ReadCopy, ReadRelease, ReadSpin, ReadCheck, ReadEnable,
         CallClose, CloseEnds, MainOnly, Interrupt, IsrReceived, IsrTransmitted, IsrOnly,
         WriteControl, coreVars, isrVars, vars
<1>. QED
  BY <1>1, <1>2, <1>3, <1>4, <1>5, <1>6, <1>7 DEF Next, Isr

LEMMA NextCopyFits ==
  ASSUME Types, CopyFits, [Next]_vars
  PROVE  CopyFits'
<1> USE DEF CopyFits, Copying
<1>0. /\ tx_in \in Index /\ tx_out \in Index /\ in \in Index /\ n \in Index
      /\ left \in Nat /\ written \in Nat /\ tx_buf \in [Index -> Nat]
      /\ Used(tx_out, tx_in) \in Index
  <2>1. tx_in \in Index /\ tx_out \in Index /\ in \in Index /\ n \in Index
    BY DEF Types, RingTypes, MainTypes, CoreTypes
  <2>. QED
    BY <2>1, UsedIs, Sizes, SMTT(30) DEF Types, RingTypes, MainTypes, CoreTypes
<1>1. CASE CallWrite
  BY <1>0, <1>1 DEF CallWrite, At
<1>2. CASE WriteLoad
  <2>1. n' = LeastOf(WriteRoom(tx_in, tx_out), left)
    BY <1>2 DEF WriteLoad
  <2> DEFINE w == WriteRoom(tx_in, tx_out)
             u == Used(tx_out, tx_in)
  <2>2. /\ w \in Index /\ tx_in + w <= BUF_LEN
        /\ u + w <= BUF_LEN - 1
    BY <1>0, RoomIs
  <2> HIDE DEF w, u
  <2>3. w \in Nat /\ u \in Nat /\ tx_in \in Nat
    BY <1>0, <2>2, Sizes DEF Index, u
  <2>4. n' \in Nat /\ n' <= w /\ n' <= left
    BY <1>0, <2>1, <2>3, LeastIs DEF w
  <2>5. tx_in + n' <= BUF_LEN /\ u + n' <= BUF_LEN - 1
    <3>1. BUF_LEN \in Int /\ BUF_LEN - 1 \in Int
      BY Sizes
    <3>. QED
      BY <1>0, <2>1, <2>2, <2>3, <3>1, LeastFits DEF w
  <2>6. /\ written + left <= MaxOutput /\ in' = tx_in
        /\ pc' = (IF n' = 0 THEN "wkick" ELSE "wcopy")
        /\ UNCHANGED <<tx_in, tx_out, left, written>>
    BY <1>2 DEF WriteLoad, At, ringVars
  <2>. QED
    BY <2>4, <2>5, <2>6 DEF u
<1>3. CASE WriteCopy
  <2>1. /\ in = tx_in /\ in + n <= BUF_LEN /\ n > 0 /\ n <= left
        /\ Used(tx_out, tx_in) + n <= BUF_LEN - 1 /\ written + left <= MaxOutput
        /\ pc' = "wpublish" /\ left' = left - n
        /\ UNCHANGED <<tx_in, tx_out, in, n, written>>
        /\ tx_buf' = [a \in Index |-> IF a \in in..(in + n - 1)
                                      THEN written + 1 + a - in ELSE tx_buf[a]]
    BY <1>3 DEF WriteCopy, At, Index
  <2>2. ASSUME NEW k \in 1..n PROVE tx_buf'[in + k - 1] = written + k
    <3>1. in + k - 1 \in Index /\ in + k - 1 \in in..(in + n - 1)
      BY <1>0, <2>1, Sizes DEF Index
    <3>. QED
      BY <1>0, <2>1, <3>1 DEF Index
  <2>3. written + n + left' <= MaxOutput
    BY <1>0, <2>1, Sizes DEF Index
  <2>. QED
    BY <2>1, <2>2, <2>3
<1>4. CASE WritePublish
  BY <1>0, <1>4, Sizes DEF WritePublish, GoOn, At, Index
<1>5. CASE WriteKick
  BY <1>0, <1>5 DEF WriteKick, Goto, Return, locals, At
<1>6. CASE WriteSpin \/ WriteCheck
  BY <1>0, <1>6 DEF WriteSpin, WriteCheck, Goto, Return, locals, At
<1>7. CASE CallRead \/ ReadLoad \/ ReadCopy \/ ReadRelease \/ ReadSpin \/ ReadCheck
             \/ ReadEnable \/ CallClose \/ CloseEnds
  BY <1>7 DEF CallRead, ReadLoad, ReadCopy, ReadRelease, ReadSpin, ReadCheck, ReadEnable,
              CallClose, CloseEnds, At, Goto, GoOn, Return
<1>8. CASE IsrTransmit
  <2>1. tx_out # tx_in /\ tx_out' = Advance(tx_out, 1)
        /\ UNCHANGED <<tx_in, tx_buf, pc, in, n, left, written>>
    BY <1>8 DEF IsrTransmit, IsrOnly, mainVars
  <2>2. 1 <= Used(tx_out, tx_in)
    <3>1. Used(tx_out, tx_in) = IF tx_out <= tx_in THEN tx_in - tx_out
                                ELSE tx_in - tx_out + BUF_LEN
      BY <1>0, UsedIs
    <3>. QED
      BY <1>0, <2>1, <3>1, Sizes DEF Index
  <2>3. Used(tx_out', tx_in) = Used(tx_out, tx_in) - 1
    BY <1>0, <2>1, <2>2, UsedShrinks
  <2>. QED
    BY <1>0, <2>1, <2>3, Sizes DEF Index
<1>9. CASE UNCHANGED mainVars /\ UNCHANGED <<tx_in, tx_out, tx_buf>>
  BY <1>9 DEF mainVars
<1>10. Interrupt \/ IsrControl \/ IsrReceive \/ IsrReceived \/ IsrTransmitted \/ Tick \/ Host
        \/ UNCHANGED vars => UNCHANGED mainVars /\ UNCHANGED <<tx_in, tx_out, tx_buf>>
  BY DEF Interrupt, IsrControl, IsrReceive, IsrReceived, IsrTransmitted, IsrOnly, Tick,
         Host, HostOnly, ringVars, vars
<1>. QED
  BY <1>1, <1>2, <1>3, <1>4, <1>5, <1>6, <1>7, <1>8, <1>9, <1>10 DEF Next, Main, Isr

LEMMA NextSpaceLeft ==
  ASSUME Types, SpaceLeft, [Next]_vars
  PROVE  SpaceLeft'
<1> USE DEF SpaceLeft, Serving
<1>0. /\ wfifo \in Seq(Nat) /\ Len(wfifo) \in Nat /\ Len(wfifo) <= WriteDepth
      /\ space \in Nat /\ space <= WriteDepth
  <2>1. wfifo \in Seq(Nat)
    BY DEF Types, RingTypes, MainTypes, CoreTypes
  <2>. QED
    BY <2>1, LenProperties, Sizes DEF Types, RingTypes, MainTypes, CoreTypes
<1>1. CASE IsrControl
  BY <1>0, <1>1, Sizes DEF IsrControl, coreVars, WriteSpace
<1>2. CASE IsrReceive
  BY <1>2 DEF IsrReceive, ReadData
<1>3. CASE IsrReceived \/ IsrTransmitted
  BY <1>3 DEF IsrReceived, IsrTransmitted, coreVars, WriteControl
<1>4. CASE IsrTransmit
  <2>1. /\ space > 0 /\ space' = space - 1 /\ isr' = isr
        /\ wfifo' = IF Len(wfifo) < WriteDepth THEN Append(wfifo, tx_buf[tx_out]) ELSE wfifo
    BY <1>4 DEF IsrTransmit, WriteData
  <2>2. Len(wfifo') <= Len(wfifo) + 1 /\ Len(wfifo') \in Nat
    <3>1. tx_buf[tx_out] \in Nat
      BY DEF Types, RingTypes, MainTypes, CoreTypes
    <3>. QED
      BY <1>0, <2>1, <3>1, AppendProperties
  <2>. QED
    BY <1>0, <2>1, <2>2, Sizes
<1>5. CASE Host
  <2>1. isr' = isr /\ space' = space /\ Len(wfifo') \in Nat /\ Len(wfifo') <= Len(wfifo)
    <3>1. CASE HostTakes
      BY <1>0, <1>5, <3>1, HeadTailProperties DEF HostTakes, Host, HostOnly, isrVars
    <3>2. CASE wfifo' = wfifo
      BY <1>0, <1>5, <3>2 DEF Host, HostOnly, isrVars
    <3>. QED
      BY <1>5, <3>1, <3>2 DEF Host, HostStep, HostSends, HostPauses, HostLeaves
  <2>. QED
    BY <1>0, <2>1, Sizes
<1>6. CASE UNCHANGED isrVars /\ wfifo' = wfifo
  BY <1>6 DEF isrVars
<1>7. Main \/ Tick \/ UNCHANGED vars => UNCHANGED isrVars /\ wfifo' = wfifo
  BY DEF Main, CallWrite, WriteLoad, WriteCopy, WritePublish, WriteKick, WriteSpin, WriteCheck,
         CallRead, ReadLoad, ReadCopy, ReadRelease, ReadSpin, ReadCheck, ReadEnable,
         CallClose, CloseEnds, MainOnly, Tick, WriteControl, coreVars, vars
<1>8. CASE Interrupt
  BY <1>8 DEF Interrupt
<1>. QED
  BY <1>1, <1>2, <1>3, <1>4, <1>5, <1>6, <1>7, <1>8 DEF Next, Isr

LEMMA NextFetchHeld ==
  ASSUME Types, FetchHeld, [Next]_vars
  PROVE  FetchHeld'
<1> USE DEF FetchHeld, Fetching
<1>0. /\ rx_in \in Index /\ rx_out \in Index /\ out \in Index /\ n \in Index
      /\ left \in Nat /\ rx_buf \in [Index -> Nat] /\ Used(rx_out, rx_in) \in Index
  <2>1. /\ rx_in \in Index /\ rx_out \in Index /\ out \in Index /\ n \in Index
        /\ left \in 0..MaxCount /\ rx_buf \in [Index -> Nat]
    BY DEF Types, RingTypes, MainTypes, CoreTypes
  <2>2. left \in Nat
    BY <2>1, Sizes
  <2>3. Used(rx_out, rx_in) \in Index
    BY <2>1, UsedIs
  <2>. QED
    BY <2>1, <2>2, <2>3
<1>1. CASE ReadLoad
  <2> DEFINE w == IF rx_in >= rx_out THEN rx_in - rx_out ELSE BUF_LEN - rx_out
  <2>1. /\ n' = LeastOf(w, left) /\ out' = rx_out /\ left' = left
        /\ pc' = (IF n' > 0 THEN "rcopy" ELSE IF progress THEN "renable" ELSE "rspin")
        /\ UNCHANGED <<rx_in, rx_out>>
    BY <1>1 DEF ReadLoad, ringVars
  <2>2. w \in Nat /\ rx_out + w <= BUF_LEN /\ w <= Used(rx_out, rx_in)
    <3>1. Used(rx_out, rx_in) = IF rx_out <= rx_in THEN rx_in - rx_out
                                ELSE rx_in - rx_out + BUF_LEN
      BY <1>0, UsedIs
    <3>. QED
      BY <1>0, <3>1, Sizes DEF Index
  <2> HIDE DEF w
  <2>3. n' \in Nat /\ n' <= w /\ n' <= left
    BY <1>0, <2>1, <2>2, LeastIs
  <2>4. rx_out + n' <= BUF_LEN /\ n' <= Used(rx_out, rx_in)
    <3>1. rx_out \in Nat /\ Used(rx_out, rx_in) \in Nat
      BY <1>0, Sizes DEF Index
    <3>. QED
      BY <1>0, <2>1, <2>2, <3>1, Sizes DEF LeastOf
  <2>. QED
    BY <2>1, <2>3, <2>4
<1>2. CASE ReadCopy
  BY <1>2 DEF ReadCopy, At, ringVars
<1>3. CASE ReadRelease
  BY <1>3 DEF ReadRelease, GoOn
<1>4. CASE CallWrite \/ WriteLoad \/ WriteCopy \/ WritePublish \/ WriteKick \/ WriteSpin
             \/ WriteCheck \/ CallRead \/ ReadSpin \/ ReadCheck \/ ReadEnable \/ CallClose
             \/ CloseEnds
  BY <1>4 DEF CallWrite, WriteLoad, WriteCopy, WritePublish, WriteKick, WriteSpin, WriteCheck,
              CallRead, ReadSpin, ReadCheck, ReadEnable, CallClose, CloseEnds,
              At, Goto, GoOn, Return
<1>5. CASE IsrReceive
  <2>1. UNCHANGED mainVars /\ rx_out' = rx_out
    BY <1>5 DEF IsrReceive, IsrOnly
  <2>2. CASE rfifo = << >>
    BY <1>5, <2>1, <2>2 DEF IsrReceive, mainVars
  <2>3. CASE rfifo # << >>
    <3>1. /\ rx_buf' = [rx_buf EXCEPT ![rx_in] = Head(rfifo)] /\ rx_in' = Advance(rx_in, 1)
          /\ Advance(rx_in, 1) # rx_out
      BY <1>5, <2>3 DEF IsrReceive, ReceiveFull
    <3>2. Used(rx_out, rx_in) + 1 <= BUF_LEN - 1
      BY <1>0, <3>1, RoomForOne
    <3>3. Used(rx_out, rx_in') = Used(rx_out, rx_in) + 1
      BY <1>0, <3>1, <3>2, UsedGrows
    <3>4. ASSUME pc = "rrelease", NEW k \in 1..n
          PROVE  rx_buf'[out + k - 1] = rx_buf[out + k - 1]
      <4>1. Used(rx_out, rx_in) = IF rx_out <= rx_in THEN rx_in - rx_out
                                  ELSE rx_in - rx_out + BUF_LEN
        BY <1>0, UsedIs
      <4>2. out + k - 1 \in Index /\ out + k - 1 # rx_in
        BY <1>0, <3>2, <3>4, <4>1, Sizes DEF Index
      <4>. QED
        BY <1>0, <3>1, <4>2
    <3>5. n <= Used(rx_out, rx_in) => n <= Used(rx_out, rx_in')
      BY <1>0, <3>3, Sizes DEF Index
    <3>6. pc = "rrelease" => copied = [k \in 1..n |-> rx_buf'[out + k - 1]]
      BY <3>4
    <3>. QED
      BY <2>1, <3>5, <3>6 DEF mainVars
  <2>. QED
    BY <2>2, <2>3
<1>6. CASE UNCHANGED mainVars /\ UNCHANGED <<rx_in, rx_out, rx_buf>>
  BY <1>6 DEF mainVars
<1>7. Interrupt \/ IsrControl \/ IsrReceived \/ IsrTransmit \/ IsrTransmitted \/ Tick \/ Host
        \/ UNCHANGED vars => UNCHANGED mainVars /\ UNCHANGED <<rx_in, rx_out, rx_buf>>
  BY DEF Interrupt, IsrControl, IsrReceived, IsrTransmit, IsrTransmitted, IsrOnly, Tick,
         Host, HostOnly, ringVars, vars
<1>. QED
  BY <1>1, <1>2, <1>3, <1>4, <1>5, <1>6, <1>7 DEF Next, Main, Isr

LEMMA NextPausing ==
  ASSUME Types, Pausing, [Next]_vars
  PROVE  Pausing'
<1> USE DEF Pausing
<1>0. rfifo \in Seq(Nat) /\ input \in Nat
  BY Sizes DEF Types, CoreTypes
<1>1. CASE HostSends
  <2>1. rfifo' = Append(rfifo, input + 1)
    BY <1>1 DEF HostSends
  <2>2. Len(Append(rfifo, input + 1)) = Len(rfifo) + 1 /\ Len(rfifo) \in Nat
    BY <1>0, AppendProperties, LenProperties
  <2>. QED
    BY <2>1, <2>2
<1>2. CASE HostPauses
  BY <1>2, Zenon DEF HostPauses
<1>3. CASE ~pause_irq'
  BY <1>3
<1>4. IsrReceive => ~pause_irq'
  BY DEF IsrReceive, ReadData
<1>5. CASE UNCHANGED <<pause_irq, rfifo>>
  BY <1>5
<1>6. Main \/ Interrupt \/ IsrControl \/ IsrReceived \/ IsrTransmit \/ IsrTransmitted \/ Tick
        \/ HostTakes \/ HostLeaves \/ UNCHANGED vars
        => UNCHANGED <<pause_irq, rfifo>>
  BY DEF Main, CallWrite, WriteLoad, WriteCopy, WritePublish, WriteKick, WriteSpin, WriteCheck,
         CallRead, ReadLoad, ReadCopy, ReadRelease, ReadSpin, ReadCheck, ReadEnable,
         CallClose, CloseEnds, MainOnly, Interrupt, IsrControl, IsrReceived, IsrTransmit,
         IsrTransmitted, Tick, HostTakes, HostLeaves, WriteData, WriteControl, coreVars, vars
<1>. QED
  BY <1>1, <1>2, <1>3, <1>4, <1>5, <1>6 DEF Next, Isr, Host, HostStep

LEMMA NextReceived ==
  ASSUME Types, Pausing, Received, [Next]_vars
  PROVE  Received'
<1> USE DEF Received
<1>0. rfifo \in Seq(Nat) /\ Len(rfifo) \in Nat /\ input \in Nat
  <2>1. rfifo \in Seq(Nat)
    BY DEF Types, CoreTypes
  <2>. QED
    BY <2>1, LenProperties, Sizes DEF Types, CoreTypes
<1>1. CASE IsrControl
  <2>1. CASE ipen_AF
    <3>1. rfifo # << >>
      <4>1. CASE pause_irq
        BY <4>1 DEF Pausing
      <4>2. CASE ReadDepth - Len(rfifo) <= AlmostFull
        <5>1. Len(rfifo) # 0
          BY <1>0, <4>2, Sizes, JtagAssumption
        <5>. QED
          BY <5>1
      <4>. QED
        BY <2>1, <4>1, <4>2 DEF ipen_AF
    <3>. QED
      BY <1>1, <2>1, <3>1 DEF IsrControl, coreVars
  <2>2. CASE ~ipen_AF
    BY <1>1, <2>2 DEF IsrControl
  <2>. QED
    BY <2>1, <2>2
<1>2. CASE IsrReceive
  <2>1. CASE rfifo = << >>
    BY <1>2, <2>1 DEF IsrReceive
  <2>2. CASE rfifo # << >>
    <3>1. isr' = "receive" /\ rx_in' # rx_out'
      BY <1>2, <2>2, Zenon DEF IsrReceive, ReceiveFull
    <3>. QED
      BY <3>1
  <2>. QED
    BY <2>1, <2>2
<1>3. CASE Host
  <2>1. UNCHANGED <<isr, rx_in, rx_out>>
    BY <1>3 DEF Host, HostOnly, isrVars, ringVars
  <2>2. rfifo # << >> => rfifo' # << >>
    <3>1. CASE HostSends
      <4>1. rfifo' = Append(rfifo, input + 1)
        BY <3>1 DEF HostSends
      <4>2. Len(Append(rfifo, input + 1)) = Len(rfifo) + 1
        BY <1>0, AppendProperties
      <4>. QED
        BY <1>0, <4>1, <4>2
    <3>2. CASE rfifo' = rfifo
      BY <3>2
    <3>. QED
      BY <1>3, <3>1, <3>2 DEF Host, HostStep, HostPauses, HostTakes, HostLeaves
  <2>. QED
    BY <2>1, <2>2
<1>4. CASE isr' \notin {"receive", "received"}
  BY <1>4
<1>5. Main \/ Interrupt \/ IsrReceived \/ IsrTransmit \/ IsrTransmitted \/ Tick
        => isr' \notin {"receive", "received"}
  BY DEF Main, CallWrite, WriteLoad, WriteCopy, WritePublish, WriteKick, WriteSpin, WriteCheck,
         CallRead, ReadLoad, ReadCopy, ReadRelease, ReadSpin, ReadCheck, ReadEnable,
         CallClose, CloseEnds, MainOnly, At, Interrupt, IsrReceived, IsrTransmit,
         IsrTransmitted, Tick, isrVars
<1>6. CASE UNCHANGED vars
  BY <1>6 DEF vars, isrVars, ringVars, coreVars
<1>. QED
  BY <1>1, <1>2, <1>3, <1>4, <1>5, <1>6 DEF Next, Isr

\* The two halves of NotStalled.
TxEnabled == tx_in # tx_out => ien_AE \/ pc \in Writing
RxEnabled == ien_AF \/ rx_in # rx_out \/ (pc \in Reading /\ progress)

LEMMA NextTxEnabled ==
  ASSUME TxEnabled, [Next]_vars
  PROVE  TxEnabled'
<1> USE DEF TxEnabled
<1>1. CASE CallWrite \/ WriteLoad \/ WriteCopy \/ WritePublish
  BY <1>1 DEF CallWrite, WriteLoad, WriteCopy, WritePublish, GoOn, Writing
<1>2. CASE WriteKick
  BY <1>2, Zenon DEF WriteKick, WriteControl
<1>3. CASE WriteSpin \/ WriteCheck \/ CallRead \/ ReadLoad \/ ReadCopy \/ ReadRelease
             \/ ReadSpin \/ ReadCheck \/ CallClose \/ CloseEnds
  <2>1. UNCHANGED <<tx_in, tx_out, ien_AE>> /\ pc \notin Writing
    BY <1>3 DEF WriteSpin, WriteCheck, CallRead, ReadLoad, ReadCopy, ReadRelease, ReadSpin,
                ReadCheck, CallClose, CloseEnds, MainOnly, ringVars, coreVars, At, Writing
  <2>. QED
    BY <2>1, Zenon
<1>4. CASE ReadEnable
  <2>1. UNCHANGED <<tx_in, tx_out, ien_AE>> /\ pc \notin Writing
    BY <1>4 DEF ReadEnable, WriteControl, ringVars, At, Writing
  <2>. QED
    BY <2>1, Zenon
<1>5. CASE IsrTransmit
  BY <1>5, Zenon DEF IsrTransmit, WriteData, IsrOnly, mainVars
<1>6. CASE IsrTransmitted
  <2>1. CASE space > 0
    <3>1. tx_out' = tx_in'
      BY <1>6, <2>1 DEF IsrTransmitted, ringVars
    <3>. QED
      BY <3>1
  <2>2. CASE ~(space > 0)
    BY <1>6, <2>2, Zenon DEF IsrTransmitted, coreVars, ringVars, IsrOnly, mainVars
  <2>. QED
    BY <2>1, <2>2
<1>7. CASE IsrReceive \/ IsrReceived
  <2>1. UNCHANGED <<tx_in, tx_out, ien_AE, pc>>
    BY <1>7, Zenon DEF IsrReceive, IsrReceived, ReadData, WriteControl, coreVars, ringVars,
                       IsrOnly, mainVars
  <2>. QED
    BY <2>1, Zenon
<1>8. CASE UNCHANGED <<tx_in, tx_out, ien_AE, pc>>
  BY <1>8, Zenon
<1>9. Interrupt \/ IsrControl \/ Tick \/ Host \/ UNCHANGED vars
        => UNCHANGED <<tx_in, tx_out, ien_AE, pc>>
  BY Zenon DEF Interrupt, IsrControl, IsrOnly, Tick, Host, HostStep, HostOnly, HostSends,
     HostPauses, HostTakes, HostLeaves, WriteControl, coreVars, ringVars, mainVars, vars
<1>. QED
  BY <1>1, <1>2, <1>3, <1>4, <1>5, <1>6, <1>7, <1>8, <1>9, Zenon DEF Next, Main, Isr

LEMMA NextRxEnabled ==
  ASSUME Types, FetchHeld, Received, RxEnabled, [Next]_vars
  PROVE  RxEnabled'
<1> DEFINE kept == UNCHANGED <<rx_in, rx_out, ien_AF>>
<1>1. CASE kept /\ UNCHANGED <<pc, progress>>
  BY <1>1, Zenon DEF RxEnabled
<1>2. CASE kept /\ pc \notin Reading
  BY <1>2, Zenon DEF RxEnabled
<1>3. CASE kept /\ pc' \in Reading /\ progress'
  BY <1>3, Zenon DEF RxEnabled
<1>4. CallWrite \/ WriteLoad \/ WriteCopy \/ WritePublish \/ WriteKick \/ WriteSpin
        \/ WriteCheck \/ CallRead \/ ReadSpin \/ ReadCheck \/ CallClose \/ CloseEnds
        => kept /\ pc \notin Reading
  BY DEF CallWrite, WriteLoad, WriteCopy, WritePublish, WriteKick, WriteSpin, WriteCheck,
         CallRead, ReadSpin, ReadCheck, CallClose, CloseEnds, MainOnly, WriteControl,
         ringVars, coreVars, At, Reading
<1>5. CASE ReadLoad
  <2>1. CASE progress
    BY <1>3, <1>5, <2>1 DEF ReadLoad, MainOnly, coreVars, ringVars, Reading
  <2>2. CASE ~progress
    <3>1. kept /\ (ien_AF \/ rx_in # rx_out)
      BY <1>5, <2>2, Zenon DEF ReadLoad, RxEnabled, MainOnly, coreVars, ringVars
    <3>. QED
      BY <3>1, Zenon DEF RxEnabled
  <2>. QED
    BY <2>1, <2>2
<1>6. CASE ReadCopy
  <2>1. pc' \in Reading /\ progress'
    BY <1>6, Zenon DEF ReadCopy, Reading
  <2>. QED
    BY <2>1, Zenon DEF RxEnabled
<1>7. CASE ReadRelease
  <2>1. pc' \in Reading
    BY <1>7 DEF ReadRelease, GoOn, Reading
  <2>2. progress'
    BY <1>7, Zenon DEF ReadRelease, GoOn, FetchHeld, At
  <2>. QED
    BY <2>1, <2>2, Zenon DEF RxEnabled
<1>8. CASE ReadEnable
  BY <1>8, Zenon DEF ReadEnable, WriteControl, RxEnabled
<1>9. CASE IsrReceive
  <2>1. CASE rfifo = << >>
    <3>1. kept /\ UNCHANGED <<pc, progress>>
      BY <1>9, <2>1 DEF IsrReceive, ReadData, IsrOnly, mainVars
    <3>. QED
      BY <1>1, <3>1
  <2>2. CASE rfifo # << >>
    <3>1. rx_in' # rx_out'
      BY <1>9, <2>2, Zenon DEF IsrReceive, ReceiveFull
    <3>. QED
      BY <3>1, Zenon DEF RxEnabled
  <2>. QED
    BY <2>1, <2>2
<1>10. CASE IsrReceived
  <2>1. rx_in # rx_out
    <3>1. CASE isr = "received"
      BY <3>1 DEF Received
    <3>2. CASE ReceiveFull
      <4>1. rx_in \in Index /\ rx_out \in Index /\ 1 \in 0..BUF_LEN
        BY Sizes DEF Types, RingTypes
      <4>2. Advance(rx_in, 1) = IF rx_in + 1 < BUF_LEN THEN rx_in + 1 ELSE rx_in + 1 - BUF_LEN
        BY <4>1, Advanced
      <4>. QED
        BY <3>2, <4>1, <4>2, Sizes DEF ReceiveFull, Index
    <3>. QED
      BY <1>10, <3>1, <3>2 DEF IsrReceived
  <2>2. UNCHANGED <<rx_in, rx_out>>
    BY <1>10 DEF IsrReceived, ringVars
  <2>. QED
    BY <2>1, <2>2, Zenon DEF RxEnabled
<1>11. Interrupt \/ IsrControl \/ IsrTransmit \/ IsrTransmitted \/ Tick \/ Host
         \/ UNCHANGED vars => kept /\ UNCHANGED <<pc, progress>>
  BY Zenon DEF Interrupt, IsrControl, IsrTransmit, IsrTransmitted, IsrOnly, Tick, Host,
     HostStep, HostOnly, HostSends, HostPauses, HostTakes, HostLeaves, WriteControl, WriteData,
     coreVars, ringVars, mainVars, vars
<1>. QED
  BY <1>1, <1>2, <1>4, <1>5, <1>6, <1>7, <1>8, <1>9, <1>10, <1>11, Zenon DEF Next, Main, Isr

LEMMA NextIInv == Types /\ IInv /\ [Next]_vars => Types' /\ IInv'
<1>1. NotStalled <=> TxEnabled /\ RxEnabled
  BY Zenon DEF NotStalled, TxEnabled, RxEnabled
<1>2. NotStalled' <=> TxEnabled' /\ RxEnabled'
  BY Zenon DEF NotStalled, TxEnabled, RxEnabled
<1>. SUFFICES ASSUME Types, IInv, [Next]_vars PROVE Types' /\ IInv'
  OBVIOUS
<1>3. Types'
  BY NextRingTypes, NextMainTypes, NextCoreTypes DEF Types, IInv
<1>. QED
  BY <1>1, <1>2, <1>3, NextCopyFits, NextSpaceLeft, NextFetchHeld, NextPausing, NextReceived,
     NextTxEnabled, NextRxEnabled DEF IInv

\* The inductive invariant of the driver and its interrupt routine.
THEOREM Invariant == Spec => [](Types /\ IInv)
  BY InitIInv, NextIInv, PTL DEF Spec

\* Indices stay within the buffers, counts within their bounds, and no FIFO overflows
\* (write.c:103-127, read.c:120-142, init.c:125-195).
THEOREM TypeCorrect == Spec => []TypeOK
<1>1. Types /\ IInv => TypeOK
  BY Sizes DEF Types, RingTypes, MainTypes, CoreTypes, IInv, CopyFits, Copying, TypeOK
<1>. QED
  BY <1>1, Invariant, PTL

\* No direction is switched off for good, whenever a character arrives: while an
\* interrupt is off, the program is about to turn it on, or there is a character whose
\* read makes it do so (write.c:136-139, read.c:188-195, init.c:156-167, 188-194).
THEOREM NotStalledHolds == Spec => []NotStalled
<1>1. Types /\ IInv => NotStalled
  BY DEF IInv
<1>. QED
  BY <1>1, Invariant, PTL

-----------------------------------------------------------------------------
(* The two directions *)

LEMMA Regroup ==
  ASSUME NEW s \in Seq(Nat), NEW t \in Seq(Nat), NEW u \in Seq(Nat)
  PROVE  (s \o t) \o u = s \o (t \o u)
BY ConcatAssociative

\* Taking a first part off a concatenation leaves the second.
LEMMA Split ==
  ASSUME NEW s \in Seq(Nat), NEW t \in Seq(Nat)
  PROVE  /\ SubSeq(s \o t, 1, Len(s)) = s
         /\ SubSeq(s \o t, Len(s) + 1, Len(s \o t)) = t
<1> DEFINE q == s \o t
           a == Len(s)
           b == Len(t)
<1>1. a \in Nat /\ b \in Nat
  BY LenProperties
<1>2. /\ q \in Seq(Nat) /\ Len(q) = a + b
      /\ \A i \in 1..(a + b) : q[i] = IF i <= a THEN s[i] ELSE t[i - a]
  BY ConcatProperties
<1> HIDE DEF q, a, b
<1>3. \A i \in 1..(a + b) : q[i] \in Nat
  BY <1>2, ElementOfSeq
<1>4. SubSeq(q, 1, a) = s
  <2>1. \A i \in 1..a : q[i] \in Nat
    BY <1>1, <1>3
  <2>2. /\ SubSeq(q, 1, a) \in Seq(Nat)
        /\ Len(SubSeq(q, 1, a)) = (IF 1 <= a THEN a - 1 + 1 ELSE 0)
        /\ \A i \in 1..(a - 1 + 1) : SubSeq(q, 1, a)[i] = q[1 + i - 1]
    BY <1>1, <2>1, SubSeqProperties
  <2>3. ASSUME NEW i \in 1..a PROVE SubSeq(q, 1, a)[i] = s[i]
    <3>1. i \in 1..(a - 1 + 1) /\ i \in 1..(a + b) /\ i <= a /\ 1 + i - 1 = i
      BY <1>1
    <3>2. SubSeq(q, 1, a)[i] = q[i]
      BY <2>2, <3>1
    <3>. QED
      BY <1>2, <3>1, <3>2
  <2>4. Len(SubSeq(q, 1, a)) = a
    BY <1>1, <2>2
  <2>. QED
    BY <2>2, <2>3, <2>4, SeqEqual DEF a
<1>5. SubSeq(q, a + 1, a + b) = t
  <2>1. \A i \in (a + 1)..(a + b) : q[i] \in Nat
    BY <1>1, <1>3
  <2> DEFINE r == SubSeq(q, a + 1, a + b)
  <2>2. /\ r \in Seq(Nat)
        /\ Len(r) = (IF a + 1 <= a + b THEN (a + b) - (a + 1) + 1 ELSE 0)
        /\ \A i \in 1..((a + b) - (a + 1) + 1) : r[i] = q[(a + 1) + i - 1]
    <3>1. a + 1 \in Int /\ a + b \in Int
      BY <1>1
    <3>. QED
      BY <2>1, <3>1, SubSeqProperties
  <2> HIDE DEF r
  <2>3. ASSUME NEW i \in 1..b PROVE r[i] = t[i]
    <3>1. i \in 1..((a + b) - (a + 1) + 1) /\ (a + 1) + i - 1 = a + i
          /\ a + i \in 1..(a + b) /\ ~(a + i <= a) /\ (a + i) - a = i
      BY <1>1
    <3>2. r[i] = q[a + i]
      BY <2>2, <3>1
    <3>3. q[a + i] = t[(a + i) - a]
      BY <1>2, <3>1
    <3>. QED
      BY <3>1, <3>2, <3>3
  <2>4. Len(r) = b
    BY <1>1, <2>2
  <2>5. r = t
    BY <2>2, <2>3, <2>4, SeqEqual DEF b
  <2>. QED
    BY <2>5 DEF r
<1>. QED
  BY <1>2, <1>4, <1>5 DEF q, a, b

LEMMA EmptyRing ==
  ASSUME NEW buf \in [Index -> Nat], NEW to \in Index
  PROVE  Ring(buf, to, to) = << >>
<1>1. Used(to, to) = IF to <= to THEN to - to ELSE to - to + BUF_LEN
  BY UsedIs
<1>2. 0 \in Nat /\ Used(to, to) = 0
  BY <1>1, Sizes DEF Index
<1>3. Ring(buf, to, to) \in Seq(Nat) /\ Len(Ring(buf, to, to)) = 0
  BY <1>2, RingIs
<1>. QED
  BY <1>3, EmptySeq

\* Places that do not wrap.
LEMMA StraightRun ==
  ASSUME NEW buf \in [Index -> Nat], NEW from \in Index, NEW k \in Nat, from + k <= BUF_LEN
  PROVE  Run(buf, from, k) = [j \in 1..k |-> buf[from + j - 1]]
<1>1. ASSUME NEW j \in 1..k PROVE Advance(from, j - 1) = from + j - 1
  <2>1. j - 1 \in 0..BUF_LEN /\ from + (j - 1) < BUF_LEN /\ from + (j - 1) = from + j - 1
    BY Sizes DEF Index
  <2>. QED
    BY <2>1, Advanced
<1>. QED
  BY <1>1 DEF Run

LEMMA RunOfOne ==
  ASSUME NEW buf \in [Index -> Nat], NEW from \in Index
  PROVE  Run(buf, from, 1) = <<buf[from]>>
<1>1. from + 1 <= BUF_LEN /\ from + 1 - 1 = from
  BY Sizes DEF Index
<1>2. Run(buf, from, 1) = [j \in 1..1 |-> buf[from + j - 1]]
  BY <1>1, StraightRun
<1>. QED
  BY <1>1, <1>2

TxRing == Ring(tx_buf, tx_out, tx_in)
RxRing == Ring(rx_buf, rx_out, rx_in)

RingFacts ==
  /\ TxRing \in Seq(Nat) /\ RxRing \in Seq(Nat)
  /\ wfifo \in Seq(Nat) /\ rfifo \in Seq(Nat)
  /\ wfifo \o TxRing \in Seq(Nat) /\ RxRing \o rfifo \in Seq(Nat)
  /\ Len(wfifo \o TxRing) <= BUF_LEN - 1 + WriteDepth
  /\ Len(RxRing \o rfifo) <= BUF_LEN - 1 + ReadDepth

LEMMA Rings == Types => RingFacts
<1>. SUFFICES ASSUME Types PROVE RingFacts
  OBVIOUS
<1>1. RingTypes /\ CoreTypes
  BY DEF Types
<1>2. Used(tx_out, tx_in) \in Index /\ Used(rx_out, rx_in) \in Index
  BY <1>1, UsedIs DEF RingTypes
<1>3. /\ Used(tx_out, tx_in) \in Nat /\ Used(tx_out, tx_in) <= BUF_LEN - 1
      /\ Used(rx_out, rx_in) \in Nat /\ Used(rx_out, rx_in) <= BUF_LEN - 1
  BY <1>2, Sizes DEF Index
<1>4. /\ TxRing \in Seq(Nat) /\ Len(TxRing) = Used(tx_out, tx_in)
      /\ RxRing \in Seq(Nat) /\ Len(RxRing) = Used(rx_out, rx_in)
  BY <1>1, <1>3, RingIs DEF RingTypes, TxRing, RxRing
<1>5. /\ wfifo \o TxRing \in Seq(Nat) /\ Len(wfifo \o TxRing) = Len(wfifo) + Len(TxRing)
      /\ RxRing \o rfifo \in Seq(Nat) /\ Len(RxRing \o rfifo) = Len(RxRing) + Len(rfifo)
  BY <1>1, <1>4, ConcatProperties DEF CoreTypes
<1>6. /\ Len(wfifo) \in Nat /\ Len(wfifo) <= WriteDepth
      /\ Len(rfifo) \in Nat /\ Len(rfifo) <= ReadDepth
  BY <1>1, LenProperties DEF CoreTypes
<1>. QED
  BY <1>1, <1>3, <1>4, <1>5, <1>6, Sizes DEF CoreTypes, RingFacts

LEMMA TransmitStep ==
  ASSUME Types, IInv, [Next]_vars, Types'
  PROVE  [Transmit!Next]_(Transmit!channelVars)
<1> DEFINE q == wfifo \o TxRing
<1>0. RingTypes /\ MainTypes /\ CoreTypes
  BY DEF Types
<1>. RingFacts /\ RingFacts'
  BY Rings, PTL
<1>50. wfifo \in Seq(Nat) /\ TxRing \in Seq(Nat)
  BY DEF RingFacts
<1>1. CASE WriteCopy
  <2>1. /\ in = tx_in /\ in + n <= BUF_LEN /\ n \in Nat
        /\ Used(tx_out, tx_in) + n <= BUF_LEN - 1
        /\ UNCHANGED <<tx_in, tx_out, wfifo, written, output>>
        /\ \A a \in Index : a \notin in..(in + n - 1) => tx_buf'[a] = tx_buf[a]
    BY <1>0, <1>1, Sizes DEF WriteCopy, At, MainOnly, coreVars, IInv, CopyFits, Copying,
       MainTypes, Index
  <2>2. TxRing' = TxRing
    <3>1. /\ tx_buf \in [Index -> Nat] /\ tx_buf' \in [Index -> Nat]
          /\ tx_out \in Index /\ tx_in \in Index
      BY DEF Types, RingTypes
    <3>2. Ring(tx_buf', tx_out, tx_in) = Ring(tx_buf, tx_out, tx_in)
      BY <2>1, <3>1, RingKept
    <3>. QED
      BY <2>1, <3>2 DEF TxRing
  <2>. QED
    BY <2>1, <2>2 DEF Transmit!channelVars, TxRing
<1>2. CASE WritePublish
  <2>1. /\ in = tx_in /\ in + n <= BUF_LEN /\ n \in Nat /\ n > 0 /\ written \in Nat
        /\ Used(tx_out, tx_in) + n <= BUF_LEN - 1
        /\ \A k \in 1..n : tx_buf[in + k - 1] = written + k
        /\ tx_in' = Advance(in, n) /\ written' = written + n
        /\ UNCHANGED <<tx_buf, tx_out, wfifo, output>>
    BY <1>0, <1>2, Sizes DEF WritePublish, At, MainOnly, coreVars, IInv, CopyFits, Copying,
       MainTypes, Index
  <2>2. TxRing' = TxRing \o Run(tx_buf, tx_in, n)
    <3>1. Ring(tx_buf, tx_out, Advance(tx_in, n)) = TxRing \o Run(tx_buf, tx_in, n)
      <4>1. tx_buf \in [Index -> Nat] /\ tx_out \in Index /\ tx_in \in Index
        BY <1>0 DEF RingTypes
      <4>. QED
        BY <2>1, <4>1, RingGrows DEF TxRing
    <3>. QED
      BY <2>1, <3>1 DEF TxRing
  <2>3. Run(tx_buf, tx_in, n) = [k \in 1..(written' - written) |-> written + k]
    <3>1. Run(tx_buf, tx_in, n) = [k \in 1..n |-> tx_buf[tx_in + k - 1]]
      BY <1>0, <2>1, StraightRun DEF RingTypes
    <3>2. written' - written = n
      BY <2>1
    <3>. QED
      BY <2>1, <3>1, <3>2
  <2>4. Run(tx_buf, tx_in, n) \in Seq(Nat)
    <3>1. n \in 0..(BUF_LEN - 1)
      BY <1>0, Sizes DEF MainTypes, Index
    <3>. QED
      BY <1>0, <3>1, RunIs DEF RingTypes
  <2>5. q' = q \o Run(tx_buf, tx_in, n)
    <3>1. (wfifo \o TxRing) \o Run(tx_buf, tx_in, n) = wfifo \o (TxRing \o Run(tx_buf, tx_in, n))
      BY <2>4, <1>50, Regroup
    <3>. QED
      BY <2>1, <2>2, <3>1
  <2>6. Len(q') <= BUF_LEN - 1 + WriteDepth
    BY DEF RingFacts
  <2>7. written' > written
    BY <2>1
  <2>8. Transmit!Send
    BY <2>1, <2>3, <2>5, <2>6, <2>7 DEF Transmit!Send, TxRing
  <2>. QED
    BY <2>8 DEF Transmit!Next
<1>3. CASE IsrTransmit
  <2>1. /\ tx_out # tx_in /\ tx_out' = Advance(tx_out, 1)
        /\ wfifo' = IF Len(wfifo) < WriteDepth THEN Append(wfifo, tx_buf[tx_out]) ELSE wfifo
        /\ UNCHANGED <<tx_buf, tx_in, written, output>>
    BY <1>3 DEF IsrTransmit, WriteData, IsrOnly, mainVars
  <2>2. Len(wfifo) < WriteDepth
    <3>1. Len(wfifo) + space <= WriteDepth /\ space > 0
      BY <1>3 DEF IsrTransmit, IInv, SpaceLeft, Serving
    <3>2. Len(wfifo) \in Nat /\ space \in Nat
      BY <1>0, LenProperties, Sizes DEF CoreTypes
    <3>. QED
      BY <3>1, <3>2, Sizes
  <2>3. 1 <= Used(tx_out, tx_in)
    <3>1. Used(tx_out, tx_in) = IF tx_out <= tx_in THEN tx_in - tx_out
                                ELSE tx_in - tx_out + BUF_LEN
      BY <1>0, UsedIs DEF RingTypes
    <3>2. tx_out \in Index /\ tx_in \in Index
      BY <1>0 DEF RingTypes
    <3>. QED
      BY <2>1, <3>1, <3>2, Sizes DEF Index
  <2>4. TxRing = <<tx_buf[tx_out]>> \o TxRing'
    <3>1. tx_buf \in [Index -> Nat] /\ tx_out \in Index /\ tx_in \in Index /\ 1 \in Nat
      BY <1>0 DEF RingTypes
    <3>2. TxRing = Run(tx_buf, tx_out, 1) \o Ring(tx_buf, Advance(tx_out, 1), tx_in)
      BY <2>3, <3>1, RingShrinks DEF TxRing
    <3>3. Run(tx_buf, tx_out, 1) = <<tx_buf[tx_out]>>
      BY <3>1, RunOfOne
    <3>. QED
      BY <2>1, <3>2, <3>3 DEF TxRing
  <2>5. wfifo' = wfifo \o <<tx_buf[tx_out]>> /\ <<tx_buf[tx_out]>> \in Seq(Nat)
    <3>1. tx_buf[tx_out] \in Nat
      BY <1>0 DEF RingTypes
    <3>. QED
      BY <1>0, <2>1, <2>2, <3>1, AppendIsConcat DEF CoreTypes
  <2>6. q' = q
    BY <2>4, <2>5, <1>50, Regroup
  <2>. QED
    BY <2>1, <2>6 DEF Transmit!channelVars, TxRing
<1>4. CASE HostTakes /\ Host
  <2>1. /\ wfifo # << >> /\ output' = Append(output, Head(wfifo)) /\ wfifo' = Tail(wfifo)
        /\ UNCHANGED <<tx_buf, tx_in, tx_out, written>>
    BY <1>4 DEF HostTakes, Host, HostOnly, ringVars, mainVars
  <2>2. Head(wfifo) \in Nat /\ <<Head(wfifo)>> \in Seq(Nat) /\ Tail(wfifo) \in Seq(Nat)
    BY <1>0, <2>1, HeadTailProperties DEF CoreTypes
  <2>3. wfifo = <<Head(wfifo)>> \o Tail(wfifo) /\ Len(<<Head(wfifo)>>) = 1
    BY <1>0, <2>1, <2>2 DEF CoreTypes
  <2>4. TxRing' = TxRing /\ q = <<Head(wfifo)>> \o q' /\ q' \in Seq(Nat)
    <3>1. TxRing' = TxRing
      BY <2>1 DEF TxRing
    <3>2. (<<Head(wfifo)>> \o Tail(wfifo)) \o TxRing = <<Head(wfifo)>> \o (Tail(wfifo) \o TxRing)
      BY <2>2, <1>50, Regroup
    <3>3. q' \in Seq(Nat)
      BY DEF RingFacts
    <3>. QED
      BY <2>1, <2>3, <3>1, <3>2, <3>3
  <2>5. SubSeq(q, 1, 1) = <<Head(wfifo)>> /\ SubSeq(q, 1 + 1, Len(q)) = q'
    <3> DEFINE h == <<Head(wfifo)>>
    <3>1. SubSeq(h \o q', 1, Len(h)) = h /\ SubSeq(h \o q', Len(h) + 1, Len(h \o q')) = q'
      BY <2>2, <2>4, Split
    <3>. QED
      BY <2>3, <2>4, <3>1
  <2>6. output' = output \o SubSeq(q, 1, 1)
    BY <1>0, <2>1, <2>2, <2>5, AppendIsConcat DEF CoreTypes
  <2>7. 1 \in 1..Len(q)
    <3>1. Len(q) = 1 + Len(q') /\ Len(q') \in Nat
      BY <2>2, <2>3, <2>4, ConcatProperties, LenProperties
    <3>. QED
      BY <3>1
  <2>8. Transmit!Take
    BY <2>1, <2>5, <2>6, <2>7 DEF Transmit!Take, TxRing
  <2>. QED
    BY <2>8 DEF Transmit!Next
<1>5. CASE UNCHANGED <<tx_buf, tx_in, tx_out, wfifo, written, output>>
  BY <1>5 DEF Transmit!channelVars
<1>6. CallWrite \/ WriteLoad \/ WriteKick \/ WriteSpin \/ WriteCheck \/ CallRead \/ ReadLoad
        \/ ReadCopy \/ ReadRelease \/ ReadSpin \/ ReadCheck \/ ReadEnable \/ CallClose
        \/ CloseEnds
        => UNCHANGED <<tx_buf, tx_in, tx_out, wfifo, written, output>>
  BY DEF CallWrite, WriteLoad, WriteKick, WriteSpin, WriteCheck, CallRead, ReadLoad, ReadCopy,
         ReadRelease, ReadSpin, ReadCheck, ReadEnable, CallClose, CloseEnds, MainOnly,
         WriteControl, ringVars, coreVars
<1>7. Interrupt \/ IsrControl \/ IsrReceive \/ IsrReceived \/ IsrTransmitted \/ Tick
        \/ (Host /\ ~HostTakes) \/ UNCHANGED vars
        => UNCHANGED <<tx_buf, tx_in, tx_out, wfifo, written, output>>
  BY DEF Interrupt, IsrControl, IsrReceive, IsrReceived, IsrTransmitted, IsrOnly, Tick, Host,
         HostOnly, HostStep, HostSends, HostPauses, HostLeaves, ReadData, WriteControl,
         ringVars, coreVars, mainVars, vars
<1>. QED
  BY <1>1, <1>2, <1>3, <1>4, <1>5, <1>6, <1>7 DEF Next, Main, Isr

LEMMA ReceiveStep ==
  ASSUME Types, IInv, [Next]_vars, Types'
  PROVE  [Receive!Next]_(Receive!channelVars)
<1> DEFINE q == RxRing \o rfifo
<1>0. /\ RingTypes /\ MainTypes /\ CoreTypes
      /\ rx_buf \in [Index -> Nat] /\ rx_buf' \in [Index -> Nat]
      /\ rx_in \in Index /\ rx_out \in Index
  BY DEF Types, RingTypes
<1>. RingFacts /\ RingFacts'
  BY Rings, PTL
<1>50. RxRing \in Seq(Nat) /\ rfifo \in Seq(Nat)
  BY DEF RingFacts
<1>51. ASSUME input \in Nat, input' = input + 1, q' = q \o <<input + 1>>, reading' = reading
       PROVE  Receive!Send
  <2>1. <<input + 1>> = [k \in 1..(input' - input) |-> input + k]
    <3>1. input' - input = 1
      BY <1>51
    <3>. QED
      BY <3>1
  <2>2. Len(q') <= BUF_LEN - 1 + ReadDepth /\ input' > input
    BY <1>51 DEF RingFacts
  <2>. QED
    BY <1>51, <2>1, <2>2 DEF Receive!Send, RxRing
<1>1. CASE HostSends /\ Host
  <2>1. /\ rfifo' = Append(rfifo, input + 1) /\ input' = input + 1
        /\ UNCHANGED <<rx_buf, rx_in, rx_out, reading>> /\ input \in Nat
    BY <1>0, <1>1, Sizes DEF HostSends, Host, HostOnly, ringVars, mainVars, CoreTypes
  <2>2. <<input + 1>> \in Seq(Nat) /\ rfifo' = rfifo \o <<input + 1>>
    BY <2>1, AppendIsConcat DEF RingFacts
  <2>3. q' = q \o <<input + 1>>
    <3>1. RxRing' = RxRing
      BY <2>1 DEF RxRing
    <3>2. (RxRing \o rfifo) \o <<input + 1>> = RxRing \o (rfifo \o <<input + 1>>)
      BY <2>2, <1>50, Regroup
    <3>. QED
      BY <2>2, <3>1, <3>2
  <2>4. Receive!Send
    BY <2>1, <2>3, <1>51
  <2>. QED
    BY <2>4 DEF Receive!Next
<1>2. CASE IsrReceive
  <2>1. PICK sends \in BOOLEAN : ReadData(sends)
    BY <1>2 DEF IsrReceive
  <2> DEFINE rest == IF rfifo = << >> THEN rfifo ELSE Tail(rfifo)
  <2>2. /\ rfifo' = (IF sends THEN Append(rest, input + 1) ELSE rest)
        /\ input' = (IF sends THEN input + 1 ELSE input) /\ input \in Nat
        /\ UNCHANGED <<rx_out, reading>>
    BY <1>0, <1>2, <2>1, Sizes DEF IsrReceive, ReadData, IsrOnly, mainVars, CoreTypes
  <2>3. rest \in Seq(Nat) /\ RxRing' \in Seq(Nat) /\ RxRing' \o rest = q
    <3>1. CASE rfifo = << >>
      <4>1. UNCHANGED <<rx_buf, rx_in, rx_out>>
        BY <1>2, <3>1 DEF IsrReceive
      <4>. QED
        BY <1>50, <3>1, <4>1 DEF RxRing
    <3>2. CASE rfifo # << >>
      <4>1. /\ rx_buf' = [rx_buf EXCEPT ![rx_in] = Head(rfifo)] /\ rx_in' = Advance(rx_in, 1)
            /\ rest = Tail(rfifo) /\ Advance(rx_in, 1) # rx_out
        BY <1>2, <3>2 DEF IsrReceive, ReceiveFull
      <4>2. Used(rx_out, rx_in) + 1 <= BUF_LEN - 1
        BY <1>0, <4>1, RoomForOne
      <4>3. Ring(rx_buf', rx_out, rx_in) = RxRing
        <5>1. rx_in + 1 <= BUF_LEN /\ 1 \in Nat
          BY <1>0, Sizes DEF Index
        <5>2. \A a \in Index : a \notin rx_in..(rx_in + 1 - 1) => rx_buf'[a] = rx_buf[a]
          BY <1>0, <4>1, Sizes DEF Index
        <5>. QED
          BY <1>0, <4>2, <5>1, <5>2, RingKept DEF RxRing
      <4>4. Ring(rx_buf', rx_out, Advance(rx_in, 1))
              = Ring(rx_buf', rx_out, rx_in) \o Run(rx_buf', rx_in, 1)
        BY <1>0, <4>2, RingGrows
      <4>5. Run(rx_buf', rx_in, 1) = <<Head(rfifo)>>
        <5>1. rx_buf'[rx_in] = Head(rfifo)
          BY <1>0, <4>1
        <5>2. Run(rx_buf', rx_in, 1) = <<rx_buf'[rx_in]>>
          BY <1>0, RunOfOne
        <5>. QED
          BY <5>1, <5>2
      <4>6. RxRing' = RxRing \o <<Head(rfifo)>>
        BY <2>2, <4>1, <4>3, <4>4, <4>5 DEF RxRing
      <4>7. /\ <<Head(rfifo)>> \in Seq(Nat) /\ Tail(rfifo) \in Seq(Nat)
            /\ rfifo = <<Head(rfifo)>> \o Tail(rfifo)
        <5>1. Head(rfifo) \in Nat /\ Tail(rfifo) \in Seq(Nat)
          BY <3>2, HeadTailProperties DEF RingFacts
        <5>. QED
          BY <3>2, <5>1 DEF RingFacts
      <4>8. (RxRing \o <<Head(rfifo)>>) \o Tail(rfifo) = RxRing \o (<<Head(rfifo)>> \o Tail(rfifo))
        BY <4>7, <1>50, Regroup
      <4>. QED
        BY <4>1, <4>6, <4>7, <4>8 DEF RingFacts
    <3>. QED
      BY <3>1, <3>2
  <2> HIDE DEF rest
  <2>4. CASE ~sends
    BY <2>2, <2>3, <2>4 DEF Receive!channelVars, RxRing
  <2>5. CASE sends
    <3>1. <<input + 1>> \in Seq(Nat) /\ rfifo' = rest \o <<input + 1>>
      BY <2>2, <2>3, <2>5, AppendIsConcat
    <3>2. (RxRing' \o rest) \o <<input + 1>> = RxRing' \o (rest \o <<input + 1>>)
      BY <2>3, <3>1, Regroup
    <3>3. q' = q \o <<input + 1>>
      BY <2>3, <3>1, <3>2
    <3>4. Receive!Send
      BY <2>2, <2>5, <3>3, <1>51
    <3>. QED
      BY <3>4 DEF Receive!Next
  <2>. QED
    BY <2>4, <2>5
<1>3. CASE ReadRelease
  <2>1. /\ out = rx_out /\ rx_out + n <= BUF_LEN /\ n \in Nat /\ n > 0 /\ n \in 0..(BUF_LEN - 1)
        /\ n <= Used(rx_out, rx_in) /\ copied = [k \in 1..n |-> rx_buf[rx_out + k - 1]]
        /\ rx_out' = Advance(out, n) /\ reading' = reading \o copied
        /\ UNCHANGED <<rx_buf, rx_in, rfifo, input>>
    BY <1>0, <1>3, Sizes DEF ReadRelease, At, MainOnly, coreVars, IInv, FetchHeld, Fetching,
       MainTypes, Index
  <2>2. copied = Run(rx_buf, rx_out, n)
    BY <1>0, <2>1, StraightRun
  <2>3. copied \in Seq(Nat) /\ Len(copied) = n
    BY <1>0, <2>1, <2>2, RunIs, ZenonT(30)
  <2>4. RxRing = copied \o RxRing'
    <3>1. Ring(rx_buf, rx_out, rx_in)
            = Run(rx_buf, rx_out, n) \o Ring(rx_buf, Advance(rx_out, n), rx_in)
      BY <1>0, <2>1, RingShrinks
    <3>. QED
      BY <2>1, <2>2, <3>1 DEF RxRing
  <2>5. q = copied \o q'
    <3>1. (copied \o RxRing') \o rfifo = copied \o (RxRing' \o rfifo)
      BY <2>3, <1>50, Regroup, SMTT(30)
    <3>. QED
      BY <2>1, <2>4, <3>1
  <2>6. q' \in Seq(Nat)
    BY DEF RingFacts
  <2> HIDE DEF q
  <2>7. SubSeq(q, 1, n) = copied /\ SubSeq(q, n + 1, Len(q)) = q'
    BY <2>3, <2>5, <2>6, Split
  <2>8. n \in 1..Len(q)
    <3>1. Len(q) = n + Len(q') /\ Len(q') \in Nat
      BY <2>3, <2>5, <2>6, ConcatProperties, LenProperties
    <3>. QED
      BY <2>1, <3>1
  <2>9. Receive!Take
    BY <2>1, <2>7, <2>8 DEF Receive!Take, q, RxRing
  <2>. QED
    BY <2>9 DEF Receive!Next
<1>4. CASE UNCHANGED <<rx_buf, rx_in, rx_out, rfifo, input, reading>>
  BY <1>4 DEF Receive!channelVars
<1>5. CallWrite \/ WriteLoad \/ WriteCopy \/ WritePublish \/ WriteKick \/ WriteSpin \/ WriteCheck
        \/ CallRead \/ ReadLoad \/ ReadCopy \/ ReadSpin \/ ReadCheck \/ ReadEnable \/ CallClose
        \/ CloseEnds
        => UNCHANGED <<rx_buf, rx_in, rx_out, rfifo, input, reading>>
  BY DEF CallWrite, WriteLoad, WriteCopy, WritePublish, WriteKick, WriteSpin, WriteCheck,
         CallRead, ReadLoad, ReadCopy, ReadSpin, ReadCheck, ReadEnable, CallClose, CloseEnds,
         MainOnly, WriteControl, ringVars, coreVars
<1>6. Interrupt \/ IsrControl \/ IsrReceived \/ IsrTransmit \/ IsrTransmitted \/ Tick
        \/ (Host /\ ~HostSends) \/ UNCHANGED vars
        => UNCHANGED <<rx_buf, rx_in, rx_out, rfifo, input, reading>>
  BY DEF Interrupt, IsrControl, IsrReceived, IsrTransmit, IsrTransmitted, IsrOnly, Tick, Host,
         HostOnly, HostStep, HostTakes, HostPauses, HostLeaves, WriteData, WriteControl,
         ringVars, coreVars, mainVars, vars
<1>. QED
  BY <1>1, <1>2, <1>3, <1>4, <1>5, <1>6 DEF Next, Main, Isr

LEMMA Beginnings == Init => Transmit!Init /\ Receive!Init
<1>. SUFFICES ASSUME Init PROVE Transmit!Init /\ Receive!Init
  OBVIOUS
<1>1. /\ wfifo = << >> /\ rfifo = << >> /\ written = 0 /\ output = << >>
      /\ input = 0 /\ reading = << >>
      /\ tx_in = 0 /\ tx_out = 0 /\ rx_in = 0 /\ rx_out = 0
      /\ tx_buf \in [Index -> Nat] /\ rx_buf \in [Index -> Nat] /\ 0 \in Index
  BY Sizes DEF Init, CoreInit, Index
<1>2. Ring(tx_buf, 0, 0) = << >> /\ Ring(rx_buf, 0, 0) = << >>
  BY <1>1, EmptyRing
<1>3. << >> \o << >> = << >>
  BY EmptySeq, ConcatEmptySeq
<1>. QED
  BY <1>1, <1>2, <1>3 DEF Transmit!Init, Receive!Init

\* What is printed reaches the host in order, each character once (write.c:103-127,
\* init.c:169-195): every step is a step of Channel or leaves it as it is.
THEOREM TransmitRefinement == Spec => TransmitInOrder
<1>1. Init => Transmit!Init
  BY Beginnings
<1>2. Types /\ IInv /\ [Next]_vars /\ (Types /\ IInv)' => [Transmit!Next]_(Transmit!channelVars)
  BY TransmitStep
<1>. QED
  BY <1>1, <1>2, Invariant, PTL DEF Spec, TransmitInOrder, Transmit!Spec

\* What the host sends reaches the program in order, each character once
\* (init.c:125-167, read.c:120-142).
THEOREM ReceiveRefinement == Spec => ReceiveInOrder
<1>1. Init => Receive!Init
  BY Beginnings
<1>2. Types /\ IInv /\ [Next]_vars /\ (Types /\ IInv)' => [Receive!Next]_(Receive!channelVars)
  BY ReceiveStep
<1>. QED
  BY <1>1, <1>2, Invariant, PTL DEF Spec, ReceiveInOrder, Receive!Spec
=============================================================================
