----------------------------- MODULE MCPrograms -----------------------------
(***************************************************************************)
(* The programs of memory_contents.sv with plans for their users.          *)
(***************************************************************************)
EXTENDS SLC3Programs

MCImages == {memory_contents}
MCMemSize == 256
Words == {0, 1, 127, 128, 255, 384, 21845, 32768, 65535}

\* The sixteen words the entry function reads.
SmallEntries ==
  { <<5, 4, 3, 2, 1, 0, 9, 8, 7, 6, 15, 14, 13, 12, 11, 10>>,
    <<40000, 65000, 33000, 40000, 50000, 65535, 32769, 1 + 32768, 60000,
      33001, 33002, 33003, 65535, 40001, 39999, 50000>>,
    <<32767, 0, 32767, 1, 3, 3, 3, 3, 0, 0, 100, 200, 300, 250, 150, 50>> }
Entered(data) == <<SortMenuAt, 1>> \o data \o <<2, 3>>

MCPlans ==
  {<<IOTest1At, 7, 8>>, <<IOTest2At, 7, 8>>}
  \union {<<start, a, b>> : start \in {XORAt, MultiplierAt}, a, b \in Words}
  \union {<<SortMenuAt, 2, 0, 3, 4>>, <<IOAddress, 57344, IOAddress>>}
  \union {Entered(data) : data \in SmallEntries}
MCSwitches == UNION {{words[i] : i \in 1..Len(words)} : words \in MCPlans}
=============================================================================
