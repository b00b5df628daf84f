-------------------------------- MODULE HPI ---------------------------------
(***************************************************************************)
(* What io_handler.c promises its caller: IO_write(Address, Data) and      *)
(* IO_read(Address) are one access of the chip each, with that address and *)
(* the data written or returned.  KEY0 resets the bus registers and the    *)
(* chip but never the program: the access it falls into, and only that     *)
(* one, may reach the chip in any form, and return anything.               *)
(***************************************************************************)
CONSTANTS Addresses, Words, None

VARIABLES
  call,         \* the access asked for and not yet returned, or None
  served,       \* what the chip did for it, or None
  torn          \* a reset was pressed during it

IOvars == <<call, served, torn>>

Calls == [op : {"read"}, address : Addresses]
         \union [op : {"write"}, address : Addresses, data : Words]

\* The access the chip did is the one asked for.
Answers(s, c) ==
  /\ s # None
  /\ s.op = c.op /\ s.address = c.address
  /\ c.op = "write" => s.data = c.data

Init == call = None /\ served = None /\ torn = FALSE

Call ==
  /\ call = None
  /\ call' \in Calls
  /\ served' = None
  /\ torn' \in BOOLEAN

Serve ==
  /\ call # None /\ served = None /\ ~torn
  /\ Answers(served', call)
  /\ UNCHANGED <<call, torn>>

\* value: what IO_read returns.
Return(value) ==
  /\ call # None
  /\ \/ torn
     \/ Answers(served, call) /\ (call.op = "read" => served.data = value)
  /\ call' = None /\ served' = None /\ torn' = FALSE

Tear ==
  /\ call # None
  /\ torn'
  /\ UNCHANGED call

Next(value) == Call \/ Serve \/ Return(value) \/ Tear
=============================================================================
