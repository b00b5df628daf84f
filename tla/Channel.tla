------------------------------- MODULE Channel -------------------------------
(***************************************************************************)
(* What the console promises in each direction: the characters sent are    *)
(* taken in order, each of them once, and at most Capacity are on the way. *)
(* A character is the number of its place in what was sent.                 *)
(***************************************************************************)
EXTENDS Naturals, Sequences

CONSTANT Capacity

VARIABLES
  queue,                        \* on the way
  sent,                         \* how many were sent
  taken                         \* what the receiver took, in its order

channelVars == <<queue, sent, taken>>

Init == queue = << >> /\ sent = 0 /\ taken = << >>

Send ==
  /\ sent' > sent
  /\ queue' = queue \o [n \in 1..(sent' - sent) |-> sent + n]
  /\ Len(queue') <= Capacity
  /\ UNCHANGED taken

Take == \E n \in 1..Len(queue) :
  /\ taken' = taken \o SubSeq(queue, 1, n)
  /\ queue' = SubSeq(queue, n + 1, Len(queue))
  /\ UNCHANGED sent

Next == Send \/ Take
Spec == Init /\ [][Next]_channelVars
=============================================================================
