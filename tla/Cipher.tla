-------------------------------- MODULE Cipher --------------------------------
(***************************************************************************)
(* What lab 9's encryption promises: the blocks the user gives are         *)
(* enciphered by AES, transformation by transformation.                    *)
(***************************************************************************)
EXTENDS Rijndael

CONSTANT ConstantPlace          \* FirstByte in the standard

VARIABLES
  message, key,                 \* what the user gave; a block and four words
  w,                            \* the key schedule, or << >>
  state,                        \* the block in the making, or << >>
  phase, round

cipherVars == <<message, key, w, state, phase, round>>

Idle == phase = "idle" /\ w = << >> /\ state = << >> /\ round = 0

Init == Idle

\* A message and a key are given, or given up.
Give == Idle /\ Idle'

Begin ==
  /\ phase = "idle" /\ phase' = "add"
  /\ UNCHANGED <<message, key, round>>
  /\ state' = message
  /\ IsKeySchedule(w', key, ConstantPlace, 10)

Transform(from, to, new) ==
  /\ phase = from /\ phase' = to
  /\ state' = new
  /\ UNCHANGED <<message, key, w>>

Add == /\ Transform("add", IF round = 10 THEN "out" ELSE "substitute",
                    AddRoundKey(state, w, round))
       /\ round' = (IF round = 10 THEN 10 ELSE round + 1)
Substitute == Transform("substitute", "shift", SubstituteBytes(state)) /\ UNCHANGED round
Shift == /\ Transform("shift", IF round = 10 THEN "add" ELSE "mix", ShiftRows(state))
         /\ UNCHANGED round
Mix == Transform("mix", "add", MixColumns(state)) /\ UNCHANGED round

\* The result is taken, or the encryption is torn by a reset.
End == phase # "idle" /\ Idle'

Next == Give \/ Begin \/ Add \/ Substitute \/ Shift \/ Mix \/ End
Spec == Init /\ [][Next]_cipherVars
=============================================================================
