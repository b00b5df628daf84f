---------------------------- MODULE MCMultiplier ----------------------------
(***************************************************************************)
(* The multiplier with a user who starts at most MaxStarts multiplications *)
(* between two resets, on operands of every sign, the extremes and 0.      *)
(***************************************************************************)
EXTENDS Multiplier

CONSTANT MaxStarts
VARIABLE starts

MCSwitches == {0, 1, 7, 127, 128, 197, 255}

MCInit == Init /\ starts = 0

MCNext ==
  \E Reset, ClearA_LoadB, Execute \in BOOLEAN :
    /\ Execute => starts < MaxStarts
    /\ PosEdge(Reset, ClearA_LoadB, Execute)
    /\ starts' = IF Reset THEN 0 ELSE IF curr_state = "Clear" THEN starts + 1 ELSE starts

mcVars == <<vars, starts>>
MCSpec == MCInit /\ [][MCNext]_mcVars /\ WF_mcVars(MCNext)
=============================================================================
