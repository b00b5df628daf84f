---------------------------- MODULE Accumulator -----------------------------
(***************************************************************************)
(* The accumulator of lab 7 (software/lab7_app/main.c): a processor that   *)
(* polls two keys and adds the switches to an 8-bit sum, against a user    *)
(* who moves keys and switches at any time.  pc is the line of main about  *)
(* to execute; each read or write of a port is a step.                      *)
(***************************************************************************)
EXTENDS Integers

CONSTANT SwitchWords            \* the words the eight switches may show
ASSUME SwitchWordsAssumption == SwitchWords \subseteq 0..255

VARIABLES
  pc,
  val,              \* unsigned char
  LED, SW,          \* the ports *LED_PIO and *SW_PIO
  resetDown,        \* KEY[2] is held: *RESET_PIO reads 0
  accumulateDown,   \* KEY[3] is held: *ACCUMULATE_PIO reads 0
  unanswered,       \* history: KEY[3] went down after the last addition
  taken             \* history: the switches the last addition read

accumulatorVars == <<pc, val, LED, SW, resetDown, accumulateDown, unanswered, taken>>
userVars == <<SW, resetDown, accumulateDown>>

\* Faulty variant: the key is read active high.
TestReset_ActiveHigh ==
  /\ pc = 34
  /\ pc' = IF resetDown THEN 38 ELSE 35
  /\ UNCHANGED <<val, LED, userVars, unanswered, taken>>
TestReset ==
  /\ pc = 34
  /\ pc' = IF resetDown THEN 35 ELSE 38
  /\ UNCHANGED <<val, LED, userVars, unanswered, taken>>

\* Faulty variant: the cleared sum is not shown.
ClearVal_NotShown ==
  /\ pc = 35
  /\ val' = 0
  /\ pc' = 38
  /\ UNCHANGED <<LED, userVars, unanswered, taken>>
ClearVal ==
  /\ pc = 35
  /\ val' = 0
  /\ LED' = 0
  /\ pc' = 38
  /\ UNCHANGED <<userVars, unanswered, taken>>

\* Faulty variant: a held reset masks the other key.
TestAccumulate_Masked ==
  /\ pc = 38
  /\ pc' = IF accumulateDown /\ ~resetDown THEN 39 ELSE 34
  /\ UNCHANGED <<val, LED, userVars, unanswered, taken>>
TestAccumulate ==
  /\ pc = 38
  /\ pc' = IF accumulateDown THEN 39 ELSE 34
  /\ UNCHANGED <<val, LED, userVars, unanswered, taken>>

Add ==
  /\ pc = 39
  /\ val' = (val + SW) % 256
  /\ taken' = SW
  /\ unanswered' = FALSE
  /\ pc' = 40
  /\ UNCHANGED <<LED, userVars>>

Show ==
  /\ pc = 40
  /\ LED' = val
  /\ pc' = 41
  /\ UNCHANGED <<val, userVars, unanswered, taken>>

\* Faulty variant: the program does not wait for the release of the key.
WaitForRelease_Skipped ==
  /\ pc = 41
  /\ pc' = 34
  /\ UNCHANGED <<val, LED, userVars, unanswered, taken>>
WaitForRelease ==
  /\ pc = 41
  /\ ~accumulateDown
  /\ pc' = 34
  /\ UNCHANGED <<val, LED, userVars, unanswered, taken>>

Processor == TestReset \/ ClearVal \/ TestAccumulate \/ Add \/ Show \/ WaitForRelease

\* The user.
PushReset ==
  /\ resetDown' = ~resetDown
  /\ UNCHANGED <<pc, val, LED, SW, accumulateDown, unanswered, taken>>
PushAccumulate ==
  /\ accumulateDown' = ~accumulateDown
  /\ unanswered' = (unanswered \/ ~accumulateDown)
  /\ UNCHANGED <<pc, val, LED, SW, resetDown, taken>>
SetSwitches ==
  /\ SW' \in SwitchWords
  /\ UNCHANGED <<pc, val, LED, resetDown, accumulateDown, unanswered, taken>>

AccumulatorInit ==
  /\ pc = 34
  /\ val = 0 /\ LED = 0
  /\ SW \in SwitchWords
  /\ resetDown = FALSE /\ accumulateDown = FALSE
  /\ unanswered = FALSE /\ taken = 0

AccumulatorNext == Processor \/ PushReset \/ PushAccumulate \/ SetSwitches

\* The processor keeps running whatever the user does.
AccumulatorSpec == AccumulatorInit /\ [][AccumulatorNext]_accumulatorVars /\ WF_accumulatorVars(Processor)

-----------------------------------------------------------------------------
(* Properties *)

\* One press adds once: an addition answers a press of the key that no earlier
\* addition answered, however long or short the presses (main.c:38-42).
OneAddPerPress == pc = 39 => unanswered

\* While it polls the keys the program shows the sum (main.c:34-42).
ShowsSum == pc \notin {40} => LED = val

\* A press made while the program polls counts if it is held long enough.  (One
\* made while the program still waits for the last release does not: a release
\* shorter than a turn of main.c:41 goes unseen.)
PressCounts ==
  pc \in {34, 35, 38} /\ unanswered /\ accumulateDown
    ~> ~unanswered \/ ~accumulateDown

\* A reset held long enough clears the sum, unless the user holds the other key
\* too: the wait for its release (main.c:41) does not look at the reset.
ResetCounts == resetDown ~> LED = 0 \/ ~resetDown \/ accumulateDown
=============================================================================
