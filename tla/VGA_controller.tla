--------------------------- MODULE VGA_controller ---------------------------
(***************************************************************************)
(* The VGA timing generator of lab 8 (VGA_controller.sv): the pixel        *)
(* counters and the registered sync and blanking signals, one step per     *)
(* rising edge of VGA_CLK.  TRUE is a high pin.                             *)
(***************************************************************************)
EXTENDS Integers

CONSTANTS
  H_TOTAL, V_TOTAL,             \* pixels of a line, lines of a frame, with blanking
  H_VISIBLE, V_VISIBLE,         \* those shown: 640 and 480
  H_SYNC, V_SYNC                \* the pixels and the lines of the sync pulses

ASSUME VGAAssumption ==
  /\ H_TOTAL \in 1..1023 /\ V_TOTAL \in 1..1023
  /\ H_VISIBLE \in 1..H_TOTAL /\ V_VISIBLE \in 1..V_TOTAL
  /\ H_SYNC \subseteq H_VISIBLE..(H_TOTAL - 1)
  /\ V_SYNC \subseteq V_VISIBLE..(V_TOTAL - 1)

VARIABLES h_counter, v_counter, VGA_HS, VGA_VS, VGA_BLANK_N

vgaVars == <<h_counter, v_counter, VGA_HS, VGA_VS, VGA_BLANK_N>>

\* Faulty variant: a frame without its blanking lines.
v_counter_in_NoBlanking == IF h_counter + 1 # H_TOTAL THEN v_counter
                           ELSE IF v_counter + 1 = V_VISIBLE THEN 0
                           ELSE v_counter + 1
h_counter_in == IF h_counter + 1 = H_TOTAL THEN 0 ELSE h_counter + 1
v_counter_in == IF h_counter + 1 # H_TOTAL THEN v_counter
                ELSE IF v_counter + 1 = V_TOTAL THEN 0
                ELSE v_counter + 1

VGAReset ==
  /\ h_counter' = 0 /\ v_counter' = 0
  /\ VGA_HS' = FALSE /\ VGA_VS' = FALSE /\ VGA_BLANK_N' = FALSE

\* Faulty variant: the vertical sync is made from the old line counter.
VGACount_LateSync ==
  /\ h_counter' = h_counter_in
  /\ v_counter' = v_counter_in
  /\ VGA_HS' = (h_counter_in \notin H_SYNC)
  /\ VGA_VS' = (v_counter \notin V_SYNC)
  /\ VGA_BLANK_N' = (h_counter_in < H_VISIBLE /\ v_counter_in < V_VISIBLE)
VGACount ==
  /\ h_counter' = h_counter_in
  /\ v_counter' = v_counter_in
  /\ VGA_HS' = (h_counter_in \notin H_SYNC)
  /\ VGA_VS' = (v_counter_in \notin V_SYNC)
  /\ VGA_BLANK_N' = (h_counter_in < H_VISIBLE /\ v_counter_in < V_VISIBLE)

VGAEdge(Reset) == IF Reset THEN VGAReset ELSE VGACount
=============================================================================
