---------------------------- MODULE lab8_proofs -----------------------------
(***************************************************************************)
(* The ball stays within one pixel of the screen and never stops, for      *)
(* every size of the screen and of the ball, and every sequence of keys.   *)
(* The picture does not tear and no frame counts twice, for every screen   *)
(* whose lines are longer than three pixels; and the ball keeps in lab8    *)
(* what it promises alone.                                                 *)
(***************************************************************************)
EXTENDS lab8, TLAPS

-----------------------------------------------------------------------------
(* The ball *)

\* On the coordinates the ball can have, the ten-bit sums are those of the
\* integers: a step forward, a step back, and the test for the bottom edge.
LEMMA Steps ==
  ASSUME NEW x \in Nat, x < 1023
  PROVE  /\ Add10(x, 0) = x
         /\ Add10(x, Forward) = x + 1
         /\ x > 0 => Add10(x, Backward) = x - 1
  BY DEF Add10, Forward, Backward

LEMMA BottomTest ==
  ASSUME NEW y \in Nat, y + Ball_Size < 1024
  PROVE  Add10(y, Ball_Size) = y + Ball_Size
  BY BallAssumption DEF Add10

\* Init => IInv: the ball of ball.sv:48-54 is in the middle of the screen.
LEMMA InitBall == BallInit => BallInv
  BY BallAssumption
  DEF BallInit, BallInv, BallTypeOK, BallNearScreen, OneAxis, MotionHasRoom,
      Forward, Backward

LEMMA ResetKeeps == ResetBall => BallInv'
  BY BallAssumption
  DEF ResetBall, BallInv, BallTypeOK, BallNearScreen, OneAxis, MotionHasRoom,
      Forward, Backward

\* One frame of ball.sv:75-131: the old motion has room, so the position stays
\* near the screen; the new motion has room again, since a motion towards an
\* edge is only kept or begun away from it.
LEMMA FrameKeeps ==
  ASSUME BallInv, NEW keycode, NewFrame(keycode)
  PROVE  BallInv'
<1> DEFINE step(motion) == IF motion = Backward THEN -1 ELSE IF motion = Forward THEN 1 ELSE 0
           sx == step(Ball_X_Motion)
           sy == step(Ball_Y_Motion)
<1>1. /\ sx \in {-1, 0, 1} /\ sy \in {-1, 0, 1}
      /\ sx = 0 => Ball_X_Motion = 0
      /\ sx = 1 => Ball_X_Motion = Forward
      /\ sx = -1 => Ball_X_Motion = Backward
      /\ sy = 0 => Ball_Y_Motion = 0
      /\ sy = 1 => Ball_Y_Motion = Forward
      /\ sy = -1 => Ball_Y_Motion = Backward
  BY DEF BallInv, BallTypeOK, Forward, Backward
<1>. HIDE DEF sx, sy
<1>2. /\ Ball_X_Pos' = Ball_X_Pos + sx
      /\ Ball_Y_Pos' = Ball_Y_Pos + sy
  <2>1. /\ Ball_X_Pos \in Nat /\ Ball_X_Pos < 1023 /\ (sx = -1 => Ball_X_Pos > 0)
        /\ Ball_Y_Pos \in Nat /\ Ball_Y_Pos < 1023 /\ (sy = -1 => Ball_Y_Pos > 0)
    BY <1>1, BallAssumption DEF BallInv, BallTypeOK, BallNearScreen, MotionHasRoom
  <2>. QED
    BY <1>1, <2>1, Steps DEF NewFrame
<1>3. AtBottom <=> Ball_Y_Pos + Ball_Size >= Ball_Y_Max
  BY BottomTest, BallAssumption DEF AtBottom, BallInv, BallTypeOK, BallNearScreen
<1>4. /\ BallNearScreen' /\ Ball_X_Pos' \in 0..1023 /\ Ball_Y_Pos' \in 0..1023
  BY <1>1, <1>2, BallAssumption
  DEF BallInv, BallTypeOK, BallNearScreen, MotionHasRoom
<1>5. \/ AtBottom /\ Ball_X_Motion' = 0 /\ Ball_Y_Motion' = Backward
      \/ ~AtBottom /\ AtTop /\ Ball_X_Motion' = 0 /\ Ball_Y_Motion' = Forward
      \/ AtLeft /\ Ball_X_Motion' = Forward /\ Ball_Y_Motion' = 0
      \/ ~AtLeft /\ AtRight /\ Ball_X_Motion' = Backward /\ Ball_Y_Motion' = 0
      \/ /\ ~AtBottom /\ ~AtTop /\ ~AtLeft /\ ~AtRight
         /\ \/ Ball_X_Motion' = Backward /\ Ball_Y_Motion' = 0
            \/ Ball_X_Motion' = Forward /\ Ball_Y_Motion' = 0
            \/ Ball_X_Motion' = 0 /\ Ball_Y_Motion' = Backward
            \/ Ball_X_Motion' = 0 /\ Ball_Y_Motion' = Forward
            \/ Ball_X_Motion' = Ball_X_Motion /\ Ball_Y_Motion' = Ball_Y_Motion
  BY DEF NewFrame, Steer, Move
<1>6. OneAxis' /\ Ball_X_Motion' \in {0, Forward, Backward}
      /\ Ball_Y_Motion' \in {0, Forward, Backward}
  BY <1>5 DEF BallInv, BallTypeOK, OneAxis, Forward, Backward
<1>7. MotionHasRoom'
  BY <1>1, <1>2, <1>3, <1>5, BallAssumption
  DEF BallInv, BallTypeOK, BallNearScreen, MotionHasRoom, AtTop, AtLeft, AtRight,
      Forward, Backward
<1>. QED
  BY <1>4, <1>6, <1>7 DEF BallInv, BallTypeOK

\* The invariant of the ball: position, motion and the room between them.
THEOREM BallInvariant == BallSpec => []BallInv
<1>1. BallInv /\ [BallNext]_ballVars => BallInv'
  <2>. SUFFICES ASSUME BallInv, [BallNext]_ballVars PROVE BallInv'
    OBVIOUS
  <2>1. CASE Frame
    BY <2>1, FrameKeeps DEF Frame
  <2>2. CASE ResetBall
    BY <2>2, ResetKeeps
  <2>3. CASE UNCHANGED ballVars
    BY <2>3 DEF ballVars, BallInv, BallTypeOK, BallNearScreen, OneAxis, MotionHasRoom
  <2>. QED
    BY <2>1, <2>2, <2>3 DEF BallNext
<1>. QED
  BY InitBall, <1>1, PTL DEF BallSpec

\* No sequence of keys, bounces and resets carries the ball more than one pixel
\* over an edge (ball.sv:74-131).
THEOREM NearScreen == BallSpec => []BallNearScreen
  BY BallInvariant, PTL DEF BallInv

\* The ball always moves, along exactly one axis (ball.sv:81-120).
THEOREM MovesAlongOneAxis == BallSpec => []OneAxis
  BY BallInvariant, PTL DEF BallInv

-----------------------------------------------------------------------------
(* The screen *)

Booleans ==
  /\ VGA_VS \in BOOLEAN /\ VGA_BLANK_N \in BOOLEAN
  /\ frame_clk_delayed \in BOOLEAN /\ frame_clk_rising_edge \in BOOLEAN

Beam == h_counter \in 0..(H_TOTAL - 1) /\ v_counter \in 0..(V_TOTAL - 1)

IInv == Booleans /\ Beam /\ SyncPlace

\* The two edges of a clock cycle, with the booleans as equivalences.
LEMMA Detector ==
  ASSUME Booleans, DetectFrame
  PROVE  /\ frame_clk_delayed' \in BOOLEAN /\ frame_clk_rising_edge' \in BOOLEAN
         /\ frame_clk_delayed' <=> VGA_VS
         /\ frame_clk_rising_edge' <=> VGA_VS /\ ~frame_clk_delayed
  BY Zenon DEF Booleans, DetectFrame

LEMMA Counting ==
  ASSUME Beam, VGACount
  PROVE  /\ VGA_VS' \in BOOLEAN /\ VGA_BLANK_N' \in BOOLEAN
         /\ VGA_VS' <=> v_counter' \notin V_SYNC
         /\ VGA_BLANK_N' => v_counter' < V_VISIBLE
         /\ \/ h_counter' = h_counter + 1 /\ v_counter' = v_counter
            \/ h_counter' = 0 /\ v_counter' \in {0, v_counter + 1}
               /\ h_counter = H_TOTAL - 1
         /\ Beam'
<1>1. /\ h_counter' = h_counter_in /\ v_counter' = v_counter_in
  BY DEF VGACount
<1>2. /\ VGA_VS' \in BOOLEAN /\ VGA_BLANK_N' \in BOOLEAN
      /\ VGA_VS' <=> v_counter' \notin V_SYNC
      /\ VGA_BLANK_N' => v_counter' < V_VISIBLE
  BY <1>1, Zenon DEF VGACount
<1>3. /\ \/ h_counter' = h_counter + 1 /\ v_counter' = v_counter
         \/ h_counter' = 0 /\ v_counter' \in {0, v_counter + 1}
            /\ h_counter = H_TOTAL - 1
      /\ Beam'
  BY <1>1, VGAAssumption DEF h_counter_in, v_counter_in, Beam
<1>. QED
  BY <1>2, <1>3

LEMMA InitIInv == Init => IInv
<1>. SUFFICES ASSUME Init PROVE IInv
  OBVIOUS
<1>1. /\ ~VGA_VS /\ ~VGA_BLANK_N /\ ~frame_clk_delayed /\ ~frame_clk_rising_edge
      /\ h_counter = 0 /\ v_counter = 0
  BY Zenon DEF Init
<1>2. Booleans
  BY Zenon DEF Init, Booleans
<1>. QED
  BY <1>1, <1>2, VGAAssumption DEF IInv, Beam, SyncPlace

LEMMA NextIInv ==
  ASSUME H_TOTAL > 3, IInv, [Next]_labVars
  PROVE  IInv'
<1>1. CASE UNCHANGED labVars
  BY <1>1 DEF labVars, vgaVars, detectorVars, IInv, Booleans, Beam, SyncPlace
<1>2. CASE Next
  <2>1. DetectFrame
    BY <1>2 DEF Next, PosEdge
  <2>2. CASE UNCHANGED vgaVars
    <3>1. /\ h_counter' = h_counter /\ v_counter' = v_counter
          /\ VGA_VS' = VGA_VS /\ VGA_BLANK_N' = VGA_BLANK_N
      BY <2>2 DEF vgaVars
    <3>. QED
      BY <2>1, <3>1, Detector DEF IInv, Booleans, Beam, SyncPlace
  <2>3. CASE VGAReset
    <3>1. /\ h_counter' = 0 /\ v_counter' = 0
          /\ VGA_VS' \in BOOLEAN /\ ~VGA_VS' /\ VGA_BLANK_N' \in BOOLEAN /\ ~VGA_BLANK_N'
      BY <2>3 DEF VGAReset
    <3>2. frame_clk_rising_edge' => h_counter' <= 2 /\ v_counter' = 0
      BY <3>1
    <3>. QED
      BY <2>1, <3>1, <3>2, Detector, VGAAssumption DEF IInv, Booleans, Beam, SyncPlace
  <2>4. CASE VGACount
    <3>1. VGA_VS /\ ~frame_clk_delayed =>
            h_counter' <= 2 /\ (v_counter' = 0 \/ v_counter' >= V_VISIBLE)
      BY <2>4, Counting, VGAAssumption DEF IInv, Beam, SyncPlace
    <3>2. VGA_VS' /\ ~VGA_VS =>
            h_counter' <= 1 /\ (v_counter' = 0 \/ v_counter' >= V_VISIBLE)
      BY <2>4, Counting, VGAAssumption DEF IInv, Beam, SyncPlace
    <3>. QED
      BY <2>1, <2>4, <3>1, <3>2, Detector, Counting DEF IInv, Booleans, Beam, SyncPlace
  <2>. QED
    BY <1>2, <2>2, <2>3, <2>4 DEF Next, PosEdge, VGAEdge
<1>. QED
  BY <1>1, <1>2

LEMMA Invariant == ASSUME H_TOTAL > 3 PROVE Spec => []IInv
  BY InitIInv, NextIInv, PTL DEF Spec

\* Where the beam is while the detector holds the end of a vertical sync
\* (ball.sv:38-44 behind VGA_controller.sv:53-99).
THEOREM SyncPlaceInvariant == ASSUME H_TOTAL > 3 PROVE Spec => []SyncPlace
  BY Invariant, PTL DEF IInv

\* The ball moves only outside the screen, at the first pixels after a reset of
\* the controller, or by its own reset (ball.sv:46-62, lab8.sv:114-117).
THEOREM PictureDoesNotTear == ASSUME H_TOTAL > 3 PROVE Spec => NoTearing
<1>1. IInv /\ [Next]_labVars =>
        [ballVars' = ballVars \/ ~VGA_BLANK_N \/ StartOfScreen \/ ResetBall]_labVars
  <2>. SUFFICES ASSUME IInv, Next, ballVars' # ballVars, VGA_BLANK_N, ~ResetBall
                PROVE  StartOfScreen
    BY DEF labVars
  <2>1. frame_clk_rising_edge
    BY DEF Next, PosEdge, BallEdge, ballVars
  <2>. QED
    BY <2>1, VGAAssumption DEF IInv, Beam, SyncPlace, StartOfScreen
<1>. QED
  BY <1>1, Invariant, PTL DEF Spec, NoTearing

-----------------------------------------------------------------------------
(* No frame counts twice: what is known of shown.  The vertical sync is one  *)
(* pulse, so once the beam has left the last visible line the picture stays   *)
(* shown until the sync has ended; and the sync changes at an edge of VGA_CLK *)
(* only, so the detector is done with a change before the next one.           *)

OnePulse == \A a, b \in V_SYNC, c \in Nat : a <= c /\ c <= b => c \in V_SYNC

BeforeSync == v_counter >= V_VISIBLE /\ \A s \in V_SYNC : s >= v_counter
AfterSync == v_counter = 0 \/ \E s \in V_SYNC : s < v_counter

PictureShown ==
  /\ VGA_CLK \in BOOLEAN /\ shown \in BOOLEAN
  /\ VGA_VS => v_counter \notin V_SYNC
  /\ VGA_VS /\ ~frame_clk_delayed => VGA_CLK /\ shown /\ AfterSync
  /\ frame_clk_rising_edge => ~VGA_CLK /\ shown /\ VGA_VS
  /\ ~VGA_VS => shown /\ ~frame_clk_rising_edge
  /\ BeforeSync => shown /\ ~frame_clk_rising_edge
  /\ v_counter = V_VISIBLE - 1 /\ h_counter >= H_VISIBLE =>
       shown /\ ~frame_clk_rising_edge

LEMMA Showing ==
  ASSUME Booleans, PictureShown, Next
  PROVE  /\ VGA_CLK' \in BOOLEAN /\ (VGA_CLK' <=> ~VGA_CLK)
         /\ shown' \in BOOLEAN
         /\ LastPixel \/ Reset_h \/ (shown /\ ~frame_clk_rising_edge) => shown'
  BY Zenon DEF Booleans, PictureShown, Next, PosEdge

LEMMA NextShown ==
  ASSUME H_VISIBLE > 3, OnePulse, IInv, PictureShown, [Next]_labVars
  PROVE  PictureShown'
<1>1. CASE UNCHANGED labVars
  BY <1>1 DEF labVars, vgaVars, detectorVars, PictureShown, BeforeSync, AfterSync
<1>2. CASE Next
  <2>1. DetectFrame /\ Booleans
    BY <1>2 DEF Next, PosEdge, IInv
  <2>2. /\ frame_clk_delayed' <=> VGA_VS
        /\ frame_clk_rising_edge' <=> VGA_VS /\ ~frame_clk_delayed
    BY <2>1, Detector
  <2>3. /\ VGA_CLK' \in BOOLEAN /\ (VGA_CLK' <=> ~VGA_CLK)
        /\ shown' \in BOOLEAN
        /\ LastPixel \/ Reset_h \/ (shown /\ ~frame_clk_rising_edge) => shown'
    BY <1>2, <2>1, Showing
  <2>4. CASE VGA_CLK
    <3>1. /\ h_counter' = h_counter /\ v_counter' = v_counter /\ VGA_VS' = VGA_VS
      BY <1>2, <2>4 DEF Next, PosEdge, vgaVars
    <3>2. ~frame_clk_rising_edge
      BY <2>4 DEF PictureShown
    <3>3. frame_clk_rising_edge' => shown' /\ ~VGA_CLK' /\ VGA_VS'
      BY <2>2, <2>3, <2>4, <3>1, <3>2 DEF PictureShown
    <3>4. frame_clk_rising_edge' => ~BeforeSync'
      BY <2>2, <3>1, VGAAssumption DEF PictureShown, AfterSync, BeforeSync, IInv, Beam
    <3>5. frame_clk_rising_edge' => ~(v_counter' = V_VISIBLE - 1 /\ h_counter' >= H_VISIBLE)
      BY <2>2, <3>1, VGAAssumption DEF PictureShown, AfterSync, IInv, Beam, SyncPlace
    <3>. QED
      BY <2>2, <2>3, <3>1, <3>2, <3>3, <3>4, <3>5 DEF PictureShown, BeforeSync
  <2>5. CASE ~VGA_CLK
    <3>1. ~frame_clk_rising_edge'
      BY <2>2, <2>5 DEF PictureShown
    <3>2. CASE Reset_h /\ VGAReset
      <4>1. v_counter' = 0 /\ h_counter' = 0 /\ ~VGA_VS'
        BY <3>2 DEF VGAReset
      <4>. QED
        BY <2>3, <3>1, <3>2, <4>1, VGAAssumption DEF PictureShown, BeforeSync
    <3>3. CASE VGACount
      <4>1. /\ VGA_VS' <=> v_counter' \notin V_SYNC
            /\ \/ h_counter' = h_counter + 1 /\ v_counter' = v_counter
               \/ h_counter' = 0 /\ v_counter' \in {0, v_counter + 1}
                  /\ h_counter = H_TOTAL - 1
        BY <3>3, Counting DEF IInv
      <4>2. ASSUME v_counter' >= V_VISIBLE, \A s \in V_SYNC : s >= v_counter'
            PROVE  shown'
        BY <2>3, <4>1, <4>2, VGAAssumption DEF PictureShown, BeforeSync, LastPixel, IInv, Beam
      <4>3. ASSUME ~VGA_VS' PROVE shown'
        <5>1. CASE ~VGA_VS
          BY <2>3, <5>1 DEF PictureShown
        <5>2. CASE VGA_VS
          <6>1. v_counter \notin V_SYNC /\ v_counter' \in V_SYNC /\ v_counter' = v_counter + 1
            BY <4>1, <4>3, <5>2, VGAAssumption DEF PictureShown
          <6>2. \A s \in V_SYNC : s >= v_counter'
            BY <6>1, VGAAssumption, OnePulse DEF OnePulse, IInv, Beam
          <6>. QED
            BY <4>2, <6>1, <6>2, VGAAssumption
        <5>. QED
          BY <5>1, <5>2
      <4>4. ASSUME VGA_VS', ~frame_clk_delayed' PROVE shown' /\ AfterSync'
        <5>1. ~VGA_VS /\ shown'
          BY <2>2, <2>3, <4>4 DEF PictureShown
        <5>2. v_counter' \notin V_SYNC /\ (v_counter \in V_SYNC \/ (v_counter = 0 /\ h_counter = 0))
          BY <4>1, <4>4, <5>1 DEF IInv, SyncPlace
        <5>. QED
          BY <4>1, <5>1, <5>2, VGAAssumption DEF AfterSync, IInv, Beam
      <4>5. ASSUME v_counter' = V_VISIBLE - 1, h_counter' >= H_VISIBLE PROVE shown'
        BY <2>3, <4>1, <4>5, VGAAssumption DEF PictureShown, LastPixel, IInv, Beam
      <4>. QED
        BY <2>2, <2>3, <2>5, <3>1, <4>1, <4>2, <4>3, <4>4, <4>5 DEF PictureShown, BeforeSync
    <3>. QED
      BY <1>2, <2>5, <3>2, <3>3 DEF Next, PosEdge, VGAEdge
  <2>. QED
    BY <2>4, <2>5 DEF PictureShown
<1>. QED
  BY <1>1, <1>2

LEMMA InitShown == Init => PictureShown
<1>. SUFFICES ASSUME Init PROVE PictureShown
  OBVIOUS
<1>1. /\ ~VGA_VS /\ ~frame_clk_rising_edge /\ shown /\ h_counter = 0 /\ v_counter = 0
      /\ VGA_CLK \in BOOLEAN /\ shown \in BOOLEAN
  BY Zenon DEF Init
<1>. QED
  BY <1>1, VGAAssumption DEF PictureShown, BeforeSync

\* Between two ticks of the ball's clock the beam has shown the whole picture,
\* unless KEY[0] restarted it, if the vertical sync is one pulse of whole lines
\* (ball.sv:38-44, VGA_controller.sv:66-99).
THEOREM NoFrameTwice ==
  ASSUME H_VISIBLE > 3, OnePulse PROVE Spec => []FrameOnce
<1>1. H_TOTAL > 3
  BY VGAAssumption
<1>2. IInv /\ PictureShown /\ [Next]_labVars => PictureShown'
  BY NextShown
<1>3. PictureShown => FrameOnce
  BY DEF PictureShown, FrameOnce
<1>. QED
  BY <1>1, <1>2, <1>3, Invariant, InitShown, PTL DEF Spec

-----------------------------------------------------------------------------
(* The ball as lab8 runs it implements the ball alone. *)

THEOREM BallRefinement == Spec => BallSpec
<1>1. Init => BallInit
  BY DEF Init
<1>2. [Next]_labVars => [BallNext]_ballVars
  <2>. SUFFICES ASSUME [Next]_labVars PROVE [BallNext]_ballVars
    OBVIOUS
  <2>1. CASE Next
    BY <2>1 DEF Next, PosEdge, BallEdge, BallNext, Frame
  <2>2. CASE UNCHANGED labVars
    BY <2>2 DEF labVars
  <2>. QED
    BY <2>1, <2>2
<1>. QED
  BY <1>1, <1>2, PTL DEF Spec, BallSpec

\* With two clocks, two resets and any keys the ball overshoots an edge by one
\* pixel at most and always moves along one axis (ball.sv:74-131).
THEOREM BallInLab8 == Spec => [](BallNearScreen /\ OneAxis)
  BY BallRefinement, BallInvariant, PTL DEF BallInv
=============================================================================
