-------------------------------- MODULE lab8 --------------------------------
(***************************************************************************)
(* The video half of lab 8 (lab8.sv): the ball moves on the rising edge of *)
(* the vertical sync that VGA_controller generates in its own clock.  A    *)
(* step is one rising edge of the 50 MHz Clk; VGA_CLK, half as fast, rises *)
(* with every second one.  KEY[0] resets the controller through a register *)
(* and KEY[1] the ball directly; the keycode is whatever the software last *)
(* wrote to its port.                                                       *)
(***************************************************************************)
EXTENDS ball, VGA_controller

VARIABLES
  VGA_CLK,                  \* the level of the 25 MHz clock
  Reset_h,                  \* the register behind KEY[0]
  frame_clk_delayed, frame_clk_rising_edge,
  shown                     \* history: the picture was shown to its last pixel,
                            \* or restarted, after the ball last moved

detectorVars == <<frame_clk_delayed, frame_clk_rising_edge>>
labVars == <<ballVars, vgaVars, VGA_CLK, Reset_h, detectorVars, shown>>

\* Just after both keys were held long enough.
Init ==
  /\ BallInit
  /\ h_counter = 0 /\ v_counter = 0
  /\ VGA_HS = FALSE /\ VGA_VS = FALSE /\ VGA_BLANK_N = FALSE
  /\ VGA_CLK \in BOOLEAN
  /\ Reset_h = TRUE
  /\ frame_clk_delayed = FALSE /\ frame_clk_rising_edge = FALSE
  /\ shown = TRUE

\* Faulty variant: an edge reported twice.
DetectFrame_Twice ==
  /\ frame_clk_delayed' = frame_clk_rising_edge
  /\ frame_clk_rising_edge' = (VGA_VS /\ ~frame_clk_delayed)
DetectFrame ==
  /\ frame_clk_delayed' = VGA_VS
  /\ frame_clk_rising_edge' = (VGA_VS /\ ~frame_clk_delayed)

\* Faulty variant: the ball moves with every Clk.
BallEdge_EveryClk(Reset, keycode) == IF Reset THEN ResetBall ELSE NewFrame(keycode)
BallEdge(Reset, keycode) ==
  IF Reset THEN ResetBall
  ELSE IF frame_clk_rising_edge THEN NewFrame(keycode)
  ELSE UNCHANGED ballVars

LastPixel == v_counter = V_VISIBLE - 1 /\ h_counter = H_VISIBLE - 1

PosEdge(resetVideo, resetBall, keycode) ==
  /\ Reset_h' = resetVideo
  /\ VGA_CLK' = ~VGA_CLK
  /\ IF VGA_CLK THEN UNCHANGED vgaVars ELSE VGAEdge(Reset_h)
  /\ DetectFrame
  /\ BallEdge(resetBall, keycode)
  /\ shown' = (LastPixel \/ Reset_h \/ (shown /\ ~frame_clk_rising_edge))

Next == \E resetVideo, resetBall \in BOOLEAN, keycode \in Keycode :
          PosEdge(resetVideo, resetBall, keycode)

Spec == Init /\ [][Next]_labVars
FairSpec == Spec /\ WF_labVars(Next)

-----------------------------------------------------------------------------
(* Properties *)

\* The first two pixels, where the controller starts after a reset with the
\* vertical sync low: the only place a frame can begin on the screen.
StartOfScreen == v_counter = 0 /\ h_counter <= 2

\* No tearing: the ball moves only while the beam is outside the screen, or at
\* the first pixels of the frame after a reset (ball.sv:74-131 and the ordering
\* of VGA_controller.sv:54-99 behind lab8.sv:117).
NoTearing ==
  [][ballVars' = ballVars \/ ~VGA_BLANK_N \/ StartOfScreen \/ ResetBall]_labVars

\* A frame is never counted twice: between two ticks of the ball's clock the
\* beam has shown the whole picture, unless KEY[0] restarted it (ball.sv:38-44
\* with the sync of VGA_controller.sv in the other clock).
FrameOnce == frame_clk_rising_edge => shown

\* No frame is lost: the ball's clock ticks for ever unless KEY[0] is pressed
\* for ever or again and again (ball.sv:38-44, VGA_controller.sv:73-99).
FramesKeepComing == []<>(frame_clk_rising_edge \/ Reset_h)

\* An edge lets go of the ball: frame after frame, whatever keys are pressed, it
\* comes back to where the keys steer it (ball.sv:81-120).
AtEdge == AtBottom \/ AtTop \/ AtLeft \/ AtRight
EdgeReleases == AtEdge ~> ~AtEdge \/ Reset_h

\* The strengthening of NoTearing: where the beam is while the detector holds a
\* vertical sync that has just ended.
SyncPlace ==
  /\ ~VGA_VS => v_counter \in V_SYNC \/ (v_counter = 0 /\ h_counter = 0)
  /\ VGA_VS /\ ~frame_clk_delayed =>
       h_counter <= 1 /\ (v_counter = 0 \/ v_counter >= V_VISIBLE)
  /\ frame_clk_rising_edge =>
       h_counter <= 2 /\ (v_counter = 0 \/ v_counter >= V_VISIBLE)
  /\ VGA_BLANK_N => v_counter < V_VISIBLE
=============================================================================
