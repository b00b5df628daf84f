-------------------------------- MODULE ball --------------------------------
(***************************************************************************)
(* The ball of lab 8 (ball.sv): its position and motion, updated once per  *)
(* frame from the keycode, and bounced off the four edges.  The registers  *)
(* have ten bits; a motion of -1 is the word 1023.                          *)
(***************************************************************************)
EXTENDS Integers

CONSTANTS
  Ball_X_Center, Ball_Y_Center,
  Ball_X_Max, Ball_Y_Max,       \* the minimum of both axes is 0
  Ball_Size                     \* the radius; the step of both axes is 1

\* There is room for the ball between the edges, and the last point of each
\* axis plus the radius fits in a register.
ASSUME BallAssumption ==
  /\ Ball_Size \in Nat \ {0}
  /\ Ball_X_Max \in Nat /\ Ball_X_Max > 2 * Ball_Size + 2
  /\ Ball_Y_Max \in Nat /\ Ball_Y_Max > 2 * Ball_Size + 2
  /\ Ball_X_Max + Ball_Size < 1023 /\ Ball_Y_Max + Ball_Size < 1023
  /\ Ball_X_Center \in (Ball_Size + 1)..(Ball_X_Max - Ball_Size - 1)
  /\ Ball_Y_Center \in (Ball_Size + 1)..(Ball_Y_Max - Ball_Size - 1)

VARIABLES Ball_X_Pos, Ball_Y_Pos, Ball_X_Motion, Ball_Y_Motion

ballVars == <<Ball_X_Pos, Ball_Y_Pos, Ball_X_Motion, Ball_Y_Motion>>

Forward == 1
Backward == 1023
Add10(a, b) == (a + b) % 1024

\* The codes of the keys a, d, w and s; any other is no key to the ball.
Left == 4
Right == 7
Up == 26
Down == 22

ResetBall ==
  /\ Ball_X_Pos' = Ball_X_Center
  /\ Ball_Y_Pos' = Ball_Y_Center
  /\ Ball_X_Motion' = 0
  /\ Ball_Y_Motion' = Forward

\* Faulty variant: a vertical motion leaves the horizontal one as it is.
Move_KeepX(x, y) ==
  Ball_X_Motion' = (IF x = 0 THEN Ball_X_Motion ELSE x) /\ Ball_Y_Motion' = y
Move(x, y) == Ball_X_Motion' = x /\ Ball_Y_Motion' = y

\* Faulty variant: the edge is compared with the center of the ball.
AtBottom_Center == Ball_Y_Pos >= Ball_Y_Max
AtBottom == Add10(Ball_Y_Pos, Ball_Size) >= Ball_Y_Max
AtTop == Ball_Y_Pos <= Ball_Size
AtLeft == Ball_X_Pos <= Ball_Size
AtRight == Ball_X_Pos >= Ball_X_Max - Ball_Size

\* An edge comes before the keyboard, and a vertical edge before the others.
Steer(keycode) ==
  IF AtBottom THEN Move(0, Backward)
  ELSE IF AtTop THEN Move(0, Forward)
  ELSE IF AtLeft THEN Move(Forward, 0)
  ELSE IF AtRight THEN Move(Backward, 0)
  ELSE IF keycode = Left THEN Move(Backward, 0)
  ELSE IF keycode = Right THEN Move(Forward, 0)
  ELSE IF keycode = Up THEN Move(0, Backward)
  ELSE IF keycode = Down THEN Move(0, Forward)
  ELSE UNCHANGED <<Ball_X_Motion, Ball_Y_Motion>>

\* Faulty variant: the left edge holds the ball.
NewFrame_HeldLeft(keycode) ==
  /\ Steer(keycode)
  /\ Ball_X_Pos' = IF AtLeft THEN Ball_X_Pos ELSE Add10(Ball_X_Pos, Ball_X_Motion)
  /\ Ball_Y_Pos' = Add10(Ball_Y_Pos, Ball_Y_Motion)

\* The position moves by the old motion.
NewFrame(keycode) ==
  /\ Steer(keycode)
  /\ Ball_X_Pos' = Add10(Ball_X_Pos, Ball_X_Motion)
  /\ Ball_Y_Pos' = Add10(Ball_Y_Pos, Ball_Y_Motion)

Keycode == {0, Left, Right, Up, Down}

BallInit ==
  /\ Ball_X_Pos = Ball_X_Center
  /\ Ball_Y_Pos = Ball_Y_Center
  /\ Ball_X_Motion = 0
  /\ Ball_Y_Motion = Forward

Frame == \E keycode \in Keycode : NewFrame(keycode)
BallNext == Frame \/ ResetBall
BallSpec == BallInit /\ [][BallNext]_ballVars

-----------------------------------------------------------------------------
(* Properties *)

BallTypeOK ==
  /\ Ball_X_Pos \in 0..1023 /\ Ball_Y_Pos \in 0..1023
  /\ Ball_X_Motion \in {0, Forward, Backward}
  /\ Ball_Y_Motion \in {0, Forward, Backward}

\* Whatever keys are pressed, the ball overshoots an edge by one pixel at most,
\* although a bounce takes effect one frame late (ball.sv:74-131).
BallNearScreen ==
  /\ Ball_X_Pos \in (Ball_Size - 1)..(Ball_X_Max - Ball_Size + 1)
  /\ Ball_Y_Pos \in (Ball_Size - 1)..(Ball_Y_Max - Ball_Size + 1)

\* The ball moves along one axis at a time and never stops: no sequence of
\* bounces and keys leaves both motions zero or both not (ball.sv:81-120).
OneAxis == (Ball_X_Motion = 0) # (Ball_Y_Motion = 0)

\* A motion that would carry the ball on over an edge ends before it does: the
\* strengthening that makes the properties above inductive.
MotionHasRoom ==
  /\ Ball_X_Motion = Backward => Ball_X_Pos >= Ball_Size
  /\ Ball_X_Motion = Forward => Ball_X_Pos <= Ball_X_Max - Ball_Size
  /\ Ball_Y_Motion = Backward => Ball_Y_Pos >= Ball_Size
  /\ Ball_Y_Motion = Forward => Ball_Y_Pos <= Ball_Y_Max - Ball_Size

BallInv == BallTypeOK /\ BallNearScreen /\ OneAxis /\ MotionHasRoom
=============================================================================
