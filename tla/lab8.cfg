CONSTANTS
  Ball_X_Center = 4
  Ball_Y_Center = 4
  Ball_X_Max = 8
  Ball_Y_Max = 8
  Ball_Size = 1
  H_TOTAL = 12
  V_TOTAL = 13
  H_VISIBLE = 9
  V_VISIBLE = 9
  H_SYNC <- MCH_SYNC
  V_SYNC <- MCV_SYNC
SPECIFICATION FairSpec
INVARIANTS
  BallNearScreen
  OneAxis
  SyncPlace
  FrameOnce
PROPERTIES
  NoTearing
  FramesKeepComing
  EdgeReleases
