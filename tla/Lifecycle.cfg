SPECIFICATION FairLifecycle
CONSTANTS
  Clients = {w1, w2}
  MaxLoops = 2
INVARIANTS LifecycleTypeOK StartedMeansOneLoop ResetLeavesOneMission
PROPERTY StopEndsTheLoops
CHECK_DEADLOCK FALSE
