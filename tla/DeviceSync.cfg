SPECIFICATION Spec
CONSTANTS
  Device = {d1, d2}
  MaxTime = 3
  MaxPlays = 3
INVARIANTS
  NoPlayIsLost
  InSyncIsEqual
SYMMETRY Symmetry
CHECK_DEADLOCK FALSE
