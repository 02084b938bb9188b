SPECIFICATION FairSpec
CONSTANTS
  p1 = p1
  p2 = p2
  a = a
  b = b
  Platform <- OnePlatform
  Rom <- TwoRoms
  home <- HomeOfTwo
  Request <- Requests
  Mishap = {"rom", "watcher"}
  MaxChanges = 3
  MaxRequests = 1
  MaxStops = 0
PROPERTIES
  MissingHeals
  AddedIsScanned
CHECK_DEADLOCK FALSE
