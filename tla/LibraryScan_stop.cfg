SPECIFICATION Spec
CONSTANTS
  p1 = p1
  p2 = p2
  a = a
  b = b
  Platform <- TwoPlatforms
  Rom <- OneRom
  home <- HomeOfOne
  Request <- Requests
  Mishap = {"rom", "fail", "die", "meta", "watcher", "sources", "restart"}
  MaxChanges = 1
  MaxRequests = 1
  MaxStops = 2
INVARIANTS
  TypeOK
  StopsOwnScan
  StopIsObeyed
  EndIsTold
CHECK_DEADLOCK FALSE
