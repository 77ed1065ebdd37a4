SPECIFICATION Spec
CONSTANTS
  SeatCount = 2
  Xephyr = FALSE
  AutoLogin = TRUE
  PatientGreeter = TRUE
  MaxQueue = 2
  MaxFaults = 1
  MaxLost = 1
CHECK_DEADLOCK FALSE
INVARIANTS DaemonInv OneGreeter ExitsMatch   GreeterHasUser
  
