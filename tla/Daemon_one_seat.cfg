SPECIFICATION ActionsFairSpec
CONSTANTS
  SeatCount = 1
  Xephyr = TRUE
  AutoLogin = FALSE
  PatientGreeter = FALSE
  MaxQueue = 2
  MaxFaults = 1
  MaxLost = 1
  MaxActions = 2
CHECK_DEADLOCK FALSE
INVARIANTS ActionsInv 
PROPERTIES GreeterOnReadyX XephyrEnds QuitsForLastAction EndOfActionQuits
