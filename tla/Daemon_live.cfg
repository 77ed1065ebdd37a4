SPECIFICATION FairSpec
CONSTANTS
  SeatCount = 2
  Xephyr = FALSE
  AutoLogin = FALSE
  PatientGreeter = TRUE
  MaxQueue = 2
  MaxFaults = 0
  MaxLost = 1
CHECK_DEADLOCK FALSE
PROPERTIES SignalStops SeatsGreet
