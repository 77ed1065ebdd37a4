SPECIFICATION ProtocolSpec
CONSTANTS
  Seats = {s1, s2}
  MaxGreeters = 1
  MaxSubmits = 1
  Patient = TRUE
CHECK_DEADLOCK FALSE
PROPERTIES OwnExit
