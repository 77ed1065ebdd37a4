SPECIFICATION ProtocolFairSpec
CONSTANTS
  Seats = {s1}
  MaxGreeters = 3
  MaxSubmits = 3
  Patient = TRUE
CHECK_DEADLOCK FALSE
INVARIANTS ProtocolTypeOK
PROPERTIES OwnAnswer OwnExit  LoginsAnswered GreetersLeave NoOrphans
