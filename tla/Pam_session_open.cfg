SPECIFICATION PamSpec
CONSTANTS
  Attempts = {a1, a2, a3}
  Users = {ann, bob}
  Expired = {bob}
  AutoLogin = FALSE
  NoHandle = NoHandle
  MaxFaults = 1
CHECK_DEADLOCK FALSE
INVARIANTS SessionOpenReported
