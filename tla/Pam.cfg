SPECIFICATION PamSpec
CONSTANTS
  Attempts = {a1, a2, a3}
  Users = {ann, bob}
  Expired = {bob}
  AutoLogin = TRUE
  NoHandle = NoHandle
  MaxFaults = 1
CHECK_DEADLOCK FALSE
INVARIANTS PamInv HandleDiscipline CleanHandOver RunsAsAuthenticated
