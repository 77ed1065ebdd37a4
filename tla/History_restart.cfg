SPECIFICATION HistorySpec
CONSTANTS
  alice = alice
  bob = bob
  root = root
  X = X
  W = W
  NoSession = NoSession
  Logins = {alice, bob, root}
  Passwd <- MCPasswd
  Sessions = {X, W}
  LoginSessions = {X, W}
  Confs <- MCConfs
  MaxTime = 3
  Careful = TRUE
CHECK_DEADLOCK FALSE
INVARIANT HistoryInv
PROPERTIES RestartOffersLast 
