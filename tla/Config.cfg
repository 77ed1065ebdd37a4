SPECIFICATION ConfigSpec
CONSTANTS
  Pids = {p1, p2, p3}
  NoFile = NoFile
  NoPid = NoPid
  Serial = TRUE
  Texts = {t1, t2}
  Broken = Broken
  NoText = NoText
  Missing = Missing
  Damaged = Damaged
  Defaults = Defaults
  NoConfig = NoConfig
SYMMETRY Symmetry
CHECK_DEADLOCK FALSE
INVARIANTS OneDaemon ConfigInv
PROPERTIES RefusedByDaemon StartsAsConfigured
