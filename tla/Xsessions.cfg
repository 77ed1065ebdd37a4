SPECIFICATION XsessionsSpec
CONSTANTS
  gnome = gnome
  GNOME = GNOME
  sway = sway
  NoCommand = NoCommand
  NoSession = NoSession
  Sessions = {gnome, GNOME, sway}
  Key <- MCKey
  Commands = {c1, c2}
  MaxFiles = 3
CHECK_DEADLOCK FALSE
INVARIANTS XsessionsInv RunsOneFile
