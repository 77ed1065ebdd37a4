SPECIFICATION WallSpec
CONSTANTS
  alice = alice
  bob = bob
  carol = carol
  X = X
  W = W
  Gone = Gone
  NoName = NoName
  NoSession = NoSession
  Users = {alice, bob, carol}
  FirstUser = alice
  Names = {alice, bob, carol, stranger}
  Desktops <- MCDesktops
  Remembered <- MCRemembered
  XSessionsOn = TRUE
  CustomConf = TRUE
  Autoselect = TRUE
  ReqPasswd = TRUE
  OtherSeats = TRUE
  MaxLists = 2
  owned = owned
  mine = mine
  shared = shared
  NoImage = NoImage
  DefaultImage = DefaultImage
  Own <- MCOwn
  UserPool <- MCUserPool
  SystemPool = {shared}
  ConfImages = {configured, NoImage}
CHECK_DEADLOCK FALSE
INVARIANTS SessionOfName WallpaperOfUser WallInv
PROPERTIES ChoiceKept
