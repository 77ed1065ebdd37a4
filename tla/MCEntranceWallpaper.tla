------------------------ MODULE MCEntranceWallpaper --------------------------
(* Small instances of EntranceWallpaper for TLC: three listed users, one    *)
(* with a directory of images, one with a background of his own and a       *)
(* session that is no longer installed, one with nothing, and a stranger.   *)
EXTENDS EntranceWallpaper, TLC

CONSTANTS alice, bob, carol, X, W, Gone, owned, mine, shared

MCDesktops == <<X, W>>
MCRemembered == alice :> W @@ bob :> Gone @@ carol :> X
MCOwn == alice :> NoImage @@ bob :> owned @@ carol :> NoImage
MCUserPool == alice :> {mine} @@ bob :> {} @@ carol :> {}
=============================================================================
