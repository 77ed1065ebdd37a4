-------------------------- MODULE EntranceWallpaper --------------------------
(***************************************************************************)
(* The list of users and the wallpaper of the greeter (entrance_gui.c,     *)
(* entrance_fill.c), over the login form. A user who is selected in the    *)
(* list brings a wallpaper: the own one, a random one, the configured one  *)
(* or the default. The settings, the users and the pool of random images   *)
(* come in three messages, in this order, and again whenever the daemon    *)
(* writes its lists to all greeters.                                       *)
(***************************************************************************)
EXTENDS EntranceLoginForm, FiniteSets

CONSTANTS
  NoImage,      \* a path that is NULL
  DefaultImage, \* the background of the default theme
  Own,          \* the background of each user in users.conf, or NoImage
  UserPool,     \* the images in the directory of each user
  SystemPool,   \* the images in the directory of the system
  ConfImages    \* what "background_path" of entrance.conf may be, NoImage perhaps

ASSUME WallpaperAssumption ==
  /\ DOMAIN Own = Users /\ DOMAIN UserPool = Users
  /\ DefaultImage # NoImage
  /\ NoImage \notin SystemPool /\ \A u \in Users : NoImage \notin UserPool[u]

VARIABLES
  conf,      \* entrance_config->bg of the daemon
  wallpaper, \* _gui->bg.path, which _entrance_gui_update shows
  confImage, \* _gui->conf_bg.path
  random,    \* _gui->conf_bg.random
  pool,      \* _gui->background_pool
  copies,    \* how often the users were put into the list
  selected,  \* the selected item of the list: its copy and its user, or NoItem
  early      \* it was selected before the pool came

wallVars == <<conf, wallpaper, confImage, random, pool, copies, selected, early>>
allVars == <<vars, wallVars>>

NoItem == <<0, NoName>>

WallInit ==
  /\ FormInit
  /\ conf \in [image : ConfImages, random : BOOLEAN]
  /\ wallpaper = NoImage /\ confImage = NoImage /\ random = FALSE
  /\ pool = {} /\ copies = 0
  /\ selected = NoItem /\ early = FALSE

-----------------------------------------------------------------------------

\* _entrance_gui_background_random_get: one of both pools, or none.
RandomGet(u) == UserPool[u] \cup pool

\* _entrance_gui_update: the default is shown, and remembered, for NULL.
Shown(path) == IF path = NoImage THEN DefaultImage ELSE path

\* What _entrance_gui_user_sel_cb takes, as it is shown.
Background_ConfFirst(u) ==
  IF Own[u] # NoImage THEN {Own[u]}
  ELSE IF confImage # NoImage THEN {confImage}
  ELSE IF random /\ RandomGet(u) # {} THEN RandomGet(u)
  ELSE {DefaultImage}

Background(u) ==
  IF Own[u] # NoImage THEN {Own[u]}
  ELSE IF random /\ RandomGet(u) # {} THEN RandomGet(u)
  ELSE {Shown(confImage)}

\* The toolkit calls it for an item only if it was not selected before.
Select(item) ==
  /\ selected' = item
  /\ IF item = selected THEN UNCHANGED <<wallpaper, early>>
     ELSE wallpaper' \in Background(item[2]) /\ early' = ("pools" \notin seen)

\* entrance_gui_conf_set: a configured image is shown and remembered, unless it
\* is the one that is shown.
ConfSet ==
  /\ random' = conf.random
  /\ confImage' = IF conf.image \notin {NoImage, wallpaper} THEN conf.image ELSE confImage
  /\ wallpaper' = Shown(IF conf.image # NoImage THEN conf.image ELSE wallpaper)
  /\ UNCHANGED <<conf, pool, copies, selected, early>>

\* _entrance_fill_gengrid: the users are appended to the list, never emptied.
FillGengrid == copies' = copies + 1

\* _entrance_gui_users_populate: the first item of the list may be selected.
UsersPopulate ==
  /\ FillGengrid
  /\ IF SelectsUser THEN Select(<<1, FirstUser>>) ELSE UNCHANGED <<wallpaper, selected, early>>
  /\ UNCHANGED <<conf, confImage, random, pool>>

PoolsSet ==
  /\ pool' = SystemPool
  /\ UNCHANGED <<conf, wallpaper, confImage, random, copies, selected, early>>

HearLists ==
  /\ Hear
  /\ \/ Head(inbox) = "xsessions" /\ UNCHANGED wallVars
     \/ Head(inbox) = "conf_gui" /\ ConfSet
     \/ Head(inbox) = "users" /\ UsersPopulate
     \/ Head(inbox) = "pools" /\ PoolsSet

\* The user clicks an item that is not selected.
PickItem(item) ==
  /\ item # selected
  /\ Pick(item[2])
  /\ Select(item)
  /\ UNCHANGED <<conf, confImage, random, pool, copies>>

-----------------------------------------------------------------------------

\* The rest of the form leaves the list of users and the wallpaper alone.
FormStep ==
  /\ \/ ListsAgain \/ WriteTimer \/ TypePassword \/ Press \/ Denied
     \/ \E n \in Names \cup {NoName} : Type(n)
     \/ \E w \in {"login", "password", "menu"} : Leave(w) \/ Go(w)
     \/ \E s \in Listed : Choose(s)
  /\ UNCHANGED wallVars

WallNext ==
  \/ HearLists
  \/ \E item \in (1 .. copies) \X Users : PickItem(item)
  \/ FormStep

WallSpec == WallInit /\ [][WallNext]_allVars

-----------------------------------------------------------------------------

\* The order of README.md:129, from the configuration, with a pool of images.
Documented(u, images) ==
  CASE Own[u] # NoImage -> {Own[u]}
    [] Own[u] = NoImage /\ CustomConf /\ conf.random /\ UserPool[u] \cup images # {} ->
         UserPool[u] \cup images
    [] OTHER -> {IF CustomConf /\ conf.image # NoImage THEN conf.image ELSE DefaultImage}

\* The wallpaper is the one documented for the selected user: without the
\* system's images, if the selection was made before they came, and except that
\* lists that come again put the configured image over it.
WallpaperOfUser ==
  selected # NoItem =>
    \/ wallpaper \in Documented(selected[2], IF early THEN {} ELSE SystemPool)
    \/ lists > 1 /\ CustomConf /\ wallpaper = conf.image

\* What keeps it: the types, the settings and pools are those that were heard,
\* and the list holds the selected item.
WallInv ==
  /\ FormInv
  /\ wallpaper # NoImage <=> "conf_gui" \in seen \/ selected # NoItem
  /\ "conf_gui" \in seen => random = conf.random
  /\ pool = IF "pools" \in seen THEN SystemPool ELSE {}
  /\ copies \in 0 .. lists
  /\ selected = NoItem \/ selected \in (1 .. copies) \X Users
  /\ "users" \in seen /\ ~early /\ selected # NoItem => "pools" \in seen
=============================================================================
