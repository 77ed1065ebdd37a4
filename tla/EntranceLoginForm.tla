------------------------- MODULE EntranceLoginForm --------------------------
(***************************************************************************)
(* The login form of the greeter (src/bin/entrance_login.c, with the lists *)
(* and settings of entrance_gui.c). The user types a name, or takes one of *)
(* the list of users, may choose a session from the menu, types a password *)
(* and presses the button. Meanwhile the form looks up the session of the  *)
(* typed name half a second after the last key and when the entry loses    *)
(* the focus, and the lists of the daemon come in.                         *)
(***************************************************************************)
EXTENDS Naturals, Sequences

CONSTANTS
  Users,       \* the users of the list
  FirstUser,   \* the first of them
  Names,       \* what may be typed as a name
  NoName,      \* an empty entry
  Desktops,    \* the list of sessions, in order
  NoSession,   \* NULL
  Remembered,  \* the session of each user, perhaps not in the list any more
  XSessionsOn, \* entrance.conf "xsessions": the list of sessions is sent
  CustomConf,  \* entrance.conf "custom_conf": the settings are sent
  Autoselect,  \* entrance.conf "autoselect_last_user"
  ReqPasswd,   \* entrance.conf "require_password"
  OtherSeats,  \* other greeters connect, and the lists are sent to all again
  MaxLists     \* bound on how often the lists are sent

Listed == {Desktops[i] : i \in DOMAIN Desktops}

ASSUME FormAssumption ==
  /\ FirstUser \in Users /\ Users \subseteq Names /\ NoName \notin Names
  /\ Desktops \in Seq(Listed) /\ Desktops # <<>> /\ NoSession \notin Listed
  /\ DOMAIN Remembered = Users
  /\ MaxLists \in Nat \ {0}

VARIABLES
  inbox,   \* messages of the daemon that are not yet read
  lists,   \* how often the lists were sent
  seen,    \* the kinds of messages that were read
  login,   \* the text of the name entry
  focus,   \* the widget with the focus
  timer,   \* _login->write_timer is running
  session, \* _login->session
  typed,   \* the password entry is not empty
  wait,    \* _login->wait
  chosen,  \* the session the user took from the menu since the name was given
  sent     \* the last AUTH message

vars == <<inbox, lists, seen, login, focus, timer, session, typed, wait, chosen, sent>>
edit == <<login, focus, timer, session, typed, wait, chosen>>

NotSent == [login |-> NoName, session |-> NoSession, typed |-> FALSE]

Kinds == {"xsessions", "conf_gui", "users", "pools"}

\* What the daemon sends to a greeter that connects (_entrance_server_add).
Lists == (IF XSessionsOn THEN <<"xsessions">> ELSE <<>>)
           \o (IF CustomConf THEN <<"conf_gui">> ELSE <<>>) \o <<"users", "pools">>

\* Types, and the timer of a name runs only while the name is being typed.
FormInv ==
  /\ inbox \in Seq(Kinds) /\ seen \subseteq Kinds
  /\ lists \in 1 .. MaxLists
  /\ login \in Names \cup {NoName}
  /\ focus \in {"login", "password", "menu"}
  /\ timer \in BOOLEAN /\ (timer => focus = "login")
  /\ session \in Listed \cup {NoSession}
  /\ typed \in BOOLEAN /\ wait \in BOOLEAN
  /\ chosen \in Listed \cup {NoSession}
  /\ sent \in [login : Names \cup {NoName}, session : Listed \cup {NoSession}, typed : BOOLEAN]

FormInit ==
  /\ inbox = Lists /\ lists = 1 /\ seen = {}
  /\ login = NoName /\ focus = "login"
  /\ timer = FALSE /\ session = NoSession
  /\ typed = FALSE /\ wait = FALSE
  /\ chosen = NoSession /\ sent = NotSent

-----------------------------------------------------------------------------

\* What the form goes by: the defaults of entrance_gui_init until CONF_GUI.
SelectsUser == IF "conf_gui" \in seen THEN Autoselect ELSE TRUE
NeedsPassword == IF "conf_gui" \in seen THEN ReqPasswd ELSE FALSE

\* _login_xsession_guess and _entrance_login_session_set: the session of a
\* listed user, if it is in the list, and else the first one.
Default_None(kinds) == NoSession
Default(kinds) == IF "xsessions" \in kinds THEN Desktops[1] ELSE NoSession

Guess(u, kinds) ==
  IF {"users", "xsessions"} \subseteq kinds /\ u \in Users /\ Remembered[u] \in Listed
  THEN Remembered[u] ELSE Default(kinds)

\* _login_login_unfocused_cb, when the focus goes to w and the name is u.
Unfocus_TimerRuns(w, u, kinds) ==
  /\ focus' = w
  /\ session' = Guess(u, kinds)
  /\ UNCHANGED timer

Unfocus(w, u, kinds) ==
  /\ focus' = w
  /\ timer' = FALSE
  /\ session' = Guess(u, kinds)

\* entrance_login_login_set: the name is filled in, the password gets the
\* focus, and the session is that of the name.
LoginSet(u, kinds) ==
  /\ login' = u
  /\ Unfocus("password", u, kinds)
  /\ session' = Guess(u, kinds)
  /\ chosen' = NoSession

\* _entrance_connect_read_cb: entrance_gui_xsessions_set selects the first
\* session, entrance_gui_users_set may select the first user.
Hear ==
  /\ inbox # <<>>
  /\ inbox' = Tail(inbox)
  /\ seen' = seen \cup {Head(inbox)}
  /\ CASE Head(inbox) = "xsessions" ->
            /\ session' = Desktops[1]
            /\ UNCHANGED <<login, focus, timer, chosen>>
       [] Head(inbox) = "users" /\ SelectsUser -> LoginSet(FirstUser, seen')
       [] OTHER -> UNCHANGED <<login, focus, timer, session, chosen>>
  /\ UNCHANGED <<lists, typed, wait, sent>>

\* Another greeter connects, and the daemon writes its lists to all.
ListsAgain ==
  /\ OtherSeats /\ lists < MaxLists
  /\ lists' = lists + 1
  /\ inbox' = inbox \o Lists
  /\ UNCHANGED <<seen, edit, sent>>

-----------------------------------------------------------------------------
(* The user and the timer.                                                 *)

\* _login_login_changed_cb: the timer starts over.
Type(n) ==
  /\ focus = "login" /\ n # login
  /\ login' = n
  /\ timer' = TRUE
  /\ chosen' = NoSession
  /\ UNCHANGED <<inbox, lists, seen, focus, session, typed, wait, sent>>

\* _login_login_timer_cb.
WriteTimer ==
  /\ timer
  /\ timer' = FALSE
  /\ session' = Guess(login, seen)
  /\ UNCHANGED <<inbox, lists, seen, login, focus, typed, wait, chosen, sent>>

Leave(w) ==
  /\ focus = "login" /\ w # "login"
  /\ Unfocus(w, login, seen)
  /\ UNCHANGED <<inbox, lists, seen, login, typed, wait, chosen, sent>>

\* Going back to the name gives up the choice of a session.
Go(w) ==
  /\ focus # "login" /\ w # focus
  /\ focus' = w
  /\ chosen' = IF w = "login" THEN NoSession ELSE chosen
  /\ UNCHANGED <<inbox, lists, seen, login, timer, session, typed, wait, sent>>

\* _entrance_gui_user_sel_cb; which items of the list can be picked, and the
\* wallpaper, are in EntranceWallpaper.
Pick(u) ==
  /\ "users" \in seen
  /\ LoginSet(u, seen)
  /\ UNCHANGED <<inbox, lists, seen, typed, wait, sent>>

\* _login_xsession_clicked_cb. The menu has the focus when an item is taken.
Choose(s) ==
  /\ focus = "menu" /\ "xsessions" \in seen
  /\ session' = s
  /\ chosen' = s
  /\ UNCHANGED <<inbox, lists, seen, login, focus, timer, typed, wait, sent>>

TypePassword ==
  /\ focus = "password" /\ ~typed
  /\ typed' = TRUE
  /\ UNCHANGED <<inbox, lists, seen, login, focus, timer, session, wait, chosen, sent>>

\* _login_check_auth, on the button of the theme or on Enter: the name, the
\* password if it is required, and a session must be there; else only a label
\* changes.
Complete == login # NoName /\ (NeedsPassword => typed) /\ session # NoSession

Press ==
  /\ Complete
  /\ sent' = [login |-> login, session |-> session, typed |-> typed]
  /\ wait' = TRUE
  /\ UNCHANGED <<inbox, lists, seen, login, focus, timer, session, typed, chosen>>

\* _login_auth_cb for a denied login empties the password.
Denied ==
  /\ wait
  /\ wait' = FALSE
  /\ typed' = FALSE
  /\ UNCHANGED <<inbox, lists, seen, login, focus, timer, session, chosen, sent>>

-----------------------------------------------------------------------------

FormNext ==
  \/ Hear \/ ListsAgain \/ WriteTimer \/ TypePassword
  \/ Press \/ Denied
  \/ \E n \in Names \cup {NoName} : Type(n)
  \/ \E w \in {"login", "password", "menu"} : Leave(w) \/ Go(w)
  \/ \E u \in Users : Pick(u)
  \/ \E s \in Listed : Choose(s)

FormSpec == FormInit /\ [][FormNext]_vars

-----------------------------------------------------------------------------

\* The session the user took from the menu stands until the user goes back to
\* the name or lists come in: no timer of an earlier key, no entry left and no
\* denied login takes it away.
ChoiceKept ==
  [][chosen # NoSession /\ chosen' = chosen /\ inbox' = inbox
       => session' \in {session, chosen}]_vars

\* When the name entry is left and all lists are in, the session is that of the
\* name, or the chosen one: nobody is sent to another user's session, and with
\* a list of sessions there is always one, without which nothing can be sent.
SessionOfName ==
  inbox = <<>> /\ focus # "login" /\ chosen = NoSession
    => session = Guess(login, seen) /\ (XSessionsOn => session # NoSession)
=============================================================================
