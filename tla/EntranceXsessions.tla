------------------------- MODULE EntranceXsessions --------------------------
(***************************************************************************)
(* The list of desktop sessions (src/daemon/entrance_session.c). At start  *)
(* the daemon reads the .desktop files of three directories, one after the *)
(* other, into one sorted list of names. A login names a session, and the  *)
(* daemon looks up the command to run and whether it is a Wayland session; *)
(* for a name that is not in the list it falls back to the user's startup  *)
(* script.                                                                 *)
(***************************************************************************)
EXTENDS Naturals, Sequences

CONSTANTS
  Sessions,   \* names of sessions
  Key,        \* the place of a name in the order of strcasecmp
  Commands,   \* commands of desktop files
  NoCommand,  \* the desktop file's command cannot be run here
  NoSession,  \* the login names no session
  MaxFiles    \* bound on the number of desktop files

\* The directories in the order they are read.
Dirs == <<"Sessions", "xsessions", "wayland-sessions">>

File == [dir : DOMAIN Dirs, name : Sessions, command : Commands \cup {NoCommand}]
Xsession == [name : Sessions, command : Commands, wayland : BOOLEAN]

\* The startup scripts of the user, and that of the system.
Scripts == {".xinitrc", ".Xsession", "/etc/X11/xinit/xinitrc"}
Programs == Commands \cup Scripts

ASSUME XsessionsAssumption ==
  /\ Key \in [Sessions -> Nat]
  /\ Commands \cap Scripts = {}
  /\ NoCommand \notin Programs
  /\ NoSession \notin Sessions
  /\ MaxFiles \in Nat

VARIABLES
  files,     \* the desktop files, in the order ecore_file_ls gives them
  next,      \* the file that is read next
  xsessions, \* _xsessions
  usable,    \* the scripts that exist and may be executed
  runs       \* what the last login started, or <<>>

vars == <<files, next, xsessions, usable, runs>>

XsessionsTypeOK ==
  /\ files \in Seq(File)
  /\ next \in 1 .. Len(files) + 1
  /\ xsessions \in Seq(Xsession)
  /\ usable \subseteq Scripts
  /\ runs \in {<<>>} \cup [session : Sessions \cup {NoSession},
                           command : Programs \cup {NoCommand}, wayland : BOOLEAN]

\* Any files, the directories in order.
XsessionsInit ==
  /\ files \in UNION {[1 .. n -> File] : n \in 0 .. MaxFiles}
  /\ \A i, j \in DOMAIN files : i < j => files[i].dir <= files[j].dir
  /\ next = 1
  /\ xsessions = <<>>
  /\ usable \in SUBSET Scripts
  /\ runs = <<>>

-----------------------------------------------------------------------------

\* _entrance_session_desktops_scan_file: a name that is in the list is skipped.
InList_Never(list, n) == FALSE
InList(list, n) == \E i \in DOMAIN list : list[i].name = n

IsWayland_Never(f) == FALSE
IsWayland(f) == Dirs[f.dir] = "wayland-sessions"

Added(f) == [name |-> f.name, command |-> f.command, wayland |-> IsWayland(f)]

\* eina_list_sorted_insert with strcasecmp: before or after those of the same key.
InsertAt(list, k, x) ==
  /\ \A i \in 1 .. k : Key[list[i].name] <= Key[x.name]
  /\ \A i \in k + 1 .. Len(list) : Key[x.name] <= Key[list[i].name]

Inserted(list, k, x) ==
  [i \in 1 .. Len(list) + 1 |->
     IF i <= k THEN list[i] ELSE IF i = k + 1 THEN x ELSE list[i - 1]]

\* One file of _entrance_session_desktops_scan.
ScanFile ==
  /\ next <= Len(files)
  /\ next' = next + 1
  /\ LET f == files[next] IN
     IF InList(xsessions, f.name) \/ f.command = NoCommand
     THEN UNCHANGED xsessions
     ELSE \E k \in 0 .. Len(xsessions) :
            /\ InsertAt(xsessions, k, Added(f))
            /\ xsessions' = Inserted(xsessions, k, Added(f))
  /\ UNCHANGED <<files, usable, runs>>

-----------------------------------------------------------------------------

\* _entrance_session_find_command: the first script that can be used.
Fallback ==
  IF ".xinitrc" \in usable THEN ".xinitrc"
  ELSE IF ".Xsession" \in usable THEN ".Xsession"
  ELSE IF usable # {} THEN "/etc/X11/xinit/xinitrc"
  ELSE NoCommand

\* ... and before that the command of the session.
Named(s) == {i \in DOMAIN xsessions : xsessions[i].name = s}
FindCommand(s) ==
  IF Named(s) = {} THEN Fallback ELSE xsessions[CHOOSE i \in Named(s) : TRUE].command

\* _entrance_session_is_wayland.
RunsWayland(s) == \E i \in Named(s) : xsessions[i].wayland

\* entrance_session_login of an authenticated user. Nothing runs without a
\* command, though the server answers "granted" (entrance_server.c).
Login(s) ==
  /\ next > Len(files)
  /\ runs' = [session |-> s, command |-> FindCommand(s), wayland |-> RunsWayland(s)]
  /\ UNCHANGED <<files, next, xsessions, usable>>

\* A script is installed or removed.
ScriptChange(x) ==
  /\ next > Len(files)
  /\ usable' = IF x \in usable THEN usable \ {x} ELSE usable \cup {x}
  /\ UNCHANGED <<files, next, xsessions, runs>>

XsessionsNext ==
  \/ ScanFile
  \/ \E s \in Sessions \cup {NoSession} : Login(s)
  \/ \E x \in Scripts : ScriptChange(x)

XsessionsSpec == XsessionsInit /\ [][XsessionsNext]_vars

-----------------------------------------------------------------------------

\* The menu of the greeter is sorted without regard to case and has every name
\* once: the scan compares exact names and the sort folds case.
MenuInOrder ==
  \A i, j \in DOMAIN xsessions :
    i < j => /\ Key[xsessions[i].name] <= Key[xsessions[j].name]
             /\ xsessions[i].name # xsessions[j].name

\* The entry of a name is that of the first file whose command can be run; a
\* file that cannot be run hides none of a later directory.
Usable(f) == f.command # NoCommand
FirstUsable ==
  \A i \in 1 .. next - 1 :
    Usable(files[i]) /\ (\A j \in 1 .. i - 1 : Usable(files[j]) => files[j].name # files[i].name)
      => \E k \in DOMAIN xsessions : xsessions[k] = Added(files[i])

\* ... and nothing else is offered.
OnlyFromFiles ==
  \A k \in DOMAIN xsessions :
    \E i \in 1 .. next - 1 : Usable(files[i]) /\ xsessions[k] = Added(files[i])

\* ... and everything that can be run is.
AllOffered ==
  \A i \in 1 .. next - 1 : Usable(files[i]) => InList(xsessions, files[i].name)

\* What makes the properties of the menu inductive.
XsessionsInv == XsessionsTypeOK /\ MenuInOrder /\ FirstUsable /\ OnlyFromFiles /\ AllOffered

\* What a login starts belongs together: the command and the session type are
\* of one desktop file, the one that the menu showed, and a script of the user
\* is never run as a Wayland session.
RunsOneFile ==
  runs # <<>> =>
    \/ \E i \in DOMAIN files :
         /\ files[i].name = runs.session /\ files[i].command = runs.command
         /\ runs.wayland <=> Dirs[files[i].dir] = "wayland-sessions"
    \/ /\ ~runs.wayland /\ runs.command \notin Commands
       /\ \A i \in DOMAIN files : files[i].name = runs.session => ~Usable(files[i])
=============================================================================
