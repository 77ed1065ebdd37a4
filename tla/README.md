# Verification of Entrance

Entrance is a display manager: a root daemon starts an X server per seat, shows
a login form on it (the greeter, a separate `entrance_client` process), logs the
user in through PAM and runs the desktop session. This directory models that
program in TLA+, checks the models with TLC and proves their invariants with
TLAPS. The reference is the C source under `src/`; paths below are relative to
the repository's `src/src/`.

## 1. The system

| Component | Source | State it keeps | Operations |
|---|---|---|---|
| Supervisor | `daemon/entrance.c` | `_entrance_clients[]` (greeter record per seat: exe, pid, handlers), `_entrance_xserver_pids[]`, `_entrance_signal`, `_entrance_auto_login`, `_entrance_uid` | `main`, `_entrance_start_client`, `_entrance_client_del`, `_entrance_session_wait`, `_entrance_kill_and_wait`, `_signal_cb`, `entrance_client_pid_set` |
| X servers | `daemon/entrance_xserver.c` | one record and one SIGUSR1 handler per seat | `entrance_xserver_start`, `_xserver_started`, shutdown |
| Sessions | `daemon/entrance_session.c` | `_sessions[]` (display, cookie, login, pid), `_xsessions` (desktops) | start, authenticate, login (fork/exec), shutdown, desktop scan |
| PAM | `daemon/entrance_pam.c` | `_pams[]` (handle, password, last result, opened), copied by fork | start, passwd_set, authenticate, item_get/set, env_set, session_open/close, end, shutdown |
| Server | `daemon/entrance_server.c` | connection to each greeter, `_entrance_client` (last one connected) | client add, read (AUTH, ACTION, LOGIN/PID), broadcast, status |
| History | `daemon/entrance_history.c` | last session of every login (`_history`, file) and the list of users (`_lusers`) | read, check, push, write, passwd scan |
| Actions | `daemon/entrance_action.c` | shutdown/reboot/suspend table, `_action_exe` | init, get, run, exe_del, shutdown |
| Configuration | `daemon/entrance_config.c` | `entrance_config`, binary cache file | init (text or cache), defaults, shutdown |
| Lock file | `daemon/entrance.c` 521-596, 641-646 | one file with a pid | get, create, remove |
| Events (wire) | `event/entrance_event.c` | Eet descriptors | encode, decode |
| Greeter, connection | `bin/entrance_client.c`, `bin/entrance_connect.c` | socket, `_connect`/`_auth` flags | read, send, auth, lost |
| Greeter, login form | `bin/entrance_login.c` | selected session, timers, user name | login, guess of the user, session menu |
| Greeter, GUI | `bin/entrance_gui.c`, `entrance_fill.c`, `entrance_system.c` | Elementary widgets, lists of users, sessions, actions | list setters, user selection, power buttons |
| Peripheral | `daemon/entrance_logind.c`, `_keyboard.c`, `_image.c`, `_session_utils.c`; themes, `po`, `utils`, tests | - | - |

How they interact. The supervisor is one thread in the ecore main loop. It is
called back for SIGUSR1 (an X server is ready), for the exit of a greeter, and by
the server for messages. A greeter connects over a local socket, sends `PID` and
later `AUTH`; an accepted `AUTH` runs PAM, forks the session and stores its pid in
`_sessions[id]`; the daemon answers with a `STATUS` broadcast to every greeter,
and a greeter that reads "granted" exits. Its exit wakes `_entrance_client_del`,
which *blocks* until that session is over and then replaces the X server of the
seat; the new server's SIGUSR1 starts the next greeter.

What is hard. One thread blocks in the middle of a handler while sessions, X
servers and other seats go on; a UNIX signal handler runs at any point and
touches the same records; a SIGUSR1 says nothing of its sender; messages of a
greeter may be served after it is gone; the fork duplicates the PAM handle;
several failures are half way through a handler that returns nothing. The exit of
a greeter and the exit of a shutdown command are events of the same kind, and
wait alike while the thread blocks. The lists come to a greeter in several
messages, and again whenever any other greeter connects, while the user types.

What makes each component correct:

* Supervisor: never two greeters on a seat, no exit event lost, the X server of a
  living session is never replaced, a signal stops the daemon, a seat gets its
  greeter back.
* PAM: at most one open handle per seat, credentials only after authentication,
  nothing left open in the process that becomes the desktop.
* Server and greeter: every answer reaches the greeter that asked.
* History: the remembered session of a user is the last one used.
* Lock file: at most one daemon.
* Actions: the daemon leaves its main loop for a shutdown or reboot when that
  command is over, and not for the end of another one.
* Configuration: an instance uses the text in place, or the last good one.
* Login form and lists: the session and the wallpaper are those of the user whose
  name is given or who is selected.

## 2. The modules

| Module | Models | State and actions, against the code |
|---|---|---|
| `EntranceDaemon` | the supervisor: `main`, its handlers, teardown | `client[s]` is `_entrance_clients[s]` (no record, record without exe, exe running / exited / reaped by a signal / left), `recpid` whose pid it holds, `x[s]` the X server, `spid[s]` the process of `_sessions[s]->pid`, `sess[s]` the structure, `queue` the ecore events, `inbox[s]` messages not yet served. One action per handler; `pc` names the places where the one thread blocks (`_entrance_session_wait`, `_entrance_kill_and_wait`, the autologin session), which is where other processes move. `Signal` is `_signal_cb` and may come anywhere |
| `SeatLifecycle` | the promise to a user: dark, greeter, session, ended, dark; the session of the autologin; what a failed call may break | abstract specification, no code |
| `EntranceDaemonLifecycle` | refinement mapping of the two | `Phase` reads the phase off `client`, `spid` and the place where the main thread waits |
| `EntranceActions` | the supervisor with shutdown, reboot and suspend | extends `EntranceDaemon`: `SupervisorStep` is one of its steps; `asked` the ACTION messages, `commands` the processes, `action` is `_action_exe`. `ActionRun` and `ActionExeDel` are the message and the exit handler |
| `EntrancePam` | the PAM record of a seat in the daemon and its copy in every session process | `daemon` and `proc[a]` are `Entrance_Pam` records with the handles the process has not ended. A message handler is one action (`Auth`, `AutoAuth`); the child takes its own steps (`SessionOpen`, `EnvSet`, `BecomeUser`, `SessionClose`, `Exec`), each with the failures the code tests for |
| `EntranceProtocol` | daemon, greeters and their sockets | per greeter one queue in each direction; `Broadcast` is `_entrance_server_write_cb`, which writes to all; `form` is `_login->wait`, `monitor` the five second timer |
| `EntranceHistory` | remembered sessions | `history`, `lusers`, `update` as in the C file; `conf` and `cache` the two files with the second of their last change; `Start`, `Login`, `Stop` and the crash |
| `EntranceLockFile` | instances of the daemon and the lock | `_entrance_lock_get` in its separate steps (read, check, open, write) of several processes; pids are used again |
| `EntranceConfig` | a start from the configuration to the lock | extends `EntranceLockFile`: `entrance_config_init` in its steps (stamps, text, write, cache) before the lock's; `conf` and `cache` the files, `newer` what `stat` says of them; edits and crashes between any two steps |
| `EntranceXsessions` | the list of desktops and the lookup of a login | `ScanFile` inserts one file as `eina_list_sorted_insert` may (any place among equal keys); `Login` looks up command and type |
| `EntranceLoginForm` | the form of the greeter | the entries, the focus, the 0.5 s timer, the menu, the lists as they come in, one action per callback |
| `EntranceWallpaper` | the list of users and the wallpaper, over the form | extends `EntranceLoginForm`: `HearLists` adds to a message what `entrance_gui.c` does with it (settings, list of users, pools), `PickItem` is a click in the list; `wallpaper`, `confImage`, `random`, `pool` are fields of `_gui` |

Modules ending in `Proofs` hold the theorems of the module they extend
(`EntranceConfigProofs` and `EntranceWallpaperProofs` also those of the module below it); those
starting with `MC` give TLC its values. A definition whose name has a suffix
(`WaitOver_AtOnce`) is a mutant: a plausible mistake in the definition without
the suffix, used nowhere in the specification, which the named run must refute.

How they compose. Each component has its own specification, with the part of
its neighbours that it can tell apart as environment. `EntranceDaemon` sees a
login as `Auth(s, started)`; what makes `started` true is `EntrancePam` and
`EntranceXsessions`. Where two components act on each other, one module extends
the other and its steps carry both: actions over the supervisor, the
configuration over the lock, the lists over the form. `EntranceProtocol` sees the supervisor as `StartGreeter` and
`SeatRestart`. What one assumes of another is in section 5.

## 3. Runs

Twelve runs; each answers a question of its own. Constants `Xephyr` and
`AutoLogin` mean "may be": with TRUE the run covers both ways.

| Run | Checks | Bounds, and why they are enough |
|---|---|---|
| `seats` | `DaemonInv`, `OneGreeter`, `ExitsMatch`, `NoSessionLosesItsX`, `CrashOnlyWhenStopped`, `GreeterHasUser`, `SessionOnGreetedSeat`, `ImplementsLifecycle` | two seats: all interference in the code is of one seat with another; one failing call, which is enough for `kill(-1)`: the X server that could not be forked at the start is killed when its seat's greeter exits; `MaxQueue = 2` only limits unserved SIGUSR1s, which are alike |
| `one_seat` | `GreeterOnReadyX`, `DoubleFreeNeedsSignal`, `XephyrEnds`, `ActionsInv`, `QuitsForLastAction`, `EndOfActionQuits` | one seat with actions, with or without Xephyr, greeters that may log in again, one failure, at most one forgotten session; `MaxActions = 2`: a command and one that overlaps it or follows it, of the same kind or not |
| `live` | `SignalStops`, `SeatsGreet` | two seats, no failure: an X server that never comes up stays so |
| `other_seat` | violates `GreeterOnReadyX` | the same property with two seats |
| `protocol` | `ProtocolTypeOK`, `OwnAnswer`, `OwnExit`, `SessionForGreeter`, `LoginsAnswered`, `GreetersLeave`, `NoOrphans` | one seat, three greeters in succession whose connections may overlap, three logins each |
| `protocol_two_seats` | violates `OwnExit` | two seats, one greeter and one login each |
| `pam` | `PamInv`, `HandleDiscipline`, `CleanHandOver`, `RunsAsAuthenticated` | three attempts (one whose record is left over, one that replaces it, one that meets the result), two users of whom one has an expired account, one failing attempt |
| `pam_session_open` | violates `SessionOpenReported` | the same |
| `config_and_lock` | `OneDaemon`, `RefusedByDaemon`, `ConfigInv`, `StartsAsConfigured` | three pids: the running daemon, the starting one and another program; two texts, so that an edit can be told from the text before it, and a broken, a missing and a removed one; pids and texts are symmetric |
| `history_restart` | `HistoryInv`, `RestartOffersLast`, `EditsImported` | three users, one not in the list of users; four seconds, so that an edit can be before, between and after two cache writes |
| `xsessions` | `XsessionsInv`, `RunsOneFile` | three files over three directories, two names that differ in case only |
| `form_and_wallpaper` | `SessionOfName`, `ChoiceKept`, `WallpaperOfUser`, `WallInv` | three listed users (one with images of his own, one with a background of his own and a session not installed any more, one with nothing) and a stranger; the configured image set or not, random on or off; lists that come twice (`MaxLists = 2`): a third time finds what the second did |

Deadlock is not checked: the daemon stops, bounded attempts run out, and a
machine where nothing happens is legal.

### Fairness

* `EntranceDaemon!Fairness`: the main thread goes on (`WF(Daemon)`), the loop
  serves its events (`WF` of SIGUSR1 and exit handlers; ecore serves its queue in
  order), and an X server that was started reports ready. Users, sessions and
  signals owe nothing; `SeatsGreet` and `XephyrEnds` name the end of sessions as
  their hypothesis, since `_entrance_session_wait` does wait for ever.
* `EntranceActions!ActionsFairSpec` (run `one_seat`): besides, `SF` of the exit
  handlers of commands and of the end of the main loop. Strong, because both are
  disabled while a handler blocks, for as long as a session lasts; justified, since
  ecore serves its queue in order and looks at the quit flag after every round.
  That commands end is not assumed.
* `EntranceProtocol!ProtocolFairSpec`: both main loops read their sockets and run
  their timers. No fairness of users, of restarts or of the daemon's death.

## 4. What is proved

Every safety invariant, every action property and the refinement (`ImplementsLifecycle`)
that the passing runs check is a
theorem, for all values of the constants that their assumptions allow and without
a bound; a hypothesis beyond those is named here with what it is for.

### Supervisor (`EntranceDaemonProofs`)

`Invariance`: `DaemonInv` holds for any number of seats and failures. From it
`GreeterUnique`, `ExitsAreMatched`, `RestartIsLast`, `TypeCorrect`. `OneGreeter`
alone is not inductive: that an exit leaves no second process needs that each
queued exit belongs to the record that waits for it (`ExitsMatch`), and that no
handler starts a greeter on the seat whose session is being waited for needs that
its record stays without exe while `pc` is in the wait (last conjunct).

Each further theorem has an invariant of its own on top:

| Theorem | Needs | What makes it inductive |
|---|---|---|
| `SessionsKeepTheirX`, `SessionsAreGreeted` | `PatientGreeter` | `PatientInv`: a greeter that is gone has left nothing in its socket, and no login waits beside a session of its seat; before the loop turns not even a pid was read, since the autologin's session comes before any greeter's |
| `SurvivesService` | `PatientGreeter`, `~Xephyr` | `ServiceInv`: while no call failed and no signal came, no handler is left over, every X server has a process, and only the record that is being worked on has no exe |
| `GreetersHaveUser` | `~Xephyr` | `UserInv`: until the user is known no greeter was ever started, the daemon being before its seats or in its autologin |
| `DoubleFrees` | - | is inductive over `DaemonInv` |
| `GreetersOnReadyX` | `SeatCount = 1`, `~AutoLogin` | `OneSeatInv`: restarts of the X server and SIGUSR1s alternate; a waiting SIGUSR1 is the only one, and the server it came from was not replaced. With a second seat the property fails (run `other_seat`) |
| `SeatsLive` | `PatientGreeter` | the refinement of `SeatLifecycle`, for any number of seats and failures: every step maps to a step of the lifecycle or to none (`LifeStep`). `PhaseInv`: in a daemon not told to stop a seat without greeter has neither session nor pid of one, but where a handler works on it or `main` waits for the autologin, and an X server without process or a greeter that was reaped had a failed call before. A start of greeters is one abstract step of all seats it touches (`GreetStep`), and so is a restart with `kill(-1)`, which may end the sessions of other seats: `Darken` allows that after a failure only |

### Actions (`EntranceActionsProofs`)

`DaemonInvariance`: the supervisor's invariant survives requests, commands and
their ends at any moment, by `StepInv` for the supervisor's own steps.
`ActionsInvariance`: the remembered command is the last one run.
`QuitsOnlyForLast` follows with `QuitCause`: by itself the supervisor quits only
for a signal, under Xephyr, or after a failing call. `ActionsDoubleFree` and
`ActionsOnReadyX` carry two of the theorems above over, by the same step lemmas
and `ActionSteps`: an action leaves the seats and the queue alone.

### PAM (`EntrancePamProofs`)

`PamInvariance`, and from it `HandlesAreDisciplined` and `OnlyAuthenticatedRun`.
The strengthening: each process knows no handle or one it has not ended, which
makes `PamEnd` twice harmless; and only attempts that were tried have a process,
so that a new message never changes what a running process was authenticated
with. `HandsOverClean` adds which steps a session process has behind it at each
of its places (`CleanAt`), and that a failure is charged to its own attempt. The
lemmas `EndTidy`, `StartTidy`, `CallSound` say what the C functions do to a
record; each step of the proof only composes them.

### Protocol (`EntranceProtocolProofs`)

`ProtocolTyped`, for any number of seats and users who do not wait. The types
alone are not inductive: that nothing is written to a greeter that is not there
needs that such a greeter has said nothing (`Unsaid`).

`AnswersAreOwn`, `ExitsAreOwn` and `SessionsAreAskedFor` are for one seat
(`OneSeat`) and users who wait (`Patient`), with any number of greeters and
logins; with two seats `protocol_two_seats` refutes the second. Their common
invariant is `TalkInv`: a greeter that is up stands in one of five places of its
talk (`Talks`), with at most one login or answer on its way; greeters take turns
(`InTurn`) and leave nothing behind in the socket (`Silent`), so that whatever
is broadcast is for the one that is up; and a session on the seat belongs to a
greeter that has left or is told to (`SessionsOwned`), so that the seat is free
when a login arrives.

### Form and wallpaper (`EntranceWallpaperProofs`)

`FormTyped`, `ChoicesKept` and `SessionsOfNames` are about the form alone,
`WallHolds` and `WallpapersOfUsers` about the form with its lists, and
`WallImplementsForm` makes the first three hold of both. `ChoicesKept` needs
that nothing is chosen while the focus is on the name (`ChoiceInv`).
The others need to know which messages are still to come: `StreamInv` gives the
place in the rounds of lists from what is left in the socket, for any number of
rounds; `WallpapersOfUsers` adds that the settings are the ones heard
(`SettingsInv`).

`SessionsOfNames` has the hypothesis `CustomConf => Autoselect`. Without it the
property is false, and TLC shows it with `Autoselect = FALSE`: a user who types
a listed name and goes on to the password before the list of users came keeps
the first session of the menu, since only the selection of a user in the list
looks again.

### History (`EntranceHistoryProofs`)

`HistoryInvariance`: one entry per login in memory and on file. `RestartOffers`:
if every login names a session, a clean restart offers every listed user the
session known at the stop; its invariant is `Kept`, that memory and file agree
where nothing is marked for writing. `EditsAreImported`: a start after an edit of
`users.conf` reads the edit, if it is edited only while no daemon runs
(`Careful`).

### Lock and configuration (`EntranceConfigProofs`)

`LockInvariance`, `AtMostOneDaemon`, `RefusedOnlyByDaemon` for instances started
one at a time (`Serial`). The strengthening says what an instance past its check
may rely on: what it read is what the file has, and nobody runs.
`ImplementsLock`: a start with its configuration implements `LockSpec`, so these
theorems hold of it. `ConfigInvariance` and, from it, `Configured`. Here the
strengthening relates what an instance is about to read to both files: the cache
is the last good text, and it is the text in place unless the stamps say
otherwise (`Cached`, `Phases`).

### Desktops (`EntranceXsessionsProofs`)

`XsessionsInvariance`: the list is sorted without regard to case, has each name
once, and has for each name the first file that can be run. `LoginRunsOneFile`:
command and type that a login runs are of one file. Sortedness of an insert is a
lemma about sequences.

### Model-checked only

What is temporal: `SignalStops`, `SeatsGreet`, `XephyrEnds`, `EndOfActionQuits`,
`LoginsAnswered`, `GreetersLeave`, `NoOrphans`. Liveness under fairness is out of
the prover's reach.

## 5. Assumptions to know of

* `PatientGreeter` (run `seats`, `live`): a greeter logs in once and waits for
  the answer. The form does not see to that: `_login_check_auth` does not look at
  `_login->wait`, and an answer may be somebody else's. `EntranceProtocol` shows
  it for one seat and users who wait; with impatient users
  `NoSessionLosesItsX` and `OwnAnswer` do not hold.
* `Serial` (lock): the init system does not start two instances at once, and
  starts them by the installed path, which the check compares.
* Configuration: all texts name one lock file; whoever edits its path while a
  daemon runs can start a second one. Nobody removes the cache while an instance
  starts. Stamps count whole seconds: an edit in the second of the compilation, or
  a copy that keeps an older time, is not seen (`missed`, which
  `StartsAsConfigured` excepts), and so is a cache that a crash left half written.
* Actions: a greeter sends what its user clicks, in any number up to the bound.
  `QuitsForLastAction` is about runs without failing calls; `EndOfActionQuits`
  excepts them, as a `kill(-1)` after a failed fork takes the exit status of a
  command with it.
* `Careful` (history): `users.conf` is edited while no daemon runs and not in the
  second in which the cache was written; its text parses.
* Messages are whole and in order per greeter; one Eet connection reassembles
  the bytes of all of them, which is left out.
* `AutoLogin` may fail at its lock file; `GreeterHasUser` is about machines where
  no call failed.
* `ChoiceKept` excepts the arrival of lists: another seat's greeter that connects
  makes the daemon send all lists to all greeters, and that resets the choice.
  `WallpaperOfUser` excepts it too: the configured image then covers the selected
  user's.

## 6. Where code and documents disagree

Shown by a violated run:

* `other_seat`: SIGUSR1 of one X server starts the greeters of all seats, also
  where the server is not ready (`entrance_xserver.c:118`; `entrance_xserver.h:23`).
* `protocol_two_seats`: a login on one seat ends the greeter of the other
  (`entrance_server.c:158`, `entrance_connect.c:74`; `README.md:52` and `:243`).
* `pam_session_open`: a refused `pam_open_session` is reported as success
  (`entrance_pam.c:130`; `entrance_pam.h:148`).

Met while modelling, without a run of their own:

* `entrance_session.c:494` returns TRUE when the fork of the session failed
  (`entrance_session.h:58` says FALSE).
* `entrance_history.c:181` never gives a session to an entry without one
  (`entrance_history.h:5`); `users.conf` edited during a run is ignored for good
  (`entrance_history.c:87`, `README.md:41`); the first user of the list is the first of
  the password file, not the last logged-in one (`entrance_gui.c:422`).
* Two instances started at once after a crash both take over the lock
  (`entrance.c:590`).
* With a custom configuration that does not select users, a name typed and left
  before the list of users came keeps the first session of the menu
  (`entrance_login.c`, section 4).
* With `xsessions = 0` the form never sends (`entrance_server.c:33`,
  `entrance.conf.in:44`); without `custom_conf` it does not ask for a password and
  selects the first user whatever is configured (`entrance_gui.c:104-106`,
  `entrance.conf.in:57` and `:60`).
* A suspend, or a shutdown whose command cannot be started, forgets the command of
  an earlier shutdown, whose end then does not stop the daemon
  (`entrance_action.c:112`).
* A cache that a crash left half written makes every start use the built-in
  defaults until the text is edited; the warning says this "should not happen"
  (`entrance_config.c:116`).
* Each time the lists come again, the users and actions are appended to those in
  the list (`entrance_fill.c:112`), and the configured image covers the wallpaper
  of the selected user.
* The user selected as the lists arrive cannot get an image of the system, as the
  pools come after the users (`entrance_server.c:57`; `README.md:144`).
* Random icons are drawn each time an item is shown, not "only once per login
  session" (`README.md:155`): the path that would keep the first one is read only
  where it is set already (`entrance_gui.c:785`).

## 7. Not modelled

`entrance_logind.c`, `entrance_keyboard.c`, `entrance_image.c`,
`entrance_system.c`: queries and calls at the start, without state that changes
later. The conversion of messages to bytes. Option parsing, logging, themes,
translations, widgets, layout, icons. The build without PAM. The second daemon
that a child becomes when it returns from a failed step (`stray` in
`EntrancePam`) is not followed. The values of the options are constants of the
modules that depend on them.

Hazards without a property, and why, are in `PROJECT.json`: an X server that dies
before it reports, the reassembly of two greeters' bytes by one Eet connection,
and the child that returns into the daemon's main loop.

## 8. Plan

Done, in this order: supervisor, lifecycle and their proofs; PAM; protocol;
history and lock; desktops; login form; actions over the supervisor;
configuration over the lock; list of users and wallpaper over the form; the
proofs of all their safety properties and of the lifecycle.

Next:

1. The supervisor with the protocol: `PatientGreeter` replaced by the messages of
   `EntranceProtocol`, and the theorems that assume it stated without.
