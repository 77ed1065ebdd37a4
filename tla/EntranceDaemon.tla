--------------------------- MODULE EntranceDaemon ---------------------------
(***************************************************************************)
(* The supervisor in the entrance daemon: the single main-loop thread that *)
(* keeps, for every seat, an X server, a greeter (entrance_client) and the *)
(* user session started by a login (src/daemon/entrance.c, with the parts  *)
(* of entrance_xserver.c, entrance_session.c and entrance_server.c that it *)
(* drives).                                                                *)
(*                                                                         *)
(* Handlers of the ecore main loop run one at a time and to completion,    *)
(* except where the code blocks: _entrance_session_wait polls the session  *)
(* with nanosleep and _entrance_kill_and_wait waits for the X server.      *)
(* Those two places, the autologin session in main and the gaps between    *)
(* handlers are where other processes move and where a UNIX signal is      *)
(* taken; they are the values of "pc".                                     *)
(***************************************************************************)
EXTENDS Integers, Sequences, FiniteSets

CONSTANTS
  SeatCount,      \* _entrance_seat_count
  Xephyr,         \* the daemon may be started under Xephyr (option -x)
  AutoLogin,      \* the configuration may say autologin
  PatientGreeter, \* a greeter waits for the answer to an AUTH and logs in once
  MaxQueue,       \* bound on the queue that lets an X server report readiness
  MaxFaults,      \* bound on failing system calls and X server deaths
  MaxLost         \* bound on sessions of a seat whose pid was overwritten

ASSUME SeatCountAssumption == SeatCount \in Nat \ {0}
ASSUME FlagsAssumption == /\ Xephyr \in BOOLEAN
                          /\ AutoLogin \in BOOLEAN
                          /\ PatientGreeter \in BOOLEAN
ASSUME BoundsAssumption == /\ MaxQueue \in Nat
                           /\ MaxFaults \in Nat
                           /\ MaxLost \in Nat
\* The Xephyr branch of main initialises one seat, whatever logind reports.
ASSUME XephyrAssumption == Xephyr => SeatCount = 1

Seats == 0 .. SeatCount - 1

\* An event queued by ecore: SIGUSR1 from some X server (the event does not
\* say which), or the exit of the greeter of a seat.
Usr1 == -1
Events == Seats \cup {Usr1}

VARIABLES
  pc,        \* where the main thread is
  cur,       \* the seat _entrance_client_del works on
  quit,      \* ecore_main_loop_quit was called
  sig,       \* _entrance_signal # 0
  autologin, \* _entrance_auto_login
  uid,       \* _entrance_uid_gid_init was called
  xephyr,    \* the daemon runs under Xephyr
  x,         \* the X server process of a seat
  client,    \* _entrance_clients[id], and what became of its process
  recpid,    \* whose pid _entrance_clients[id]->pid is
  stale,     \* an EXE_DEL handler of a replaced client record is registered
  greeters,  \* greeter processes alive on a seat
  sess,      \* the Entrance_Session structure of a seat
  spid,      \* the process of _sessions[id]->pid
  lost,      \* live sessions of a seat whose pid was overwritten
  queue,     \* ecore events waiting for the main loop
  inbox,     \* messages of greeters waiting in the server's sockets
  faults     \* failures so far

seatVars == <<x, client, recpid, stale, greeters, sess, spid, lost, inbox>>
vars == <<pc, cur, quit, sig, autologin, uid, xephyr, queue, faults, seatVars>>

PCs == {"init", "loop", "session_wait", "x_kill", "autologin", "auto_wait",
        "shutdown", "teardown", "exited", "crashed"}

TypeOK ==
  /\ pc \in PCs
  /\ cur \in Seats
  /\ quit \in BOOLEAN /\ sig \in BOOLEAN /\ autologin \in BOOLEAN /\ uid \in BOOLEAN
  /\ xephyr \in BOOLEAN
  /\ x \in [Seats -> {"none", "starting", "ready", "dead", "nofork"}]
  /\ client \in [Seats -> {"none", "noexe", "running", "exited", "reaped", "left"}]
  /\ recpid \in [Seats -> {"shell", "own", "stale"}]
  /\ stale \in [Seats -> BOOLEAN]
  /\ greeters \in [Seats -> Nat]
  /\ sess \in [Seats -> {"null", "live", "freed"}]
  /\ spid \in [Seats -> {"none", "running", "dead"}]
  /\ lost \in [Seats -> Nat]
  /\ queue \in Seq(Events)
  /\ inbox \in [Seats -> SUBSET {"pid", "oldpid", "auth"}]
  /\ faults \in Nat

\* _entrance_clients[id] exists and its exe is not NULL.
HasExe_Dropped(s) == FALSE
HasExe_IfAlive(s) == client[s] = "running"
HasExe(s) == client[s] \in {"running", "exited", "reaped", "left"}

Alive == pc \notin {"exited", "crashed"}

Init ==
  /\ pc = "init" /\ cur = 0
  /\ quit = FALSE /\ sig = FALSE /\ autologin = FALSE /\ uid = FALSE
  /\ xephyr \in {FALSE, Xephyr}
  /\ x = [s \in Seats |-> "none"]
  /\ client = [s \in Seats |-> "none"]
  /\ recpid = [s \in Seats |-> "shell"]
  /\ stale = [s \in Seats |-> FALSE]
  /\ greeters = [s \in Seats |-> 0]
  /\ sess = [s \in Seats |-> "null"]
  /\ spid = [s \in Seats |-> "none"]
  /\ lost = [s \in Seats |-> 0]
  /\ queue = <<>>
  /\ inbox = [s \in Seats |-> {}]
  /\ faults = 0

\* Failures draw on a budget.
Budget(failed) ==
  /\ failed => faults < MaxFaults
  /\ faults' = IF failed THEN faults + 1 ELSE faults

-----------------------------------------------------------------------------
(* Starting a greeter.                                                     *)

\* _entrance_start_client, for the seats T: a seat whose record has an exe
\* is left alone; the others get a new record (an old one is leaked, with its
\* handlers). In the seats "bad" the greeter is not started: the shell could
\* not be forked, or the home directory was unusable, which also quits.
StartClients(T, bad, nohome) ==
  LET S == {s \in T : ~HasExe(s)}
      ok == S \ bad
  IN /\ bad \subseteq S
     /\ nohome => bad # {}
     /\ quit' = (quit \/ nohome)
     /\ stale' = [s \in Seats |-> stale[s] \/ (s \in S /\ client[s] = "noexe")]
     /\ client' = [s \in Seats |-> IF s \in ok THEN "running"
                                   ELSE IF s \in bad THEN "noexe" ELSE client[s]]
     /\ recpid' = [s \in Seats |-> IF s \in S THEN "shell" ELSE recpid[s]]
     /\ greeters' = [s \in Seats |-> IF s \in ok THEN greeters[s] + 1 ELSE greeters[s]]
     /\ inbox' = [s \in Seats |-> IF s \in ok THEN inbox[s] \cup {"pid"} ELSE inbox[s]]

-----------------------------------------------------------------------------
(* main, up to the main loop.                                              *)

\* The lock file of the autologin, then the X servers and sessions of the
\* seats, or the one greeter of a Xephyr. A failed autologin lock leaves the
\* daemon without autologin and without uid and gid.
Boot(auto, badX, locked, seen, bad, nohome) ==
  /\ pc = "init"
  /\ autologin' = (auto /\ locked)
  /\ uid' = ~auto
  /\ sess' = [s \in Seats |-> "live"]
  /\ IF xephyr
     THEN badX = {} /\ x' = x /\ StartClients({0}, bad, nohome)
     ELSE /\ bad = {} /\ ~nohome
          /\ x' = [s \in Seats |-> IF s \in badX THEN "nofork" ELSE "starting"]
          /\ UNCHANGED <<quit, client, recpid, stale, greeters, inbox>>
  /\ auto \/ (locked /\ seen)
  /\ Budget(badX # {} \/ bad # {} \/ ~locked \/ ~seen)
  /\ pc' = IF auto /\ locked /\ seen THEN "autologin" ELSE "loop"
  /\ UNCHANGED <<cur, sig, xephyr, spid, lost, queue>>

\* The session of the autologin user, in a new session structure; it may fail
\* to start (no such user, no command, no process).
AutoLoginStart(started) ==
  /\ pc = "autologin"
  /\ Budget(~started)
  /\ sess' = [sess EXCEPT ![0] = "live"]
  /\ spid' = [spid EXCEPT ![0] = IF started THEN "running" ELSE "none"]
  /\ pc' = "auto_wait"
  /\ UNCHANGED <<cur, quit, sig, autologin, uid, xephyr, queue, x, client, recpid,
                 stale, greeters, lost, inbox>>

\* _entrance_uid_gid_init is called when the autologin session is over.
UserAfterAutologin_Skipped == uid
UserAfterAutologin == TRUE

\* The end of that session: the first greeter of seat 0 is started, now with
\* uid and gid. The pid stays in _sessions[0], as that of a process that is
\* gone and was waited for: to who reads it later it is as good as none.
AutoLoginEnd(bad, nohome) ==
  /\ pc = "auto_wait"
  /\ spid[0] # "running" \/ sig
  /\ pc' = "loop"
  /\ IF sig
     THEN /\ bad = {} /\ ~nohome
          /\ UNCHANGED <<autologin, uid, spid, quit, client, recpid, stale, greeters, inbox>>
     ELSE /\ autologin' = FALSE
          /\ spid' = [spid EXCEPT ![0] = "none"]
          /\ uid' = UserAfterAutologin
          /\ StartClients({0}, bad, nohome)
  /\ Budget(bad # {})
  /\ UNCHANGED <<cur, sig, xephyr, x, sess, lost, queue>>

-----------------------------------------------------------------------------
(* Handlers of the main loop.                                              *)

\* _xserver_started: the handler of every X server runs for each SIGUSR1, so
\* the greeters of all seats are started, unless the daemon is in autologin.
XserverStarted(bad, nohome) ==
  /\ pc = "loop" /\ queue # <<>> /\ Head(queue) = Usr1
  /\ queue' = Tail(queue)
  /\ IF autologin
     THEN /\ bad = {} /\ ~nohome
          /\ UNCHANGED <<quit, client, recpid, stale, greeters, inbox>>
     ELSE StartClients(Seats, bad, nohome)
  /\ Budget(bad # {})
  /\ UNCHANGED <<pc, cur, sig, autologin, uid, xephyr, x, sess, spid, lost>>

\* _entrance_client_del, up to the wait for the session.
ClientDel(s) ==
  /\ pc = "loop" /\ queue # <<>> /\ Head(queue) = s
  /\ queue' = Tail(queue)
  /\ client' = [client EXCEPT ![s] = "noexe"]
  /\ cur' = s
  /\ pc' = "session_wait"
  /\ UNCHANGED <<quit, sig, autologin, uid, xephyr, x, recpid, stale, greeters, sess, spid,
                 lost, inbox, faults>>

\* A handler that outlived its record sees the event first and reads
\* _entrance_clients[t]->exe, which is NULL while seat t has no greeter.
StaleHandler(s) ==
  /\ pc = "loop" /\ queue # <<>> /\ Head(queue) = s
  /\ \E t \in Seats \ {s} : stale[t] /\ client[t] = "none"
  /\ pc' = "crashed"
  /\ UNCHANGED <<cur, quit, sig, autologin, uid, xephyr, queue, faults, seatVars>>

\* _entrance_session_wait returns: no session, the session is gone, or a
\* signal came.
WaitOver_AtOnce == TRUE
WaitOver_IgnoresSignal == spid[cur] # "running"
WaitOver == spid[cur] # "running" \/ sig

\* In service the X server is restarted; otherwise the session structure is
\* freed and the main loop told to quit.
InService_AlsoXephyr == ~sig
InService_Never == FALSE
InService == ~sig /\ ~xephyr

SessionWaitEnd ==
  /\ pc = "session_wait" /\ WaitOver
  /\ IF InService
     THEN pc' = "x_kill" /\ UNCHANGED <<quit, sess>>
     ELSE /\ sess' = [sess EXCEPT ![cur] = "freed"]
          /\ quit' = TRUE
          /\ pc' = "loop"
  /\ UNCHANGED <<cur, sig, autologin, uid, xephyr, x, client, recpid, stale, greeters,
                 spid, lost, queue, inbox, faults>>

\* What kill_and_wait does to the seats: the X server of seat s, or, when the
\* fork of that server failed and its pid is -1, every process the daemon may
\* signal, all of them reaped here so that no exit event follows.
KillsAll(s) == x[s] = "nofork"

\* _entrance_client_handlers_del leaves the handlers of replaced records.
HandlersDel_Skipped(s) == [stale EXCEPT ![s] = TRUE]
HandlersDel(s) == stale

\* The X server process after entrance_xserver_start, and the client record
\* after it was freed.
NewX_Skipped(forked) == "dead"
NewX(forked) == IF forked THEN "starting" ELSE "nofork"

FreedRecord_GreeterAtOnce == "running"
FreedRecord == "none"

\* The rest of _entrance_client_del: kill the X server, free the session and
\* the client record, and start session structure and X server anew.
XserverRestart(forked) ==
  LET all == KillsAll(cur)
  IN /\ pc = "x_kill"
     /\ Budget(~forked)
     /\ x' = [s \in Seats |-> IF s = cur THEN NewX(forked)
                              ELSE IF all /\ x[s] # "nofork" THEN "dead" ELSE x[s]]
     /\ client' = [s \in Seats |-> IF s = cur THEN FreedRecord
                                   ELSE IF all /\ client[s] \in {"running", "left"} THEN "reaped"
                                   ELSE client[s]]
     /\ greeters' = IF all THEN [s \in Seats |-> 0] ELSE greeters
     /\ sess' = [sess EXCEPT ![cur] = "live"]
     /\ spid' = [s \in Seats |-> IF s = cur THEN "none"
                                 ELSE IF all /\ spid[s] = "running" THEN "dead" ELSE spid[s]]
     /\ lost' = IF all THEN [s \in Seats |-> 0] ELSE lost
     /\ stale' = HandlersDel(cur)
     /\ pc' = "loop"
     /\ UNCHANGED <<cur, quit, sig, autologin, uid, xephyr, recpid, queue, inbox>>

\* The parent of the forked session stores its pid.
SessionPid_FirstSeat(s) == [spid EXCEPT ![0] = "running"]
SessionPid(s) == [spid EXCEPT ![s] = "running"]

\* AUTH from a greeter of seat s: either a session is started, or not (login
\* refused, no such user, no command, no process). The pid of an earlier
\* session is overwritten. The session structure may already be freed when
\* the loop is about to be left.
Auth(s, started) ==
  /\ pc = "loop" /\ "auth" \in inbox[s]
  /\ inbox' = [inbox EXCEPT ![s] = @ \ {"auth"}]
  /\ spid' = IF started THEN SessionPid(s) ELSE spid
  /\ lost' = IF started /\ spid[s] = "running" THEN [lost EXCEPT ![s] = @ + 1] ELSE lost
  /\ pc' \in IF sess[s] = "freed" THEN {"loop", "crashed"} ELSE {"loop"}
  /\ UNCHANGED <<cur, quit, sig, autologin, uid, xephyr, x, client, recpid, stale, greeters,
                 sess, queue, faults>>

\* PID from a greeter of seat s; the record it names may be gone, or belong to
\* a later greeter.
ClientPidSet(s, m) ==
  /\ pc = "loop" /\ m \in {"pid", "oldpid"} \cap inbox[s]
  /\ inbox' = [inbox EXCEPT ![s] = @ \ {m}]
  /\ IF client[s] = "none"
     THEN pc' = "crashed" /\ UNCHANGED recpid
     ELSE /\ recpid' = [recpid EXCEPT ![s] = IF m = "pid" THEN "own" ELSE "stale"]
          /\ UNCHANGED pc
  /\ UNCHANGED <<cur, quit, sig, autologin, uid, xephyr, x, client, stale, greeters, sess,
                 spid, lost, queue, faults>>

-----------------------------------------------------------------------------
(* Stopping.                                                               *)

\* The greeters _signal_cb gets to: those of the seats before the first one
\* without a client record, if they run.
SeatsBeforeMissing == {s \in Seats : \A t \in Seats : client[t] = "none" => s < t}
SignalTargets_NoCheck == SeatsBeforeMissing
SignalTargets == {s \in SeatsBeforeMissing : client[s] = "running"}

\* _signal_cb. Before the arrays exist it follows a NULL pointer, and so it
\* does at the first seat without a client record, the seats before it done.
\* The kill reaches the greeter once its own pid is known; the pid of the
\* shell that started it may be the greeter's or not. During the teardown the
\* client array is freed memory.
Signal(killed) ==
  LET missing == {s \in Seats : client[s] = "none"}
      targets == SignalTargets
  IN /\ Alive
     /\ sig' = TRUE
     /\ killed \subseteq targets
     /\ \A s \in targets : /\ recpid[s] = "own" => s \in killed
                           /\ recpid[s] = "stale" => s \notin killed
     /\ client' = [s \in Seats |-> IF s \in killed THEN "reaped"
                                   ELSE IF s \in targets THEN "left" ELSE client[s]]
     /\ greeters' = [s \in Seats |-> IF s \in killed THEN greeters[s] - 1 ELSE greeters[s]]
     /\ IF pc = "teardown"
        THEN quit' = TRUE /\ pc' \in {"teardown", "crashed"}
        ELSE IF missing # {} \/ pc = "init"
             THEN pc' = "crashed" /\ UNCHANGED quit
             ELSE quit' = TRUE /\ UNCHANGED pc
     /\ UNCHANGED <<cur, autologin, uid, xephyr, x, recpid, stale, sess, spid, lost, queue,
                    inbox, faults>>

\* ecore_main_loop_begin returns.
MainLoopEnd ==
  /\ pc = "loop" /\ quit
  /\ pc' = "shutdown"
  /\ UNCHANGED <<cur, quit, sig, autologin, uid, xephyr, queue, faults, seatVars>>

\* The client records are freed, the server closed and the X servers killed.
Shutdown ==
  LET all == \E s \in Seats : KillsAll(s)
  IN /\ pc = "shutdown"
     /\ pc' = "teardown"
     /\ client' = [s \in Seats |-> IF client[s] \in {"running", "left"} /\ ~all
                                   THEN "left" ELSE "none"]
     /\ greeters' = IF all THEN [s \in Seats |-> 0] ELSE greeters
     /\ x' = [s \in Seats |-> "none"]
     /\ spid' = [s \in Seats |-> IF all /\ spid[s] = "running" THEN "dead" ELSE spid[s]]
     /\ lost' = IF all THEN [s \in Seats |-> 0] ELSE lost
     /\ stale' = [s \in Seats |-> FALSE]
     /\ inbox' = [s \in Seats |-> {}]
     /\ UNCHANGED <<cur, quit, sig, autologin, uid, xephyr, recpid, sess, queue, faults>>

\* The session structures are freed, a second time where _entrance_client_del
\* did it before: the C library may abort.
Teardown ==
  /\ pc = "teardown"
  /\ pc' \in IF \E s \in Seats : sess[s] = "freed" THEN {"exited", "crashed"}
             ELSE {"exited"}
  /\ sess' = [s \in Seats |-> "freed"]
  /\ UNCHANGED <<cur, quit, sig, autologin, uid, xephyr, queue, faults, x, client, recpid,
                 stale, greeters, spid, lost, inbox>>

-----------------------------------------------------------------------------
(* The other processes.                                                    *)

XReady(s) ==
  /\ Alive /\ x[s] = "starting" /\ Len(queue) < MaxQueue
  /\ x' = [x EXCEPT ![s] = "ready"]
  /\ queue' = Append(queue, Usr1)
  /\ UNCHANGED <<pc, cur, quit, sig, autologin, uid, xephyr, client, recpid, stale, greeters,
                 sess, spid, lost, inbox, faults>>

\* No handler in the daemon watches an X server.
XDies(s) ==
  /\ Alive /\ x[s] \in {"starting", "ready"}
  /\ Budget(TRUE)
  /\ x' = [x EXCEPT ![s] = "dead"]
  /\ UNCHANGED <<pc, cur, quit, sig, autologin, uid, xephyr, client, recpid, stale, greeters,
                 sess, spid, lost, queue, inbox>>

\* A user submits the login form; the greeter's PID message came first.
SendAuth(s) ==
  /\ Alive /\ client[s] = "running"
  /\ inbox[s] \cap {"pid", "auth"} = {}
  /\ PatientGreeter => spid[s] = "none"
  /\ lost[s] < MaxLost
  /\ inbox' = [inbox EXCEPT ![s] = @ \cup {"auth"}]
  /\ UNCHANGED <<pc, cur, quit, sig, autologin, uid, xephyr, x, client, recpid, stale, greeters,
                 sess, spid, lost, queue, faults>>

\* A greeter exits or is killed, before or after it connected. Its messages
\* stay in the socket.
GreeterExit(s, connected) ==
  /\ Alive /\ client[s] = "running"
  /\ PatientGreeter => inbox[s] \cap {"pid", "auth"} = {}
  /\ "pid" \in inbox[s] \/ connected
  /\ client' = [client EXCEPT ![s] = "exited"]
  /\ greeters' = [greeters EXCEPT ![s] = @ - 1]
  /\ inbox' = [inbox EXCEPT ![s] = IF "pid" \notin @ THEN @
                                   ELSE (@ \ {"pid"}) \cup
                                        (IF connected THEN {"oldpid"} ELSE {})]
  /\ queue' = Append(queue, s)
  /\ UNCHANGED <<pc, cur, quit, sig, autologin, uid, xephyr, x, recpid, stale, sess, spid,
                 lost, faults>>

SessionExit(s) ==
  /\ Alive
  /\ \/ spid[s] = "running" /\ spid' = [spid EXCEPT ![s] = "dead"] /\ UNCHANGED lost
     \/ lost[s] > 0 /\ lost' = [lost EXCEPT ![s] = @ - 1] /\ UNCHANGED spid
  /\ UNCHANGED <<pc, cur, quit, sig, autologin, uid, xephyr, x, client, recpid, stale, greeters,
                 sess, queue, inbox, faults>>

-----------------------------------------------------------------------------

Handler ==
  \/ \E bad \in SUBSET Seats, nohome \in BOOLEAN : XserverStarted(bad, nohome)
  \/ \E s \in Seats : ClientDel(s)
  \/ \E s \in Seats, m \in {"pid", "oldpid"} : ClientPidSet(s, m)
  \/ \E s \in Seats, started \in BOOLEAN : Auth(s, started)

Daemon ==
  \/ pc = "init" /\ \E auto \in {FALSE, AutoLogin}, badX, bad \in SUBSET Seats,
        locked, seen, nohome \in BOOLEAN :
       Boot(auto, badX, locked, seen, bad, nohome)
  \/ \E started \in BOOLEAN : AutoLoginStart(started)
  \/ \E bad \in SUBSET Seats, nohome \in BOOLEAN : AutoLoginEnd(bad, nohome)
  \/ SessionWaitEnd
  \/ \E forked \in BOOLEAN : XserverRestart(forked)
  \/ MainLoopEnd \/ Shutdown \/ Teardown

Environment ==
  \/ \E s \in Seats : StaleHandler(s)
  \/ \E killed \in SUBSET Seats : Signal(killed)
  \/ \E s \in Seats : XReady(s) \/ XDies(s) \/ SendAuth(s) \/ SessionExit(s)
  \/ \E s \in Seats, connected \in BOOLEAN : GreeterExit(s, connected)

Next == Handler \/ Daemon \/ Environment

Spec == Init /\ [][Next]_vars

\* The main loop keeps running and serves its event queue; a loop told to quit
\* is left; an X server that started comes up. Users owe nothing.
Fairness ==
  /\ WF_vars(Daemon)
  /\ WF_vars((\E bad \in SUBSET Seats, nohome \in BOOLEAN : XserverStarted(bad, nohome))
             \/ \E s \in Seats : ClientDel(s))
  /\ \A s \in Seats : WF_vars(XReady(s))

FairSpec == Spec /\ Fairness

-----------------------------------------------------------------------------
(* Safety.                                                                 *)

\* Each seat has at most one greeter process, and it is the one its record
\* names, whatever the order of SIGUSR1, exits, autologin and restarts: a
\* second process would be one that no exit event and no signal reaches.
OneGreeter ==
  \A s \in Seats : greeters[s] = IF client[s] \in {"running", "left"} THEN 1 ELSE 0

\* Every queued exit event is the one event of a greeter whose record still
\* waits for it: no event finds its record replaced, reaped or gone.
Serving == pc \notin {"teardown", "exited", "crashed"}
ExitsMatch ==
  Serving =>
    /\ \A i \in 1 .. Len(queue) : queue[i] \in Seats => client[queue[i]] = "exited"
    /\ \A i, j \in 1 .. Len(queue) :
         queue[i] \in Seats /\ queue[i] = queue[j] => i = j

\* When _entrance_client_del turns to the X server of a seat, the session
\* whose pid the seat holds has ended, and no signal had come when it looked.
RestartAfterSession == pc = "x_kill" => spid[cur] # "running" /\ client[cur] = "noexe"

\* The inductive invariant behind these: while _entrance_client_del works on a
\* seat, the record of that seat stays without exe.
DaemonInv ==
  /\ TypeOK
  /\ OneGreeter
  /\ ExitsMatch
  /\ RestartAfterSession
  /\ pc \in {"session_wait", "x_kill"} => client[cur] = "noexe"

\* ... and with greeters that log in once and wait for the answer, no other
\* session of the seat is alive either: none was lost to a second login.
NoSessionLosesItsX ==
  /\ pc = "x_kill" => spid[cur] # "running" /\ lost[cur] = 0
  /\ \A s \in Seats : lost[s] = 0

\* A greeter runs only once _entrance_uid_gid_init has said as whom, unless a
\* system call failed.
GreeterHasUser == faults = 0 /\ (\E s \in Seats : greeters[s] > 0) => uid

\* A greeter is started for an X server that reported ready, which is what
\* entrance_xserver.h promises of the start callback.
GreeterOnReadyX ==
  [][\A s \in Seats : ~xephyr /\ client[s] # "running" /\ client'[s] = "running"
                       => x[s] \in {"ready", "dead"} /\ x'[s] = x[s]]_vars

\* A login session is started only on a seat that shows a greeter, but for the
\* session of the autologin.
SessionOnGreetedSeat ==
  [][\A s \in Seats : spid[s] # "running" /\ spid'[s] = "running"
                       => client[s] \in {"running", "reaped", "left"} \/ pc = "autologin"]_vars

\* The daemon survives its service: without failing system calls and with
\* patient greeters it ends abnormally only when it is being stopped.
CrashOnlyWhenStopped == pc = "crashed" => sig \/ faults > 0

\* Stopping frees a session structure twice only if a signal interrupted the
\* wait for a session, or under Xephyr, where this is the normal way out.
DoubleFreeNeedsSignal ==
  (\E s \in Seats : sess[s] = "freed") /\ pc \notin {"exited", "crashed"} => sig \/ xephyr

-----------------------------------------------------------------------------
(* Liveness.                                                               *)

\* A signal ends the daemon, even in the middle of a session that never ends.
SignalStops == sig ~> ~Alive

\* As long as sessions end, every seat gets its greeter again and again,
\* however often greeters exit, unless the daemon is told to stop.
SeatsGreet ==
  (\A s \in Seats : []<>(spid[s] # "running"))
    => \A s \in Seats : []<>(client[s] = "running" \/ quit \/ ~Alive)

\* Under Xephyr there is no second greeter: once the greeter is gone and its
\* session over, the daemon ends.
XephyrEnds ==
  xephyr /\ []<>(spid[0] # "running") => (client[0] = "exited" ~> ~Alive)
=============================================================================
