-------------------------- MODULE EntranceProtocol --------------------------
(***************************************************************************)
(* The messages between the daemon (src/daemon/entrance_server.c) and the  *)
(* greeters (src/bin/entrance_connect.c, with the login form of            *)
(* entrance_login.c and the monitor of entrance_client.c). A local socket  *)
(* per greeter delivers in order; the daemon writes every message to all   *)
(* of them. The supervisor is seen as the one that starts the greeters of  *)
(* a seat one after the other.                                             *)
(***************************************************************************)
EXTENDS Naturals, Sequences

CONSTANTS
  Seats,      \* the seats, each with one greeter at a time
  MaxGreeters,\* bound on the greeters of a seat over time
  MaxSubmits, \* bound on the logins one greeter sends
  Patient     \* users do not submit while a login is being checked

ASSUME ProtocolAssumption == /\ MaxGreeters \in Nat \ {0}
                             /\ MaxSubmits \in Nat
                             /\ Patient \in BOOLEAN

\* The greeter processes: the k-th of a seat.
Greeters == Seats \X (1 .. MaxGreeters)
Seat(g) == g[1]

VARIABLES
  server,   \* the daemon is up or dead
  phase,    \* the process of a greeter
  conn,     \* greeters in ecore_con_server_clients_get
  toServer, \* what a greeter wrote and the daemon has not read
  toClient, \* what the daemon wrote and a greeter has not read
  form,     \* the login form: "wait" is _login->wait
  asked,    \* how many logins the greeter sent
  monitor,  \* the timer of entrance_monitor_server_pid is running
  running   \* sessions started on a seat since its X server was

vars == <<server, phase, conn, toServer, toClient, form, asked, monitor, running>>

Pid == [type |-> "pid"]
Auth(n, good) == [type |-> "auth", n |-> n, good |-> good]
Hello == [type |-> "hello"]
Status(g, n, granted) == [type |-> "status", of |-> g, n |-> n, granted |-> granted]

Up == [type : {"pid"}] \cup [type : {"auth"}, n : 1 .. MaxSubmits, good : BOOLEAN]
Down == [type : {"hello"}]
          \cup [type : {"status"}, of : Greeters, n : 1 .. MaxSubmits, granted : BOOLEAN]

\* Only greeters that connected are written to.
ProtocolTypeOK ==
  /\ server \in {"up", "dead"}
  /\ phase \in [Greeters -> {"unborn", "up", "exited", "over"}]
  /\ conn \subseteq {g \in Greeters : phase[g] # "unborn"}
  /\ toServer \in [Greeters -> Seq(Up)]
  /\ toClient \in [Greeters -> Seq(Down)]
  /\ \A g \in Greeters \ conn : toClient[g] = <<>>
  /\ form \in [Greeters -> {"idle", "wait", "denied", "granted"}]
  /\ asked \in [Greeters -> 0 .. MaxSubmits]
  /\ monitor \in [Greeters -> BOOLEAN]
  /\ running \in [Seats -> Nat]

ProtocolInit ==
  /\ server = "up"
  /\ phase = [g \in Greeters |-> "unborn"]
  /\ conn = {}
  /\ toServer = [g \in Greeters |-> <<>>]
  /\ toClient = [g \in Greeters |-> <<>>]
  /\ form = [g \in Greeters |-> "idle"]
  /\ asked = [g \in Greeters |-> 0]
  /\ monitor = [g \in Greeters |-> FALSE]
  /\ running = [s \in Seats |-> 0]

-----------------------------------------------------------------------------
(* The daemon.                                                             *)

\* _entrance_server_write_cb: every message goes to every connected greeter.
Recipients_Everyone(C) == Greeters
Recipients(C) == C

Broadcast(C, ms) ==
  toClient' = [g \in Greeters |-> IF g \in Recipients(C) THEN toClient[g] \o ms
                                  ELSE toClient[g]]

\* _entrance_server_add: the pid of the daemon and all lists, as one message.
\* A connection outlives a greeter that is gone until it is read empty.
ServerAdd(g) ==
  /\ server = "up" /\ g \notin conn /\ toServer[g] # <<>>
  /\ conn' = conn \cup {g}
  /\ Broadcast(conn', <<Hello>>)
  /\ UNCHANGED <<server, phase, toServer, form, asked, monitor, running>>

\* _entrance_server_read_cb. A good login starts a session on the seat, and the
\* answer to a login is a STATUS message that does not say whose it is; the
\* fields "of" and "n" are not on the wire.
Replies_OnlyGranted(g, m) ==
  IF m.good THEN <<Status(g, m.n, TRUE)>> ELSE <<>>
Replies_DeniedTwice(g, m) ==
  IF m.good THEN <<Status(g, m.n, TRUE)>>
            ELSE <<Status(g, m.n, FALSE), Status(g, m.n, FALSE)>>
Replies(g, m) == <<Status(g, m.n, m.good)>>

ServerRead(g) ==
  /\ server = "up" /\ g \in conn /\ toServer[g] # <<>>
  /\ toServer' = [toServer EXCEPT ![g] = Tail(@)]
  /\ LET m == Head(toServer[g])
     IN IF m.type = "auth"
        THEN /\ running' = [running EXCEPT ![Seat(g)] = IF m.good THEN @ + 1 ELSE @]
             /\ Broadcast(conn, Replies(g, m))
        ELSE UNCHANGED <<toClient, running>>
  /\ UNCHANGED <<server, phase, conn, form, asked, monitor>>

\* The connection of a greeter that is gone has been read to its end.
ServerDel(g) ==
  /\ server = "up" /\ g \in conn /\ toServer[g] = <<>>
  /\ phase[g] \in {"exited", "over"}
  /\ conn' = conn \ {g}
  /\ toClient' = [toClient EXCEPT ![g] = <<>>]
  /\ UNCHANGED <<server, phase, toServer, form, asked, monitor, running>>

\* The supervisor starts the first greeter of a seat, and the next one when
\* the last has exited, the sessions are over and the X server was replaced.
StartGreeter(g) ==
  /\ server = "up" /\ phase[g] = "unborn"
  /\ g[2] > 1 => phase[<<Seat(g), g[2] - 1>>] = "over"
  /\ phase' = [phase EXCEPT ![g] = "up"]
  /\ toServer' = [toServer EXCEPT ![g] = <<Pid>>]
  /\ UNCHANGED <<server, conn, toClient, form, asked, monitor, running>>

SeatRestart(g) ==
  /\ server = "up" /\ phase[g] = "exited"
  /\ phase' = [phase EXCEPT ![g] = "over"]
  /\ running' = [running EXCEPT ![Seat(g)] = 0]
  /\ UNCHANGED <<server, conn, toServer, toClient, form, asked, monitor>>

ServerDies ==
  /\ server = "up"
  /\ server' = "dead"
  /\ UNCHANGED <<phase, conn, toServer, toClient, form, asked, monitor, running>>

-----------------------------------------------------------------------------
(* The greeters.                                                           *)

\* _login_check_auth: it does not look at _login->wait. There is a session to
\* choose only after the lists came.
Submit(g, good) ==
  /\ phase[g] = "up" /\ monitor[g] /\ asked[g] < MaxSubmits
  /\ Patient => form[g] # "wait"
  /\ form' = [form EXCEPT ![g] = "wait"]
  /\ asked' = [asked EXCEPT ![g] = @ + 1]
  /\ toServer' = [toServer EXCEPT ![g] = Append(@, Auth(asked'[g], good))]
  /\ UNCHANGED <<server, phase, conn, toClient, monitor, running>>

\* _entrance_connect_auth ends the greeter on any granted STATUS.
Leaves_Never(m) == FALSE
Leaves_OnAny(m) == TRUE
Leaves(m) == m.granted

\* _login_auth_cb: a form that does not wait takes no notice.
Answered(f, m) ==
  IF f # "wait" THEN f ELSE IF m.granted THEN "granted" ELSE "denied"

\* _entrance_connect_read_cb: the lists (with the pid to monitor) or a STATUS,
\* which the form takes if it is waiting.
ClientRead(g) ==
  /\ phase[g] = "up" /\ toClient[g] # <<>>
  /\ toClient' = [toClient EXCEPT ![g] = Tail(@)]
  /\ LET m == Head(toClient[g])
     IN IF m.type = "hello"
        THEN /\ monitor' = [monitor EXCEPT ![g] = TRUE]
             /\ UNCHANGED <<phase, form>>
        ELSE /\ form' = [form EXCEPT ![g] = Answered(@, m)]
             /\ phase' = [phase EXCEPT ![g] = IF Leaves(m) THEN "exited" ELSE @]
             /\ UNCHANGED monitor
  /\ UNCHANGED <<server, conn, toServer, asked, running>>

\* _entrance_server_alive_cb, every five seconds: the greeter ends itself when
\* the daemon is gone.
Renew_Cancel == FALSE
Renew == TRUE

AliveTimer(g) ==
  /\ phase[g] = "up" /\ monitor[g]
  /\ phase' = [phase EXCEPT ![g] = IF server = "dead" THEN "exited" ELSE @]
  /\ monitor' = [monitor EXCEPT ![g] = Renew]
  /\ UNCHANGED <<server, conn, toServer, toClient, form, asked, running>>

-----------------------------------------------------------------------------

ProtocolNext ==
  \/ ServerDies
  \/ \E g \in Greeters :
       \/ ServerAdd(g) \/ ServerRead(g) \/ ServerDel(g)
       \/ StartGreeter(g) \/ SeatRestart(g)
       \/ ClientRead(g) \/ AliveTimer(g)
       \/ \E good \in BOOLEAN : Submit(g, good)

ProtocolSpec == ProtocolInit /\ [][ProtocolNext]_vars

\* Both main loops go on serving their sockets and timers; users, restarts and
\* crashes come as they like.
ProtocolFairSpec ==
  /\ ProtocolSpec
  /\ \A g \in Greeters : WF_vars(ServerAdd(g)) /\ WF_vars(ServerRead(g))
                         /\ WF_vars(ClientRead(g)) /\ WF_vars(AliveTimer(g))

-----------------------------------------------------------------------------

\* A form that waits is answered by the answer to the login it sent last: the
\* user is never told of someone else's login, or of an earlier one.
OwnAnswer ==
  [][\A g \in Greeters :
       form[g] = "wait" /\ form'[g] # "wait"
         => Head(toClient[g]).of = g /\ Head(toClient[g]).n = asked[g]]_vars

\* A greeter ends on a login of its own seat only, "xserver/client per seat"
\* (README.md), as long as the daemon lives.
OwnExit ==
  [][\A g \in Greeters :
       phase[g] = "up" /\ phase'[g] = "exited" /\ server = "up"
         => running[Seat(g)] > 0]_vars

\* A session is started on a seat only while the greeter that asked for it is
\* there, and never beside another session.
SessionForGreeter ==
  [][\A s \in Seats :
       running'[s] > running[s]
         => running[s] = 0 /\ \E g \in Greeters : Seat(g) = s /\ phase[g] = "up"
                                                   /\ form[g] = "wait"]_vars

\* Every login that was sent is answered, or its greeter ends.
LoginsAnswered ==
  \A g \in Greeters : form[g] = "wait" ~> form[g] # "wait" \/ phase[g] # "up"

\* The greeter of a seat where a session was started goes away.
GreetersLeave ==
  \A g \in Greeters :
    (phase[g] = "up" /\ running[Seat(g)] > 0) ~> (phase[g] # "up" \/ running[Seat(g)] = 0)

\* No greeter that the daemon accepted survives it, "server crashed stopping
\* client" (entrance_client.c).
NoOrphans ==
  \A g \in Greeters : (server = "dead" /\ g \in conn) ~> phase[g] # "up"
=============================================================================
