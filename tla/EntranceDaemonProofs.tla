------------------------ MODULE EntranceDaemonProofs ------------------------
(***************************************************************************)
(* Theorems about the supervisor, for every number of seats and every      *)
(* budget of failures: its types, and the invariants behind its restarts.  *)
(***************************************************************************)
EXTENDS EntranceDaemonLifecycle, TLAPS

\* There is a first seat, and a SIGUSR1 is not the exit of a seat's greeter.
LEMMA SeatsFacts == 0 \in Seats /\ Usr1 \notin Seats /\ Usr1 \in Events /\ Seats \subseteq Events
  BY SeatCountAssumption DEF Seats, Usr1, Events

\* The initial states satisfy the invariant.
LEMMA InitInv == Init => DaemonInv
  BY SeatsFacts, FlagsAssumption DEF Init, DaemonInv, TypeOK, OneGreeter, ExitsMatch, RestartAfterSession, PCs

\* The part of TypeOK that a start of greeters touches.
ClientsTyped ==
  /\ quit \in BOOLEAN
  /\ stale \in [Seats -> BOOLEAN]
  /\ client \in [Seats -> {"none", "noexe", "running", "exited", "reaped", "left"}]
  /\ recpid \in [Seats -> {"shell", "own", "stale"}]
  /\ greeters \in [Seats -> Nat]
  /\ inbox \in [Seats -> SUBSET {"pid", "oldpid", "auth"}]

\* A step that keeps the records of greeters that exited.
ExitsKept == \A s \in Seats : client[s] = "exited" => client'[s] = "exited"

\* Starting greeters keeps types, adds a process only to seats without one,
\* and disturbs no seat whose record has an exe.
LEMMA StartClientsInv ==
  ASSUME TypeOK, OneGreeter,
         NEW T \in SUBSET Seats, NEW bad \in SUBSET Seats, NEW nohome \in BOOLEAN,
         StartClients(T, bad, nohome)
  PROVE  ClientsTyped' /\ OneGreeter' /\ ExitsKept
  BY DEF StartClients, TypeOK, OneGreeter, HasExe, ClientsTyped, ExitsKept

\* The failure budget stays a number.
LEMMA BudgetType == ASSUME TypeOK, NEW failed, Budget(failed) PROVE faults' \in Nat
  BY DEF Budget, TypeOK

\* A step of the main thread or of another process preserves the invariant.
LEMMA StepInv == DaemonInv /\ [Next]_vars => DaemonInv'
  <1> SUFFICES ASSUME DaemonInv, [Next]_vars
               PROVE  DaemonInv'
    OBVIOUS
  <1> USE SeatsFacts DEF DaemonInv
  <1>1. ASSUME NEW auto \in {FALSE, AutoLogin}, NEW badX \in SUBSET Seats, NEW bad \in SUBSET Seats,
               NEW locked \in BOOLEAN, NEW seen \in BOOLEAN, NEW nohome \in BOOLEAN,
               Boot(auto, badX, locked, seen, bad, nohome)
        PROVE  DaemonInv'
    <2>1. TypeOK' /\ OneGreeter' /\ ExitsKept
      <3>0. /\ faults' \in Nat
            /\ autologin' \in BOOLEAN /\ uid' \in BOOLEAN
            /\ UNCHANGED <<cur, sig, xephyr, spid, lost, queue>>
            /\ pc' \in PCs
            /\ sess' \in [Seats -> {"null", "live", "freed"}]
        BY <1>1, BudgetType, FlagsAssumption DEF Boot, PCs
      <3>1. CASE xephyr
        <4>1. UNCHANGED x /\ StartClients({0}, bad, nohome)
          BY <1>1, <3>1 DEF Boot
        <4>2. ClientsTyped' /\ OneGreeter' /\ ExitsKept
          BY <4>1, StartClientsInv
        <4>3. QED
          BY <3>0, <4>1, <4>2 DEF TypeOK, ClientsTyped
      <3>2. CASE ~xephyr
        <4>1. /\ x' \in [Seats -> {"none", "starting", "ready", "dead", "nofork"}]
              /\ UNCHANGED <<quit, client, recpid, stale, greeters, inbox>>
          BY <1>1, <3>2 DEF Boot
        <4>2. QED
          BY <3>0, <4>1 DEF TypeOK, OneGreeter, ExitsKept
      <3>3. QED
        BY <3>1, <3>2
    <2>2. ExitsMatch' /\ RestartAfterSession' /\ pc' \notin {"session_wait", "x_kill"}
      BY <1>1, <2>1 DEF Boot, ExitsMatch, ExitsKept, Serving, RestartAfterSession
    <2>3. QED
      BY <2>1, <2>2
  <1>2. ASSUME NEW started \in BOOLEAN, AutoLoginStart(started)
        PROVE  DaemonInv'
    BY <1>2 DEF AutoLoginStart, Budget, TypeOK, PCs, OneGreeter, ExitsMatch, Serving,
                RestartAfterSession
  <1>3. ASSUME NEW bad \in SUBSET Seats, NEW nohome \in BOOLEAN, AutoLoginEnd(bad, nohome)
        PROVE  DaemonInv'
    <2>1. TypeOK' /\ OneGreeter' /\ ExitsKept
      <3>0. /\ faults' \in Nat /\ pc' \in PCs
            /\ spid' \in [Seats -> {"none", "running", "dead"}]
            /\ UNCHANGED <<cur, sig, xephyr, x, sess, lost, queue>>
        BY <1>3, BudgetType DEF AutoLoginEnd, PCs, TypeOK
      <3>1. CASE sig
        <4>1. UNCHANGED <<autologin, uid, quit, client, recpid, stale, greeters, inbox>>
          BY <1>3, <3>1 DEF AutoLoginEnd
        <4>2. QED
          BY <3>0, <4>1 DEF TypeOK, OneGreeter, ExitsKept
      <3>2. CASE ~sig
        <4>1. autologin' \in BOOLEAN /\ uid' \in BOOLEAN /\ StartClients({0}, bad, nohome)
          BY <1>3, <3>2 DEF AutoLoginEnd, UserAfterAutologin
        <4>2. ClientsTyped' /\ OneGreeter' /\ ExitsKept
          BY <4>1, StartClientsInv
        <4>3. QED
          BY <3>0, <4>1, <4>2 DEF TypeOK, ClientsTyped
      <3>3. QED
        BY <3>1, <3>2
    <2>2. ExitsMatch' /\ RestartAfterSession' /\ pc' \notin {"session_wait", "x_kill"}
      BY <1>3, <2>1 DEF AutoLoginEnd, ExitsMatch, ExitsKept, Serving, RestartAfterSession
    <2>3. QED
      BY <2>1, <2>2
  <1>4. ASSUME NEW bad \in SUBSET Seats, NEW nohome \in BOOLEAN, XserverStarted(bad, nohome)
        PROVE  DaemonInv'
    <2>1. queue' \in Seq(Events) /\ Len(queue') = Len(queue) - 1
          /\ \A i \in 1 .. Len(queue') : queue'[i] = queue[i + 1]
      BY <1>4 DEF XserverStarted, TypeOK
    <2>2. TypeOK' /\ OneGreeter' /\ ExitsKept
      <3>0. /\ faults' \in Nat
            /\ UNCHANGED <<pc, cur, sig, autologin, uid, xephyr, x, sess, spid, lost>>
        BY <1>4, BudgetType DEF XserverStarted
      <3>1. CASE autologin
        <4>1. UNCHANGED <<quit, client, recpid, stale, greeters, inbox>>
          BY <1>4, <3>1 DEF XserverStarted
        <4>2. QED
          BY <2>1, <3>0, <4>1 DEF TypeOK, OneGreeter, ExitsKept
      <3>2. CASE ~autologin
        <4>1. StartClients(Seats, bad, nohome)
          BY <1>4, <3>2 DEF XserverStarted
        <4>2. ClientsTyped' /\ OneGreeter' /\ ExitsKept
          BY <4>1, StartClientsInv
        <4>3. QED
          BY <2>1, <3>0, <4>1, <4>2 DEF TypeOK, ClientsTyped
      <3>3. QED
        BY <3>1, <3>2
    <2>3. ExitsMatch'
      <3>1. Serving /\ Len(queue) \in Nat
        BY <1>4 DEF XserverStarted, Serving, TypeOK
      <3>2. \A i \in 1 .. Len(queue') : i + 1 \in 1 .. Len(queue) /\ queue'[i] = queue[i + 1]
        BY <2>1, <3>1
      <3>3. \A i \in 1 .. Len(queue') : queue'[i] \in Seats => client'[queue'[i]] = "exited"
        BY <2>2, <3>1, <3>2 DEF ExitsMatch, ExitsKept
      <3>4. \A i, j \in 1 .. Len(queue') :
              queue'[i] \in Seats /\ queue'[i] = queue'[j] => i = j
        <4>1. SUFFICES ASSUME NEW i \in 1 .. Len(queue'), NEW j \in 1 .. Len(queue'),
                              queue'[i] \in Seats, queue'[i] = queue'[j]
                       PROVE  i = j
          OBVIOUS
        <4>2. i + 1 = j + 1
          BY <3>1, <3>2, <4>1 DEF ExitsMatch
        <4>3. QED
          BY <2>1, <3>1, <4>2
      <3>5. QED
        BY <3>3, <3>4 DEF ExitsMatch
    <2>4. QED
      BY <1>4, <2>2, <2>3 DEF XserverStarted, RestartAfterSession
  <1>5. ASSUME NEW s \in Seats, ClientDel(s)
        PROVE  DaemonInv'
    <2>1. queue' \in Seq(Events) /\ Len(queue') = Len(queue) - 1
          /\ \A i \in 1 .. Len(queue') : queue'[i] = queue[i + 1]
      BY <1>5 DEF ClientDel, TypeOK
    <2>2. Len(queue) \in Nat /\ Len(queue) > 0 /\ queue[1] = s
      BY <1>5 DEF ClientDel, TypeOK
    <2>3. client[s] = "exited" /\ \A i \in 2 .. Len(queue) : queue[i] # s
      BY <1>5, <2>2 DEF ClientDel, ExitsMatch, Serving
    <2>4. TypeOK' /\ OneGreeter'
      BY <1>5, <2>1, <2>3 DEF ClientDel, TypeOK, PCs, OneGreeter
    <2>5. ExitsMatch'
      BY <1>5, <2>1, <2>2, <2>3 DEF ClientDel, ExitsMatch, Serving, TypeOK
    <2>6. pc' = "session_wait" /\ client'[cur'] = "noexe"
      BY <1>5 DEF ClientDel, TypeOK
    <2>7. QED
      BY <2>4, <2>5, <2>6 DEF RestartAfterSession
  <1>6. ASSUME NEW s \in Seats, StaleHandler(s)
        PROVE  DaemonInv'
    BY <1>6 DEF StaleHandler, seatVars, TypeOK, PCs, OneGreeter, ExitsMatch, Serving,
                RestartAfterSession
  <1>7. CASE SessionWaitEnd
    <2>1. UNCHANGED <<cur, sig, autologin, uid, x, client, recpid, stale, greeters, spid, lost,
                      queue, inbox, faults>>
      BY <1>7 DEF SessionWaitEnd
    <2>2. CASE InService
      <3>1. pc' = "x_kill" /\ spid[cur] # "running" /\ UNCHANGED <<quit, sess>>
        BY <1>7, <2>2 DEF SessionWaitEnd, WaitOver, InService
      <3>2. client[cur] = "noexe"
        BY <1>7 DEF SessionWaitEnd
      <3>3. QED
        BY <1>7, <2>1, <3>1, <3>2 DEF SessionWaitEnd, TypeOK, PCs, OneGreeter, ExitsMatch,
                                      Serving, RestartAfterSession
    <2>3. CASE ~InService
      <3>1. pc' = "loop" /\ quit' \in BOOLEAN /\ sess' = [sess EXCEPT ![cur] = "freed"]
        BY <1>7, <2>3 DEF SessionWaitEnd
      <3>2. QED
        BY <1>7, <2>1, <3>1 DEF SessionWaitEnd, TypeOK, PCs, OneGreeter, ExitsMatch,
                                Serving, RestartAfterSession
    <2>4. QED
      BY <2>2, <2>3
  <1>8. ASSUME NEW forked \in BOOLEAN, XserverRestart(forked)
        PROVE  DaemonInv'
    <2>1. TypeOK'
      BY <1>8 DEF XserverRestart, NewX, FreedRecord, HandlersDel, Budget, TypeOK, PCs
    <2>2. OneGreeter'
      BY <1>8 DEF XserverRestart, NewX, FreedRecord, HandlersDel, OneGreeter, TypeOK
    <2>3. ExitsMatch'
      BY <1>8 DEF XserverRestart, NewX, FreedRecord, HandlersDel, ExitsMatch, Serving, TypeOK
    <2>4. QED
      BY <1>8, <2>1, <2>2, <2>3 DEF XserverRestart, NewX, FreedRecord, HandlersDel, RestartAfterSession
  <1>9. ASSUME NEW s \in Seats, NEW started \in BOOLEAN, Auth(s, started)
        PROVE  DaemonInv'
    BY <1>9 DEF Auth, SessionPid, TypeOK, PCs, OneGreeter, ExitsMatch, Serving, RestartAfterSession
  <1>10. ASSUME NEW s \in Seats, NEW m \in {"pid", "oldpid"}, ClientPidSet(s, m)
         PROVE  DaemonInv'
    BY <1>10 DEF ClientPidSet, TypeOK, PCs, OneGreeter, ExitsMatch, Serving,
                 RestartAfterSession
  <1>11. ASSUME NEW killed \in SUBSET Seats, Signal(killed)
         PROVE  DaemonInv'
    <2>1. TypeOK'
      <3>1. sig' \in BOOLEAN /\ quit' \in BOOLEAN
        BY <1>11 DEF Signal, SignalTargets, TypeOK
      <3>2. pc' \in PCs
        BY <1>11 DEF Signal, SignalTargets, TypeOK, PCs
      <3>3. client' \in [Seats -> {"none", "noexe", "running", "exited", "reaped", "left"}]
        BY <1>11 DEF Signal, SignalTargets, TypeOK
      <3>4. \A s \in killed : client[s] = "running"
        BY <1>11 DEF Signal, SignalTargets
      <3>5. \A s \in killed : greeters[s] = 1
        BY <3>4 DEF OneGreeter
      <3>6. greeters' = [s \in Seats |-> IF s \in killed THEN greeters[s] - 1 ELSE greeters[s]]
        BY <1>11 DEF Signal, SignalTargets
      <3>7. greeters' \in [Seats -> Nat]
        BY <3>5, <3>6 DEF TypeOK
      <3>8. UNCHANGED <<cur, autologin, uid, xephyr, x, recpid, stale, sess, spid, lost, queue,
                        inbox, faults>>
        BY <1>11 DEF Signal, SignalTargets
      <3>9. QED
        BY <3>1, <3>2, <3>3, <3>7, <3>8 DEF TypeOK
    <2>2. OneGreeter'
      BY <1>11 DEF Signal, SignalTargets, OneGreeter, TypeOK
    <2>3. ExitsMatch'
      BY <1>11 DEF Signal, SignalTargets, ExitsMatch, Serving, TypeOK
    <2>4. RestartAfterSession' /\ (pc' \in {"session_wait", "x_kill"} => client'[cur'] = "noexe")
      <3>1. pc' # pc => pc' = "crashed"
        BY <1>11 DEF Signal
      <3>2. UNCHANGED <<cur, spid>> /\ \A s \in Seats : client[s] = "noexe" => client'[s] = "noexe"
        BY <1>11 DEF Signal, SignalTargets
      <3>3. QED
        BY <3>1, <3>2 DEF RestartAfterSession, TypeOK
    <2>5. QED
      BY <2>1, <2>2, <2>3, <2>4
  <1>12. CASE MainLoopEnd
    BY <1>12 DEF MainLoopEnd, seatVars, TypeOK, PCs, OneGreeter, ExitsMatch, Serving,
                 RestartAfterSession
  <1>13. CASE Shutdown
    BY <1>13 DEF Shutdown, TypeOK, PCs, OneGreeter, ExitsMatch, Serving, RestartAfterSession
  <1>14. CASE Teardown
    BY <1>14 DEF Teardown, TypeOK, PCs, OneGreeter, ExitsMatch, Serving, RestartAfterSession
  <1>15. ASSUME NEW s \in Seats, XReady(s)
         PROVE  DaemonInv'
    <2>1. queue' \in Seq(Events) /\ Len(queue') = Len(queue) + 1
          /\ queue'[Len(queue) + 1] = Usr1
          /\ \A i \in 1 .. Len(queue) : queue'[i] = queue[i]
      BY <1>15 DEF XReady, TypeOK
    <2>2. QED
      BY <1>15, <2>1 DEF XReady, TypeOK, PCs, OneGreeter, ExitsMatch, Serving,
                         RestartAfterSession
  <1>16. ASSUME NEW s \in Seats, XDies(s)
         PROVE  DaemonInv'
    BY <1>16 DEF XDies, Budget, TypeOK, PCs, OneGreeter, ExitsMatch, Serving,
                 RestartAfterSession
  <1>17. ASSUME NEW s \in Seats, SendAuth(s)
         PROVE  DaemonInv'
    BY <1>17 DEF SendAuth, TypeOK, PCs, OneGreeter, ExitsMatch, Serving,
                 RestartAfterSession
  <1>18. ASSUME NEW s \in Seats, NEW connected \in BOOLEAN, GreeterExit(s, connected)
         PROVE  DaemonInv'
    <2>1. queue' \in Seq(Events) /\ Len(queue') = Len(queue) + 1
          /\ queue'[Len(queue) + 1] = s
          /\ \A i \in 1 .. Len(queue) : queue'[i] = queue[i]
      BY <1>18 DEF GreeterExit, TypeOK
    <2>2. TypeOK' /\ OneGreeter'
      BY <1>18, <2>1 DEF GreeterExit, TypeOK, OneGreeter
    <2>3. ExitsMatch'
      BY <1>18, <2>1 DEF GreeterExit, ExitsMatch, Serving, TypeOK
    <2>4. QED
      BY <1>18, <2>2, <2>3 DEF GreeterExit, RestartAfterSession, TypeOK
  <1>19. ASSUME NEW s \in Seats, SessionExit(s)
         PROVE  DaemonInv'
    <2>1. lost' \in [Seats -> Nat]
      <3>1. CASE lost' = lost
        BY <3>1 DEF TypeOK
      <3>2. CASE lost[s] > 0 /\ lost' = [lost EXCEPT ![s] = @ - 1]
        BY <3>2 DEF TypeOK
      <3>3. QED
        BY <1>19, <3>1, <3>2 DEF SessionExit
    <2>2. spid' = spid \/ spid' = [spid EXCEPT ![s] = "dead"]
      BY <1>19 DEF SessionExit
    <2>3. UNCHANGED <<pc, cur, quit, sig, autologin, uid, xephyr, x, client, recpid, stale, greeters,
                      sess, queue, inbox, faults>>
      BY <1>19 DEF SessionExit
    <2>4. TypeOK'
      BY <2>1, <2>2, <2>3 DEF TypeOK
    <2>5. RestartAfterSession'
      BY <2>2, <2>3 DEF RestartAfterSession, TypeOK
    <2>6. QED
      BY <2>3, <2>4, <2>5 DEF OneGreeter, ExitsMatch, Serving
  <1>20. CASE UNCHANGED vars
    BY <1>20 DEF vars, seatVars, TypeOK, OneGreeter, ExitsMatch, Serving,
                 RestartAfterSession
  <1>21. CASE Handler
    BY <1>21, <1>4, <1>5, <1>9, <1>10 DEF Handler
  <1>22. CASE Daemon
    <2> HIDE DEF DaemonInv
    <2>1. CASE \E auto \in {FALSE, AutoLogin}, badX, bad \in SUBSET Seats,
                  locked, seen, nohome \in BOOLEAN :
                 Boot(auto, badX, locked, seen, bad, nohome)
      <3>1. PICK auto \in {FALSE, AutoLogin}, badX \in SUBSET Seats, bad \in SUBSET Seats,
                 locked \in BOOLEAN, seen \in BOOLEAN, nohome \in BOOLEAN :
                   Boot(auto, badX, locked, seen, bad, nohome)
        BY <2>1, Zenon
      <3>2. QED
        BY <3>1, <1>1, Zenon
    <2>2. CASE \/ \E started \in BOOLEAN : AutoLoginStart(started)
               \/ \E bad \in SUBSET Seats, nohome \in BOOLEAN : AutoLoginEnd(bad, nohome)
      BY <2>2, <1>2, <1>3
    <2>3. CASE \/ SessionWaitEnd
               \/ \E forked \in BOOLEAN : XserverRestart(forked)
               \/ MainLoopEnd \/ Shutdown \/ Teardown
      BY <2>3, <1>7, <1>8, <1>12, <1>13, <1>14
    <2>4. QED
      BY <1>22, <2>1, <2>2, <2>3 DEF Daemon
  <1>23. CASE Environment
    BY <1>23, <1>6, <1>11, <1>15, <1>16, <1>17, <1>18, <1>19 DEF Environment
  <1>24. QED
    BY <1>20, <1>21, <1>22, <1>23 DEF Next

\* The supervisor's invariant holds in every reachable state.
THEOREM Invariance == Spec => []DaemonInv
  BY InitInv, StepInv, PTL DEF Spec

\* Every variable keeps its type.
THEOREM TypeCorrect == Spec => []TypeOK
  BY Invariance, PTL DEF DaemonInv

\* A seat never has a second greeter (_entrance_start_client returns early
\* when the record has an exe), however signals, exits and restarts fall.
THEOREM GreeterUnique == Spec => []OneGreeter
  BY Invariance, PTL DEF DaemonInv

\* _entrance_client_del finds the record of the greeter that exited, once.
THEOREM ExitsAreMatched == Spec => []ExitsMatch
  BY Invariance, PTL DEF DaemonInv

\* The X server of a seat is killed for a restart only after the session the
\* seat knows of has ended.
THEOREM RestartIsLast == Spec => []RestartAfterSession
  BY Invariance, PTL DEF DaemonInv

-----------------------------------------------------------------------------
(* Greeters that log in once and wait for the answer.                      *)

\* What a greeter that waits leaves in its socket: nothing once it is gone,
\* and no login beside a session of its seat.
PatientSeats ==
  \A s \in Seats :
    /\ inbox[s] # {} => client[s] \in {"running", "reaped", "left"}
    /\ "oldpid" \notin inbox[s]
    /\ "auth" \in inbox[s] => spid[s] = "none"
    /\ lost[s] = 0

\* Before the main loop turns, not even its pid was read.
PidsUnread ==
  \A s \in Seats :
    /\ inbox[s] \subseteq {"pid"}
    /\ client[s] = "running" => inbox[s] = {"pid"}

\* The main loop does not turn yet: no exit event and no message is handled.
Starting == pc \in {"init", "autologin", "auto_wait"}

\* The inductive invariant behind a greeter's one login.
PatientInv == PatientSeats /\ (Starting => PidsUnread)

\* A start of greeters only adds the pid of those that it starts.
LEMMA StartClientsPatient ==
  ASSUME TypeOK, PatientInv,
         NEW T \in SUBSET Seats, NEW bad \in SUBSET Seats, NEW nohome \in BOOLEAN,
         StartClients(T, bad, nohome), UNCHANGED lost,
         \A s \in Seats : spid'[s] \in {spid[s], "none"}
  PROVE  PatientSeats' /\ (Starting => PidsUnread')
  BY DEF StartClients, TypeOK, HasExe, PatientInv, PatientSeats, PidsUnread

\* With such greeters every step preserves it.
LEMMA PatientStep ==
  ASSUME PatientGreeter, DaemonInv, PatientInv, [Next]_vars
  PROVE  PatientInv'
  <1> USE SeatsFacts DEF DaemonInv
  <1>1. ASSUME NEW auto \in {FALSE, AutoLogin}, NEW badX \in SUBSET Seats, NEW bad \in SUBSET Seats,
               NEW locked \in BOOLEAN, NEW seen \in BOOLEAN, NEW nohome \in BOOLEAN,
               Boot(auto, badX, locked, seen, bad, nohome)
        PROVE  PatientInv'
    <2>1. pc = "init" /\ UNCHANGED <<spid, lost>>
      BY <1>1 DEF Boot
    <2>2. CASE xephyr
      <3>1. StartClients({0}, bad, nohome)
        BY <1>1, <2>2 DEF Boot
      <3>2. PatientSeats' /\ (Starting => PidsUnread')
        BY <2>1, <3>1, StartClientsPatient
      <3>3. QED
        BY <2>1, <3>2 DEF PatientInv, PatientSeats, PidsUnread, Starting
    <2>3. CASE ~xephyr
      BY <1>1, <2>1, <2>3 DEF Boot, PatientInv, PatientSeats, PidsUnread, Starting
    <2>4. QED
      BY <2>2, <2>3
  <1>2. ASSUME NEW started \in BOOLEAN, AutoLoginStart(started)
        PROVE  PatientInv'
    BY <1>2 DEF AutoLoginStart, PatientInv, PatientSeats, PidsUnread, Starting, TypeOK
  <1>3. ASSUME NEW bad \in SUBSET Seats, NEW nohome \in BOOLEAN, AutoLoginEnd(bad, nohome)
        PROVE  PatientInv'
    <2>1. pc' = "loop" /\ UNCHANGED lost /\ \A s \in Seats : spid'[s] \in {spid[s], "none"}
      BY <1>3 DEF AutoLoginEnd, TypeOK
    <2>2. CASE sig
      BY <1>3, <2>1, <2>2 DEF AutoLoginEnd, PatientInv, PatientSeats, PidsUnread, Starting
    <2>3. CASE ~sig
      <3>1. StartClients({0}, bad, nohome)
        BY <1>3, <2>3 DEF AutoLoginEnd
      <3>2. PatientSeats' /\ (Starting => PidsUnread')
        BY <2>1, <3>1, StartClientsPatient
      <3>3. QED
        BY <2>1, <3>2 DEF PatientInv, PatientSeats, PidsUnread, Starting
    <2>4. QED
      BY <2>2, <2>3
  <1>4. ASSUME NEW bad \in SUBSET Seats, NEW nohome \in BOOLEAN, XserverStarted(bad, nohome)
        PROVE  PatientInv'
    <2>1. pc = "loop" /\ UNCHANGED <<pc, spid, lost>>
      BY <1>4 DEF XserverStarted
    <2>2. CASE autologin
      BY <1>4, <2>1, <2>2 DEF XserverStarted, PatientInv, PatientSeats, PidsUnread, Starting
    <2>3. CASE ~autologin
      <3>1. StartClients(Seats, bad, nohome)
        BY <1>4, <2>3 DEF XserverStarted
      <3>2. PatientSeats' /\ (Starting => PidsUnread')
        BY <2>1, <3>1, StartClientsPatient
      <3>3. QED
        BY <2>1, <3>2 DEF PatientInv, PatientSeats, PidsUnread, Starting
    <2>4. QED
      BY <2>2, <2>3
  <1>5. ASSUME NEW s \in Seats, ClientDel(s)
        PROVE  PatientInv'
    <2>1. Len(queue) \in Nat /\ Len(queue) > 0 /\ queue[1] = s
      BY <1>5 DEF ClientDel, TypeOK
    <2>2. client[s] = "exited"
      BY <1>5, <2>1 DEF ClientDel, ExitsMatch, Serving
    <2>3. QED
      BY <1>5, <2>2 DEF ClientDel, PatientInv, PatientSeats, PidsUnread, Starting, TypeOK
  <1>6. ASSUME NEW s \in Seats, StaleHandler(s)
        PROVE  PatientInv'
    BY <1>6 DEF StaleHandler, seatVars, PatientInv, PatientSeats, PidsUnread, Starting
  <1>7. CASE SessionWaitEnd
    BY <1>7 DEF SessionWaitEnd, PatientInv, PatientSeats, PidsUnread, Starting
  <1>8. ASSUME NEW forked \in BOOLEAN, XserverRestart(forked)
        PROVE  PatientInv'
    <2>1. pc' = "loop" /\ client[cur] = "noexe" /\ inbox' = inbox
      BY <1>8 DEF XserverRestart
    <2>2. inbox[cur] = {}
      BY <2>1 DEF PatientInv, PatientSeats, PidsUnread, Starting, TypeOK
    <2>3. \A s \in Seats : s # cur /\ client[s] \in {"running", "reaped", "left"}
                            => client'[s] \in {"running", "reaped", "left"}
      BY <1>8 DEF XserverRestart
    <2>4. \A s \in Seats : (spid[s] = "none" => spid'[s] = "none")
                            /\ (lost[s] = 0 => lost'[s] = 0)
      BY <1>8 DEF XserverRestart
    <2>5. PatientSeats'
      BY <2>1, <2>2, <2>3, <2>4 DEF PatientInv, PatientSeats
    <2>6. QED
      BY <2>1, <2>5 DEF PatientInv, Starting
  <1>9. ASSUME NEW s \in Seats, NEW started \in BOOLEAN, Auth(s, started)
        PROVE  PatientInv'
    BY <1>9 DEF Auth, SessionPid, PatientInv, PatientSeats, PidsUnread, Starting, TypeOK
  <1>10. ASSUME NEW s \in Seats, NEW m \in {"pid", "oldpid"}, ClientPidSet(s, m)
         PROVE  PatientInv'
    BY <1>10 DEF ClientPidSet, PatientInv, PatientSeats, PidsUnread, Starting, TypeOK
  <1>11. ASSUME NEW killed \in SUBSET Seats, Signal(killed)
         PROVE  PatientInv'
    <2>1. UNCHANGED <<inbox, spid, lost>>
      BY <1>11 DEF Signal
    <2>2. \A s \in Seats : client'[s] = client[s] \/ client'[s] \in {"reaped", "left"}
      BY <1>11 DEF Signal
    <2>3. pc' \in {pc, "crashed"} \cup {"teardown"}
      BY <1>11 DEF Signal
    <2>4. QED
      BY <2>1, <2>2, <2>3 DEF PatientInv, PatientSeats, PidsUnread, Starting
  <1>12. CASE MainLoopEnd
    BY <1>12 DEF MainLoopEnd, seatVars, PatientInv, PatientSeats, PidsUnread, Starting
  <1>13. CASE Shutdown
    BY <1>13 DEF Shutdown, PatientInv, PatientSeats, PidsUnread, Starting
  <1>14. CASE Teardown
    BY <1>14 DEF Teardown, PatientInv, PatientSeats, PidsUnread, Starting
  <1>15. ASSUME NEW s \in Seats, XReady(s) \/ XDies(s)
         PROVE  PatientInv'
    BY <1>15 DEF XReady, XDies, PatientInv, PatientSeats, PidsUnread, Starting
  <1>16. ASSUME NEW s \in Seats, SendAuth(s)
         PROVE  PatientInv'
    <2>1. client[s] = "running" /\ "pid" \notin inbox[s] /\ spid[s] = "none"
      BY <1>16 DEF SendAuth
    <2>2. ~Starting
      BY <2>1 DEF PatientInv, PidsUnread
    <2>3. inbox' = [inbox EXCEPT ![s] = @ \cup {"auth"}] /\ UNCHANGED <<pc, client, spid, lost>>
      BY <1>16 DEF SendAuth
    <2>4. QED
      BY <2>1, <2>2, <2>3 DEF PatientInv, PatientSeats, Starting, TypeOK
  <1>17. ASSUME NEW s \in Seats, NEW connected \in BOOLEAN, GreeterExit(s, connected)
         PROVE  PatientInv'
    <2>1. inbox[s] = {}
      BY <1>17 DEF GreeterExit, PatientInv, PatientSeats, PidsUnread, Starting, TypeOK
    <2>2. QED
      BY <1>17, <2>1 DEF GreeterExit, PatientInv, PatientSeats, PidsUnread, Starting, TypeOK
  <1>18. ASSUME NEW s \in Seats, SessionExit(s)
         PROVE  PatientInv'
    BY <1>18 DEF SessionExit, PatientInv, PatientSeats, PidsUnread, Starting, TypeOK
  <1>19. CASE UNCHANGED vars
    BY <1>19 DEF vars, seatVars, PatientInv, PatientSeats, PidsUnread, Starting
  <1>20. CASE Handler
    BY <1>20, <1>4, <1>5, <1>9, <1>10 DEF Handler
  <1>21. CASE Daemon
    <2>1. CASE \E auto \in {FALSE, AutoLogin}, badX, bad \in SUBSET Seats,
                  locked, seen, nohome \in BOOLEAN :
                 Boot(auto, badX, locked, seen, bad, nohome)
      <3>1. PICK auto \in {FALSE, AutoLogin}, badX \in SUBSET Seats, bad \in SUBSET Seats,
                 locked \in BOOLEAN, seen \in BOOLEAN, nohome \in BOOLEAN :
                   Boot(auto, badX, locked, seen, bad, nohome)
        BY <2>1, Zenon
      <3>2. QED
        BY <3>1, <1>1, Zenon
    <2>2. QED
      BY <1>21, <2>1, <1>2, <1>3, <1>7, <1>8, <1>12, <1>13, <1>14 DEF Daemon
  <1>22. CASE Environment
    BY <1>22, <1>6, <1>11, <1>15, <1>16, <1>17, <1>18 DEF Environment
  <1>23. QED
    BY <1>19, <1>20, <1>21, <1>22 DEF Next

\* No greeter is there at the start.
LEMMA PatientInit == Init => PatientInv
  BY DEF Init, PatientInv, PatientSeats, PidsUnread

\* What greeters that wait leave in their sockets.
THEOREM PatientInvariance ==
  ASSUME PatientGreeter
  PROVE  Spec => []PatientInv
  <1>1. DaemonInv /\ PatientInv /\ [Next]_vars => PatientInv'
    BY PatientStep
  <1>2. QED
    BY <1>1, PatientInit, Invariance, PTL DEF Spec

\* With greeters that log in once and wait for the answer, the X server of a
\* seat is replaced only when none of its sessions is alive, and no session is
\* forgotten for a second one (_entrance_client_del, _entrance_session_run).
THEOREM SessionsKeepTheirX ==
  ASSUME PatientGreeter
  PROVE  Spec => []NoSessionLosesItsX
  <1>1. DaemonInv /\ PatientInv => NoSessionLosesItsX
    BY DEF DaemonInv, TypeOK, RestartAfterSession, PatientInv, PatientSeats, NoSessionLosesItsX
  <1>2. QED
    BY <1>1, PatientInvariance, Invariance, PTL

\* Of all steps only an accepted AUTH and the autologin of main start a session.
LEMMA SessionStarts ==
  ASSUME TypeOK, [Next]_vars, NEW s \in Seats, spid[s] # "running", spid'[s] = "running"
  PROVE  \/ pc = "autologin"
         \/ \E started \in BOOLEAN : Auth(s, started)
  <1>1. ASSUME Handler
        PROVE  \E started \in BOOLEAN : Auth(s, started)
    <2>1. ASSUME NEW t \in Seats, NEW started \in BOOLEAN, Auth(t, started)
          PROVE  t = s
      BY <2>1 DEF Auth, SessionPid, TypeOK
    <2>2. ~\E bad \in SUBSET Seats, nohome \in BOOLEAN : XserverStarted(bad, nohome)
      BY DEF XserverStarted
    <2>3. ~\E t \in Seats : ClientDel(t) \/ \E m \in {"pid", "oldpid"} : ClientPidSet(t, m)
      BY DEF ClientDel, ClientPidSet
    <2>4. QED
      BY <1>1, <2>1, <2>2, <2>3 DEF Handler
  <1>2. ASSUME Daemon
        PROVE  pc = "autologin"
    <2>1. ~\E auto \in {FALSE, AutoLogin}, badX, bad \in SUBSET Seats,
              locked, seen, nohome \in BOOLEAN :
             Boot(auto, badX, locked, seen, bad, nohome)
      BY DEF Boot
    <2>2. ~\E bad \in SUBSET Seats, nohome \in BOOLEAN : AutoLoginEnd(bad, nohome)
      BY DEF AutoLoginEnd, TypeOK
    <2>3. ~\E forked \in BOOLEAN : XserverRestart(forked)
      BY DEF XserverRestart
    <2>4. ~SessionWaitEnd /\ ~MainLoopEnd /\ ~Shutdown /\ ~Teardown
      BY DEF SessionWaitEnd, MainLoopEnd, seatVars, Shutdown, Teardown
    <2>5. QED
      BY <1>2, <2>1, <2>2, <2>3, <2>4 DEF Daemon, AutoLoginStart
  <1>3. ~Environment
    <2>1. ~\E t \in Seats : StaleHandler(t) \/ XReady(t) \/ XDies(t) \/ SendAuth(t)
      BY DEF StaleHandler, seatVars, XReady, XDies, SendAuth
    <2>2. ~\E t \in Seats, connected \in BOOLEAN : GreeterExit(t, connected)
      BY DEF GreeterExit
    <2>3. ~\E t \in Seats : SessionExit(t)
      BY DEF SessionExit, TypeOK
    <2>4. ~\E killed \in SUBSET Seats : Signal(killed)
      BY DEF Signal
    <2>5. QED
      BY <2>1, <2>2, <2>3, <2>4 DEF Environment
  <1>4. ~UNCHANGED vars
    BY DEF vars, seatVars
  <1>5. QED
    BY <1>1, <1>2, <1>3, <1>4 DEF Next

\* A login session starts only where a greeter is shown that was told nothing
\* yet, or for the autologin (_entrance_server_read_cb, main).
THEOREM SessionsAreGreeted ==
  ASSUME PatientGreeter
  PROVE  Spec => SessionOnGreetedSeat
  <1> DEFINE OnGreeter == \A s \in Seats :
                            spid[s] # "running" /\ spid'[s] = "running"
                              => client[s] \in {"running", "reaped", "left"} \/ pc = "autologin"
  <1>1. DaemonInv /\ PatientInv /\ [Next]_vars => [OnGreeter]_vars
    <2> SUFFICES ASSUME DaemonInv, PatientInv, [Next]_vars,
                        NEW s \in Seats, spid[s] # "running", spid'[s] = "running",
                        pc # "autologin"
                 PROVE  client[s] \in {"running", "reaped", "left"}
      OBVIOUS
    <2>1. PICK started \in BOOLEAN : Auth(s, started)
      BY SessionStarts DEF DaemonInv
    <2>2. inbox[s] # {}
      BY <2>1 DEF Auth
    <2>3. QED
      BY <2>2 DEF PatientInv, PatientSeats
  <1>2. QED
    BY <1>1, PatientInvariance, Invariance, PTL DEF Spec, SessionOnGreetedSeat

-----------------------------------------------------------------------------
(* A daemon that nothing disturbs.                                         *)

\* Which way it was started does not change, and neither failures nor a signal
\* are forgotten.
LEMMA Remembered ==
  ASSUME TypeOK, [Next]_vars
  PROVE  /\ xephyr' = xephyr
         /\ faults' = 0 => faults = 0
         /\ ~sig' => ~sig
  <1> DEFINE Kept == xephyr' = xephyr /\ (faults' = 0 => faults = 0) /\ (~sig' => ~sig)
  <1>1. ASSUME Handler
        PROVE  Kept
    BY <1>1 DEF Handler, XserverStarted, ClientDel, ClientPidSet, Auth, Budget, TypeOK
  <1>2. ASSUME Daemon
        PROVE  Kept
    <2>1. CASE \E auto \in {FALSE, AutoLogin}, badX, bad \in SUBSET Seats,
                  locked, seen, nohome \in BOOLEAN :
                 Boot(auto, badX, locked, seen, bad, nohome)
      BY <2>1 DEF Boot, Budget, TypeOK
    <2>2. CASE \E bad \in SUBSET Seats, nohome \in BOOLEAN : AutoLoginEnd(bad, nohome)
      BY <2>2 DEF AutoLoginEnd, Budget, TypeOK
    <2>3. CASE \/ \E started \in BOOLEAN : AutoLoginStart(started)
               \/ \E forked \in BOOLEAN : XserverRestart(forked)
      BY <2>3 DEF AutoLoginStart, XserverRestart, Budget, TypeOK
    <2>4. CASE SessionWaitEnd \/ MainLoopEnd \/ Shutdown \/ Teardown
      BY <2>4 DEF SessionWaitEnd, MainLoopEnd, Shutdown, Teardown
    <2>5. QED
      BY <1>2, <2>1, <2>2, <2>3, <2>4 DEF Daemon
  <1>3. ASSUME Environment
        PROVE  Kept
    <2>1. CASE \E t \in Seats : StaleHandler(t) \/ XReady(t) \/ XDies(t) \/ SendAuth(t) \/ SessionExit(t)
      BY <2>1 DEF StaleHandler, XReady, XDies, SendAuth, SessionExit, Budget, TypeOK
    <2>2. CASE \E t \in Seats, connected \in BOOLEAN : GreeterExit(t, connected)
      BY <2>2 DEF GreeterExit
    <2>3. CASE \E killed \in SUBSET Seats : Signal(killed)
      BY <2>3 DEF Signal
    <2>4. QED
      BY <1>3, <2>1, <2>2, <2>3 DEF Environment
  <1>4. CASE UNCHANGED vars
    BY <1>4 DEF vars
  <1>5. QED
    BY <1>1, <1>2, <1>3, <1>4 DEF Next

\* What nothing disturbs is in service: no handler or session structure is left
\* over, every X server has a process, a record without exe is the one that
\* _entrance_client_del works on, and a seat without record has no session,
\* but for the one of the autologin.
Undisturbed ==
  /\ ~quit /\ pc \notin {"shutdown", "teardown", "exited", "crashed"}
  /\ \A s \in Seats :
       /\ ~stale[s] /\ sess[s] # "freed" /\ x[s] # "nofork"
       /\ client[s] = "noexe" => pc \in {"session_wait", "x_kill"} /\ s = cur
       /\ client[s] = "none" => spid[s] = "none" \/ (pc = "auto_wait" /\ s = 0)

\* The inductive invariant of a daemon that nothing disturbed.
ServiceInv == ~xephyr /\ (faults = 0 /\ ~sig => Undisturbed)

\* A start of greeters that meets no failure.
LEMMA StartClientsUndisturbed ==
  ASSUME TypeOK, Undisturbed, pc \notin {"session_wait", "x_kill"},
         NEW T \in SUBSET Seats, StartClients(T, {}, FALSE)
  PROVE  /\ ~quit'
         /\ \A s \in Seats :
              /\ ~stale'[s]
              /\ client'[s] # "noexe"
              /\ client'[s] = "none" => client[s] = "none" /\ s \notin T
  BY DEF StartClients, TypeOK, HasExe, Undisturbed

\* Every step that meets neither failure nor signal leaves the daemon in service.
LEMMA ServiceStep ==
  ASSUME PatientGreeter, DaemonInv, PatientInv, ServiceInv, [Next]_vars
  PROVE  ServiceInv'
  <1> USE SeatsFacts DEF DaemonInv
  <1> SUFFICES ASSUME faults' = 0, ~sig', faults = 0, ~sig, ~xephyr, Undisturbed
               PROVE  Undisturbed'
    BY Remembered DEF ServiceInv
  <1>0. ASSUME NEW failed, Budget(failed)
        PROVE  ~failed
    BY <1>0 DEF Budget
  <1>1. ASSUME NEW auto \in {FALSE, AutoLogin}, NEW badX \in SUBSET Seats, NEW bad \in SUBSET Seats,
               NEW locked \in BOOLEAN, NEW seen \in BOOLEAN, NEW nohome \in BOOLEAN,
               Boot(auto, badX, locked, seen, bad, nohome)
        PROVE  Undisturbed'
    <2>1. badX = {}
      BY <1>1, <1>0 DEF Boot
    <2>2. pc = "init" /\ pc' \in {"autologin", "loop"}
          /\ UNCHANGED <<quit, stale, client, spid>>
          /\ x' = [s \in Seats |-> "starting"] /\ sess' = [s \in Seats |-> "live"]
      BY <1>1, <2>1 DEF Boot
    <2>3. QED
      BY <2>2 DEF Undisturbed
  <1>2. ASSUME NEW started \in BOOLEAN, AutoLoginStart(started)
        PROVE  Undisturbed'
    BY <1>2 DEF AutoLoginStart, Undisturbed, TypeOK
  <1>3. ASSUME NEW bad \in SUBSET Seats, NEW nohome \in BOOLEAN, AutoLoginEnd(bad, nohome)
        PROVE  Undisturbed'
    <2>1. bad = {} /\ nohome = FALSE
      BY <1>3, <1>0 DEF AutoLoginEnd, StartClients
    <2>2. pc = "auto_wait" /\ pc' = "loop" /\ UNCHANGED <<x, sess>>
          /\ \A s \in Seats : spid'[s] \in {spid[s], "none"}
          /\ StartClients({0}, {}, FALSE)
      BY <1>3, <2>1 DEF AutoLoginEnd, TypeOK
    <2>3. QED
      BY <2>2, StartClientsUndisturbed DEF Undisturbed
  <1>4. ASSUME NEW bad \in SUBSET Seats, NEW nohome \in BOOLEAN, XserverStarted(bad, nohome)
        PROVE  Undisturbed'
    <2>1. pc = "loop" /\ UNCHANGED <<pc, x, sess, spid, cur>>
      BY <1>4 DEF XserverStarted
    <2>2. CASE autologin
      BY <1>4, <2>1, <2>2 DEF XserverStarted, Undisturbed
    <2>3. CASE ~autologin
      <3>1. bad = {} /\ nohome = FALSE
        BY <1>4, <1>0, <2>3 DEF XserverStarted, StartClients
      <3>2. StartClients(Seats, {}, FALSE)
        BY <1>4, <2>3, <3>1 DEF XserverStarted
      <3>3. QED
        BY <2>1, <3>2, StartClientsUndisturbed DEF Undisturbed
    <2>4. QED
      BY <2>2, <2>3
  <1>5. ASSUME NEW s \in Seats, ClientDel(s)
        PROVE  Undisturbed'
    BY <1>5 DEF ClientDel, Undisturbed, TypeOK
  <1>6. ASSUME NEW s \in Seats, StaleHandler(s)
        PROVE  FALSE
    BY <1>6 DEF StaleHandler, Undisturbed
  <1>7. CASE SessionWaitEnd
    <2>1. pc = "session_wait" /\ pc' = "x_kill" /\ UNCHANGED <<quit, sess, cur, x, client, stale, spid>>
      BY <1>7 DEF SessionWaitEnd, InService
    <2>2. QED
      BY <2>1 DEF Undisturbed
  <1>8. ASSUME NEW forked \in BOOLEAN, XserverRestart(forked)
        PROVE  Undisturbed'
    <2>1. forked /\ ~KillsAll(cur)
      BY <1>8, <1>0 DEF XserverRestart, KillsAll, Undisturbed, TypeOK
    <2>2. /\ pc' = "loop" /\ cur' = cur /\ quit' = quit /\ stale' = stale
          /\ x' = [s \in Seats |-> IF s = cur THEN "starting" ELSE x[s]]
          /\ client' = [s \in Seats |-> IF s = cur THEN "none" ELSE client[s]]
          /\ spid' = [s \in Seats |-> IF s = cur THEN "none" ELSE spid[s]]
          /\ sess' = [sess EXCEPT ![cur] = "live"]
      BY <1>8, <2>1 DEF XserverRestart, NewX, FreedRecord, HandlersDel, TypeOK
    <2>3. pc = "x_kill"
      BY <1>8 DEF XserverRestart
    <2>4. QED
      BY <2>2, <2>3 DEF Undisturbed, TypeOK
  <1>9. ASSUME NEW s \in Seats, NEW started \in BOOLEAN, Auth(s, started)
        PROVE  Undisturbed'
    <2>1. client[s] # "none" /\ sess[s] # "freed"
      BY <1>9 DEF Auth, PatientInv, PatientSeats, Undisturbed
    <2>2. pc' = pc /\ (spid' = spid \/ spid' = [spid EXCEPT ![s] = "running"])
          /\ UNCHANGED <<cur, quit, x, client, stale, sess>>
      BY <1>9, <2>1 DEF Auth, SessionPid
    <2>3. QED
      BY <2>1, <2>2 DEF Undisturbed, TypeOK
  <1>10. ASSUME NEW s \in Seats, NEW m \in {"pid", "oldpid"}, ClientPidSet(s, m)
         PROVE  Undisturbed'
    <2>1. client[s] # "none"
      BY <1>10 DEF ClientPidSet, PatientInv, PatientSeats
    <2>2. QED
      BY <1>10, <2>1 DEF ClientPidSet, Undisturbed
  <1>11. ASSUME NEW killed \in SUBSET Seats, Signal(killed)
         PROVE  FALSE
    BY <1>11 DEF Signal
  <1>12. ~MainLoopEnd /\ ~Shutdown /\ ~Teardown
    BY DEF MainLoopEnd, Shutdown, Teardown, Undisturbed
  <1>13. ASSUME NEW s \in Seats, XReady(s) \/ XDies(s) \/ SendAuth(s)
         PROVE  Undisturbed'
    <2>1. ~XDies(s)
      BY <1>0 DEF XDies
    <2>2. UNCHANGED <<pc, cur, quit, client, stale, sess, spid>>
          /\ \A t \in Seats : x'[t] \in {x[t], "ready"}
      BY <1>13, <2>1 DEF XReady, SendAuth, TypeOK
    <2>3. QED
      BY <2>2 DEF Undisturbed
  <1>14. ASSUME NEW s \in Seats, NEW connected \in BOOLEAN, GreeterExit(s, connected)
         PROVE  Undisturbed'
    BY <1>14 DEF GreeterExit, Undisturbed, TypeOK
  <1>15. ASSUME NEW s \in Seats, SessionExit(s)
         PROVE  Undisturbed'
    BY <1>15 DEF SessionExit, Undisturbed, TypeOK
  <1>16. CASE UNCHANGED vars
    BY <1>16 DEF vars, seatVars, Undisturbed
  <1>17. CASE Handler
    BY <1>17, <1>4, <1>5, <1>9, <1>10 DEF Handler
  <1>18. CASE Daemon
    <2>1. CASE \E auto \in {FALSE, AutoLogin}, badX, bad \in SUBSET Seats,
                  locked, seen, nohome \in BOOLEAN :
                 Boot(auto, badX, locked, seen, bad, nohome)
      <3>1. PICK auto \in {FALSE, AutoLogin}, badX \in SUBSET Seats, bad \in SUBSET Seats,
                 locked \in BOOLEAN, seen \in BOOLEAN, nohome \in BOOLEAN :
                   Boot(auto, badX, locked, seen, bad, nohome)
        BY <2>1, Zenon
      <3>2. QED
        BY <3>1, <1>1, Zenon
    <2>2. QED
      BY <1>18, <2>1, <1>2, <1>3, <1>7, <1>8, <1>12 DEF Daemon
  <1>19. CASE Environment
    BY <1>19, <1>6, <1>11, <1>13, <1>14, <1>15 DEF Environment
  <1>20. QED
    BY <1>16, <1>17, <1>18, <1>19 DEF Next

\* It is in service from the start.
LEMMA ServiceInit == ASSUME ~Xephyr PROVE Init => ServiceInv
  <1> SUFFICES ASSUME Init
               PROVE  ServiceInv
    OBVIOUS
  <1>1. ~xephyr
    BY DEF Init
  <1>2. ~quit /\ pc = "init"
    BY DEF Init
  <1>3. \A s \in Seats : ~stale[s] /\ sess[s] = "null" /\ x[s] = "none"
                          /\ client[s] = "none" /\ spid[s] = "none"
    BY DEF Init
  <1>4. QED
    BY <1>1, <1>2, <1>3 DEF ServiceInv, Undisturbed

\* Only failures and signals get a daemon of greeters that wait, outside of
\* Xephyr, out of service.
THEOREM ServiceInvariance ==
  ASSUME PatientGreeter, ~Xephyr
  PROVE  Spec => []ServiceInv
  <1>1. DaemonInv /\ PatientInv /\ ServiceInv /\ [Next]_vars => ServiceInv'
    BY ServiceStep
  <1>2. QED
    BY <1>1, ServiceInit, PatientInvariance, Invariance, PTL DEF Spec

\* Such a daemon follows no NULL pointer and frees nothing twice while it is in
\* service: it ends abnormally only when it is stopped or a call failed.
THEOREM SurvivesService ==
  ASSUME PatientGreeter, ~Xephyr
  PROVE  Spec => []CrashOnlyWhenStopped
  <1>1. DaemonInv /\ ServiceInv => CrashOnlyWhenStopped
    BY DEF DaemonInv, TypeOK, ServiceInv, Undisturbed, CrashOnlyWhenStopped
  <1>2. QED
    BY <1>1, ServiceInvariance, Invariance, PTL

-----------------------------------------------------------------------------
(* The user the greeters run as.                                           *)

\* Until uid and gid are known there is no greeter: main has not got to the
\* seats yet, or the daemon waits for its autologin to end.
AwaitsUser ==
  /\ \A s \in Seats : greeters[s] = 0
  /\ pc \in {"init", "crashed"} \/ autologin

\* The inductive invariant behind the user of the greeters.
UserInv ==
  /\ ~xephyr
  /\ pc = "init" => ~uid
  /\ faults = 0 /\ ~uid => AwaitsUser

\* No step that meets no failure starts a greeter before the user is known.
LEMMA UserStep ==
  ASSUME DaemonInv, UserInv, [Next]_vars
  PROVE  UserInv'
  <1> USE SeatsFacts DEF DaemonInv
  <1>1. /\ ~xephyr' /\ (faults' = 0 => faults = 0)
    BY Remembered DEF UserInv
  <1>2. ASSUME NEW failed, Budget(failed), faults' = 0
        PROVE  ~failed
    BY <1>2 DEF Budget, TypeOK
  <1>3. ASSUME NEW auto \in {FALSE, AutoLogin}, NEW badX \in SUBSET Seats, NEW bad \in SUBSET Seats,
               NEW locked \in BOOLEAN, NEW seen \in BOOLEAN, NEW nohome \in BOOLEAN,
               Boot(auto, badX, locked, seen, bad, nohome)
        PROVE  UserInv'
    <2>1. pc' # "init" /\ pc = "init"
      BY <1>3 DEF Boot
    <2>2. ASSUME faults' = 0, ~uid'
          PROVE  AwaitsUser'
      <3>1. autologin'
        BY <1>2, <1>3, <2>2 DEF Boot
      <3>2. greeters' = greeters
        BY <1>3 DEF Boot, UserInv
      <3>3. \A s \in Seats : greeters[s] = 0
        BY <1>1, <2>1, <2>2 DEF UserInv, AwaitsUser
      <3>4. QED
        BY <3>1, <3>2, <3>3 DEF AwaitsUser
    <2>3. QED
      BY <1>1, <2>1, <2>2 DEF UserInv
  <1>4. ASSUME NEW bad \in SUBSET Seats, NEW nohome \in BOOLEAN, AutoLoginEnd(bad, nohome)
        PROVE  UserInv'
    BY <1>1, <1>4 DEF AutoLoginEnd, UserAfterAutologin, UserInv, AwaitsUser
  <1>5. ASSUME NEW bad \in SUBSET Seats, NEW nohome \in BOOLEAN, XserverStarted(bad, nohome)
        PROVE  UserInv'
    BY <1>1, <1>5 DEF XserverStarted, UserInv, AwaitsUser
  \* Every other step leaves the user alone and only takes greeters away.
  <1> DEFINE Quiet == /\ UNCHANGED <<uid, autologin>>
                      /\ \/ \A s \in Seats : greeters[s] = 0 => greeters'[s] = 0
                         \/ \E s \in Seats : greeters[s] # 0
                      /\ pc \in {"init", "crashed"} => pc' \in {"init", "crashed"}
                      /\ pc' = "init" => pc = "init"
  <1>6. ASSUME Quiet
        PROVE  UserInv'
    BY <1>1, <1>6 DEF UserInv, AwaitsUser
  <1> HIDE DEF Quiet
  <1>7. ASSUME Handler
        PROVE  UserInv'
    <2>1. ASSUME NEW s \in Seats, ClientDel(s)
          PROVE  Quiet
      BY <2>1 DEF ClientDel, Quiet
    <2>2. ASSUME NEW s \in Seats, NEW m \in {"pid", "oldpid"}, ClientPidSet(s, m)
          PROVE  Quiet
      BY <2>2 DEF ClientPidSet, Quiet
    <2>3. ASSUME NEW s \in Seats, NEW started \in BOOLEAN, Auth(s, started)
          PROVE  Quiet
      BY <2>3 DEF Auth, Quiet
    <2>4. QED
      BY <1>5, <1>6, <1>7, <2>1, <2>2, <2>3 DEF Handler
  <1>8. ASSUME Daemon
        PROVE  UserInv'
    <2>1. CASE \E auto \in {FALSE, AutoLogin}, badX, bad \in SUBSET Seats,
                  locked, seen, nohome \in BOOLEAN :
                 Boot(auto, badX, locked, seen, bad, nohome)
      <3>1. PICK auto \in {FALSE, AutoLogin}, badX \in SUBSET Seats, bad \in SUBSET Seats,
                 locked \in BOOLEAN, seen \in BOOLEAN, nohome \in BOOLEAN :
                   Boot(auto, badX, locked, seen, bad, nohome)
        BY <2>1, Zenon
      <3>2. QED
        BY <3>1, <1>3, Zenon
    <2>2. ASSUME NEW started \in BOOLEAN, AutoLoginStart(started)
          PROVE  Quiet
      BY <2>2 DEF AutoLoginStart, Quiet
    <2>3. ASSUME NEW forked \in BOOLEAN, XserverRestart(forked)
          PROVE  Quiet
      BY <2>3 DEF XserverRestart, Quiet
    <2>4. ASSUME SessionWaitEnd \/ MainLoopEnd \/ Teardown
          PROVE  Quiet
      BY <2>4 DEF SessionWaitEnd, MainLoopEnd, Teardown, seatVars, Quiet
    <2>5. ASSUME Shutdown
          PROVE  Quiet
      BY <2>5 DEF Shutdown, Quiet
    <2>6. QED
      BY <1>4, <1>6, <1>8, <2>1, <2>2, <2>3, <2>4, <2>5 DEF Daemon
  <1>9. ASSUME Environment
        PROVE  Quiet
    <2>1. CASE \E s \in Seats : StaleHandler(s) \/ XReady(s) \/ XDies(s) \/ SendAuth(s) \/ SessionExit(s)
      BY <2>1 DEF StaleHandler, seatVars, XReady, XDies, SendAuth, SessionExit, Quiet
    <2>2. CASE \E s \in Seats, connected \in BOOLEAN : GreeterExit(s, connected)
      BY <2>2 DEF GreeterExit, OneGreeter, Alive, Quiet
    <2>3. CASE \E killed \in SUBSET Seats : Signal(killed)
      <3>1. PICK killed \in SUBSET Seats : Signal(killed)
        BY <2>3
      <3>2. /\ UNCHANGED <<uid, autologin>>
            /\ pc' \in {pc, "teardown", "crashed"} /\ (pc' = "teardown" => pc = "teardown")
            /\ \A s \in killed : client[s] = "running"
            /\ \A s \in Seats \ killed : greeters'[s] = greeters[s]
        BY <3>1 DEF Signal, SignalTargets
      <3>3. \A s \in killed : greeters[s] # 0
        BY <3>2 DEF OneGreeter
      <3>4. QED
        BY <3>2, <3>3 DEF Quiet
    <2>4. QED
      BY <1>9, <2>1, <2>2, <2>3 DEF Environment
  <1>10. ASSUME UNCHANGED vars
         PROVE  Quiet
    BY <1>10 DEF vars, seatVars, Quiet
  <1>11. QED
    BY <1>6, <1>7, <1>8, <1>9, <1>10 DEF Next

\* No greeter runs and no user is known at the start.
LEMMA UserInit == ASSUME ~Xephyr PROVE Init => UserInv
  <1> SUFFICES ASSUME Init
               PROVE  UserInv
    OBVIOUS
  <1>1. ~xephyr
    BY DEF Init
  <1>2. pc = "init" /\ ~uid /\ \A s \in Seats : greeters[s] = 0
    BY DEF Init
  <1>3. QED
    BY <1>1, <1>2 DEF UserInv, AwaitsUser

\* A daemon that is not started under Xephyr runs its greeters as the user of
\* the configuration: whatever the order of autologin, X servers and restarts,
\* none runs before _entrance_uid_gid_init unless a call failed.
THEOREM GreetersHaveUser ==
  ASSUME ~Xephyr
  PROVE  Spec => []GreeterHasUser
  <1>1. DaemonInv /\ UserInv /\ [Next]_vars => UserInv'
    BY UserStep
  <1>2. DaemonInv /\ UserInv => GreeterHasUser
    BY DEF DaemonInv, TypeOK, UserInv, AwaitsUser, GreeterHasUser
  <1>3. QED
    BY <1>1, <1>2, UserInit, Invariance, PTL DEF Spec

-----------------------------------------------------------------------------
(* Session structures freed twice.                                         *)

\* No step frees a session structure but those of a daemon that was told to stop.
LEMMA DoubleFreeStep ==
  ASSUME DaemonInv, DoubleFreeNeedsSignal, [Next]_vars
  PROVE  DoubleFreeNeedsSignal'
  <1> SUFFICES ASSUME ~sig', ~xephyr',
                      pc' \notin {"exited", "crashed"}
               PROVE  \A s \in Seats : sess'[s] # "freed"
    BY DEF DoubleFreeNeedsSignal
  <1> USE DEF DaemonInv
  <1>0. ~sig /\ ~xephyr
    BY Remembered
  <1>1. ASSUME pc \notin {"exited", "crashed"}
        PROVE  \A s \in Seats : sess[s] # "freed"
    BY <1>0, <1>1 DEF DoubleFreeNeedsSignal
  <1>2. CASE Handler
    BY <1>1, <1>2 DEF Handler, XserverStarted, ClientDel, ClientPidSet, Auth
  <1>3. CASE Daemon
    <2>1. CASE \E auto \in {FALSE, AutoLogin}, badX, bad \in SUBSET Seats,
                  locked, seen, nohome \in BOOLEAN :
                 Boot(auto, badX, locked, seen, bad, nohome)
      BY <2>1 DEF Boot
    <2>2. CASE \E bad \in SUBSET Seats, nohome \in BOOLEAN : AutoLoginEnd(bad, nohome)
      BY <1>1, <2>2 DEF AutoLoginEnd
    <2>3. CASE \E started \in BOOLEAN : AutoLoginStart(started)
      BY <1>1, <2>3 DEF AutoLoginStart, TypeOK
    <2>4. CASE \E forked \in BOOLEAN : XserverRestart(forked)
      BY <1>1, <2>4 DEF XserverRestart, TypeOK
    <2>5. CASE SessionWaitEnd
      BY <1>0, <1>1, <2>5 DEF SessionWaitEnd, InService
    <2>6. CASE MainLoopEnd \/ Shutdown
      BY <1>1, <2>6 DEF MainLoopEnd, Shutdown, seatVars
    <2>7. ~Teardown
      BY DEF Teardown
    <2>8. QED
      BY <1>3, <2>1, <2>2, <2>3, <2>4, <2>5, <2>6, <2>7 DEF Daemon
  <1>4. CASE Environment
    <2>1. CASE \E s \in Seats : StaleHandler(s) \/ XReady(s) \/ XDies(s) \/ SendAuth(s) \/ SessionExit(s)
      BY <1>1, <2>1 DEF StaleHandler, XReady, XDies, SendAuth, SessionExit, Alive
    <2>2. CASE \E s \in Seats, connected \in BOOLEAN : GreeterExit(s, connected)
      BY <1>1, <2>2 DEF GreeterExit, Alive
    <2>3. ~\E killed \in SUBSET Seats : Signal(killed)
      BY DEF Signal
    <2>4. QED
      BY <1>4, <2>1, <2>2, <2>3 DEF Environment
  <1>5. CASE UNCHANGED vars
    BY <1>1, <1>5 DEF vars, seatVars
  <1>6. QED
    BY <1>2, <1>3, <1>4, <1>5 DEF Next

\* A session structure is freed before the teardown only by the way out of
\* _entrance_client_del, which a daemon outside of Xephyr takes on a signal.
THEOREM DoubleFrees == Spec => []DoubleFreeNeedsSignal
  <1>1. Init => DoubleFreeNeedsSignal
    BY DEF Init, DoubleFreeNeedsSignal
  <1>2. DaemonInv /\ DoubleFreeNeedsSignal /\ [Next]_vars => DoubleFreeNeedsSignal'
    BY DoubleFreeStep
  <1>3. QED
    BY <1>1, <1>2, Invariance, PTL DEF Spec

-----------------------------------------------------------------------------
(* One seat: the start callback.                                           *)

\* While the X server of the seat starts, no greeter is there; a SIGUSR1 that
\* waits is the only one, no greeter is there either, and the X server it
\* came from was not replaced.
OneSeatInv ==
  ~xephyr /\ pc \notin {"teardown", "exited", "crashed"} =>
    /\ ~autologin /\ pc \notin {"autologin", "auto_wait"}
    /\ pc = "init" => x[0] = "none"
    /\ pc = "init" \/ x[0] = "starting" =>
         client[0] = "none" /\ \A i \in 1 .. Len(queue) : queue[i] # Usr1
    /\ \A i \in 1 .. Len(queue) :
         queue[i] = Usr1 => client[0] = "none" /\ x[0] \in {"ready", "dead"}
    /\ \A i, j \in 1 .. Len(queue) : queue[i] = Usr1 /\ queue[j] = Usr1 => i = j

\* Restarts and SIGUSR1 of the one seat alternate.
LEMMA OneSeatStep ==
  ASSUME SeatCount = 1, ~AutoLogin, DaemonInv, OneSeatInv, [Next]_vars
  PROVE  OneSeatInv'
  <1> USE SeatsFacts DEF DaemonInv
  <1> SUFFICES ASSUME ~xephyr, pc' \notin {"teardown", "exited", "crashed"}
               PROVE  OneSeatInv'
    BY Remembered DEF OneSeatInv
  <1>0. Seats = {0} /\ cur = 0 /\ Len(queue) \in Nat
    BY DEF Seats, TypeOK
  <1>1. ASSUME NEW auto \in {FALSE, AutoLogin}, NEW badX \in SUBSET Seats, NEW bad \in SUBSET Seats,
               NEW locked \in BOOLEAN, NEW seen \in BOOLEAN, NEW nohome \in BOOLEAN,
               Boot(auto, badX, locked, seen, bad, nohome)
        PROVE  OneSeatInv'
    <2>1. ~auto
      OBVIOUS
    <2>2. pc = "init" /\ pc' = "loop" /\ ~autologin' /\ UNCHANGED <<client, queue>>
      BY <1>1, <2>1 DEF Boot
    <2>3. QED
      BY <2>2 DEF OneSeatInv
  <1>2. ASSUME NEW bad \in SUBSET Seats, NEW nohome \in BOOLEAN, XserverStarted(bad, nohome)
        PROVE  OneSeatInv'
    <2>1. queue \in Seq(Events) /\ queue # <<>> /\ queue[1] = Usr1 /\ queue' = Tail(queue)
          /\ pc = "loop" /\ UNCHANGED <<pc, autologin, x>>
      BY <1>2 DEF XserverStarted, TypeOK
    <2>2. x[0] \in {"ready", "dead"} /\ \A i \in 2 .. Len(queue) : queue[i] # Usr1
      BY <1>0, <2>1 DEF OneSeatInv
    <2>3. \A i \in 1 .. Len(queue') : queue'[i] # Usr1
      BY <1>0, <2>1, <2>2
    <2>4. QED
      BY <2>1, <2>2, <2>3 DEF OneSeatInv
  <1>3. ASSUME NEW s \in Seats, ClientDel(s)
        PROVE  OneSeatInv'
    <2>1. queue \in Seq(Events) /\ queue # <<>> /\ queue[1] = s /\ queue' = Tail(queue)
          /\ pc = "loop" /\ pc' = "session_wait" /\ UNCHANGED <<autologin, x>>
      BY <1>3 DEF ClientDel, TypeOK
    <2>2. client[0] = "exited"
      BY <1>0, <2>1 DEF ExitsMatch, Serving
    <2>3. x[0] # "starting" /\ \A i \in 1 .. Len(queue) : queue[i] # Usr1
      BY <2>1, <2>2 DEF OneSeatInv
    <2>4. \A i \in 1 .. Len(queue') : queue'[i] # Usr1
      BY <1>0, <2>1, <2>3
    <2>5. QED
      BY <2>1, <2>3, <2>4 DEF OneSeatInv
  <1>4. ASSUME NEW forked \in BOOLEAN, XserverRestart(forked)
        PROVE  OneSeatInv'
    <2>1. client[0] = "noexe" /\ client'[0] = "none" /\ pc = "x_kill" /\ pc' = "loop"
          /\ UNCHANGED <<autologin, queue>>
      BY <1>0, <1>4 DEF XserverRestart, FreedRecord
    <2>2. \A i \in 1 .. Len(queue) : queue[i] # Usr1
      BY <2>1 DEF OneSeatInv
    <2>3. QED
      BY <2>1, <2>2 DEF OneSeatInv
  <1>5. ASSUME NEW s \in Seats, XReady(s)
        PROVE  OneSeatInv'
    <2>1. x[0] = "starting" /\ x'[0] = "ready" /\ queue' = Append(queue, Usr1)
          /\ UNCHANGED <<pc, autologin, client>>
      BY <1>0, <1>5 DEF XReady, TypeOK
    <2>2. client[0] = "none" /\ \A i \in 1 .. Len(queue) : queue[i] # Usr1
      BY <2>1 DEF OneSeatInv
    <2>3. \A i \in 1 .. Len(queue') : queue'[i] = Usr1 => i = Len(queue) + 1
      BY <2>1, <2>2 DEF TypeOK
    <2>4. pc # "init"
      BY <1>5, <2>1 DEF OneSeatInv, XReady
    <2>5. QED
      BY <2>1, <2>2, <2>3, <2>4 DEF OneSeatInv
  <1>6. ASSUME NEW s \in Seats, XDies(s)
        PROVE  OneSeatInv'
    <2>1. x[0] \in {"starting", "ready"} /\ x'[0] = "dead" /\ UNCHANGED <<pc, autologin, client, queue>>
      BY <1>0, <1>6 DEF XDies, TypeOK
    <2>2. QED
      BY <2>1 DEF OneSeatInv
  <1>7. ASSUME NEW s \in Seats, NEW connected \in BOOLEAN, GreeterExit(s, connected)
        PROVE  OneSeatInv'
    <2>1. client[0] = "running" /\ queue' = Append(queue, s) /\ UNCHANGED <<pc, autologin, x>>
      BY <1>0, <1>7 DEF GreeterExit
    <2>2. pc # "init" /\ x[0] # "starting" /\ \A i \in 1 .. Len(queue) : queue[i] # Usr1
      BY <2>1 DEF OneSeatInv
    <2>3. \A i \in 1 .. Len(queue') : queue'[i] # Usr1
      BY <2>1, <2>2 DEF TypeOK
    <2>4. QED
      BY <2>1, <2>2, <2>3 DEF OneSeatInv
  <1>8. ASSUME NEW killed \in SUBSET Seats, Signal(killed)
        PROVE  OneSeatInv'
    <2>1. pc' = pc /\ UNCHANGED <<autologin, x, queue>>
      BY <1>8 DEF Signal
    <2>2. client[0] = "none" => client'[0] = "none"
      BY <1>0, <1>8 DEF Signal, SignalTargets
    <2>3. QED
      BY <2>1, <2>2 DEF OneSeatInv
  \* Every other step leaves record, X server and queue alone.
  <1>9. ASSUME UNCHANGED <<autologin, x, client, queue>>,
               pc' \notin {"init", "autologin", "auto_wait"} \/ pc' = pc,
               pc \notin {"teardown", "exited", "crashed"}
        PROVE  OneSeatInv'
    BY <1>9 DEF OneSeatInv
  <1>10. CASE Handler
    <2>1. ASSUME NEW s \in Seats, NEW m \in {"pid", "oldpid"}, ClientPidSet(s, m)
          PROVE  OneSeatInv'
      BY <1>9, <2>1 DEF ClientPidSet
    <2>2. ASSUME NEW s \in Seats, NEW started \in BOOLEAN, Auth(s, started)
          PROVE  OneSeatInv'
      BY <1>9, <2>2 DEF Auth
    <2>3. QED
      BY <1>2, <1>3, <1>10, <2>1, <2>2 DEF Handler
  <1>11. CASE Daemon
    <2>1. CASE \E auto \in {FALSE, AutoLogin}, badX, bad \in SUBSET Seats,
                  locked, seen, nohome \in BOOLEAN :
                 Boot(auto, badX, locked, seen, bad, nohome)
      <3>1. PICK auto \in {FALSE, AutoLogin}, badX \in SUBSET Seats, bad \in SUBSET Seats,
                 locked \in BOOLEAN, seen \in BOOLEAN, nohome \in BOOLEAN :
                   Boot(auto, badX, locked, seen, bad, nohome)
        BY <2>1, Zenon
      <3>2. QED
        BY <3>1, <1>1, Zenon
    <2>2. ~\E started \in BOOLEAN : AutoLoginStart(started)
      BY DEF AutoLoginStart, OneSeatInv
    <2>3. ~\E bad \in SUBSET Seats, nohome \in BOOLEAN : AutoLoginEnd(bad, nohome)
      BY DEF AutoLoginEnd, OneSeatInv
    <2>4. CASE SessionWaitEnd \/ MainLoopEnd
      BY <1>9, <2>4 DEF SessionWaitEnd, MainLoopEnd, seatVars
    <2>5. ~Shutdown /\ ~Teardown
      BY DEF Shutdown, Teardown
    <2>6. QED
      BY <1>4, <1>11, <2>1, <2>2, <2>3, <2>4, <2>5 DEF Daemon
  <1>12. CASE Environment
    <2>1. ASSUME NEW s \in Seats, StaleHandler(s) \/ SendAuth(s) \/ SessionExit(s)
          PROVE  OneSeatInv'
      BY <1>9, <2>1 DEF StaleHandler, SendAuth, SessionExit, Alive
    <2>2. QED
      BY <1>5, <1>6, <1>7, <1>8, <1>12, <2>1 DEF Environment
  <1>13. CASE UNCHANGED vars
    BY <1>9, <1>13 DEF vars, seatVars
  <1>14. QED
    BY <1>10, <1>11, <1>12, <1>13 DEF Next

\* Only the SIGUSR1 handler starts greeters while nobody uses Xephyr or autologin.
LEMMA GreeterStarts ==
  ASSUME TypeOK, [Next]_vars, ~xephyr, pc # "auto_wait",
         NEW s \in Seats, client[s] # "running", client'[s] = "running"
  PROVE  \E bad \in SUBSET Seats, nohome \in BOOLEAN : XserverStarted(bad, nohome)
  <1>1. ~\E auto \in {FALSE, AutoLogin}, badX, bad \in SUBSET Seats,
            locked, seen, nohome \in BOOLEAN :
           Boot(auto, badX, locked, seen, bad, nohome)
    BY DEF Boot
  <1>2. ~\E bad \in SUBSET Seats, nohome \in BOOLEAN : AutoLoginEnd(bad, nohome)
    BY DEF AutoLoginEnd
  <1>3. ~\E forked \in BOOLEAN : XserverRestart(forked)
    BY DEF XserverRestart, FreedRecord
  <1>4. ~\E started \in BOOLEAN : AutoLoginStart(started)
    BY DEF AutoLoginStart
  <1>5. ~SessionWaitEnd /\ ~MainLoopEnd /\ ~Shutdown /\ ~Teardown
    BY DEF SessionWaitEnd, MainLoopEnd, seatVars, Shutdown, Teardown
  <1>6. ~\E t \in Seats : StaleHandler(t) \/ XReady(t) \/ XDies(t) \/ SendAuth(t) \/ SessionExit(t)
    BY DEF StaleHandler, seatVars, XReady, XDies, SendAuth, SessionExit
  <1>7. ~\E t \in Seats, connected \in BOOLEAN : GreeterExit(t, connected)
    BY DEF GreeterExit, TypeOK
  <1>8. ~\E killed \in SUBSET Seats : Signal(killed)
    BY DEF Signal
  <1>9. ~\E t \in Seats : ClientDel(t) \/ (\E m \in {"pid", "oldpid"} : ClientPidSet(t, m))
                          \/ (\E started \in BOOLEAN : Auth(t, started))
    BY DEF ClientDel, ClientPidSet, Auth, TypeOK
  <1>10. ~UNCHANGED vars
    BY DEF vars, seatVars
  <1>11. QED
    BY <1>1, <1>2, <1>3, <1>4, <1>5, <1>6, <1>7, <1>8, <1>9, <1>10
       DEF Next, Handler, Daemon, Environment

\* The daemon starts with the seat dark and no SIGUSR1 on its way.
LEMMA OneSeatInit == Init => OneSeatInv
  <1> SUFFICES ASSUME Init
               PROVE  OneSeatInv
    OBVIOUS
  <1>1. ~autologin /\ pc = "init" /\ queue = <<>> /\ client[0] = "none" /\ x[0] = "none"
    BY SeatsFacts DEF Init
  <1>2. QED
    BY <1>1 DEF OneSeatInv

\* A greeter that a step starts finds the X server of its seat up.
LEMMA ReadyXStep ==
  ASSUME SeatCount = 1, DaemonInv, OneSeatInv, [Next]_vars, NEW s \in Seats,
         ~xephyr, client[s] # "running", client'[s] = "running"
  PROVE  x[s] \in {"ready", "dead"} /\ x'[s] = x[s]
  <1>1. s = 0
    BY DEF Seats
  <1>2. pc \notin {"teardown", "exited", "crashed"}
    <2>1. pc # "auto_wait" \/ pc = "auto_wait"
      OBVIOUS
    <2>2. CASE pc = "auto_wait"
      BY <2>2
    <2>3. CASE pc # "auto_wait"
      <3>1. PICK bad \in SUBSET Seats, nohome \in BOOLEAN : XserverStarted(bad, nohome)
        BY <2>3, GreeterStarts DEF DaemonInv
      <3>2. QED
        BY <3>1 DEF XserverStarted
    <2>4. QED
      BY <2>2, <2>3
  <1>3. PICK bad \in SUBSET Seats, nohome \in BOOLEAN : XserverStarted(bad, nohome)
    BY <1>2, GreeterStarts DEF DaemonInv, OneSeatInv
  <1>4. queue[1] = Usr1 /\ 1 \in 1 .. Len(queue) /\ x' = x
    BY <1>3 DEF XserverStarted, DaemonInv, TypeOK
  <1>5. QED
    BY <1>1, <1>2, <1>4 DEF OneSeatInv

\* On the only seat, without autologin, a greeter is started for the X server
\* that reported ready and was not replaced since: the promise of
\* entrance_xserver.h that a second seat breaks.
THEOREM GreetersOnReadyX ==
  ASSUME SeatCount = 1, ~AutoLogin
  PROVE  Spec => GreeterOnReadyX
  <1> DEFINE OnReady == \A s \in Seats : ~xephyr /\ client[s] # "running" /\ client'[s] = "running"
                                          => x[s] \in {"ready", "dead"} /\ x'[s] = x[s]
  <1>1. DaemonInv /\ OneSeatInv /\ [Next]_vars => OneSeatInv'
    BY OneSeatStep
  <1>2. DaemonInv /\ OneSeatInv /\ [Next]_vars => [OnReady]_vars
    BY ReadyXStep
  <1>3. QED
    BY <1>1, <1>2, OneSeatInit, Invariance, PTL DEF Spec, GreeterOnReadyX

-----------------------------------------------------------------------------
(* The supervisor implements the lifecycle of a seat.                      *)

\* Nothing told the daemon to stop, and it is not gone.
Going == ~quit /\ ~sig /\ Alive

\* A seat of such a daemon: what is out of the ordinary was a failed call, and
\* without a greeter there is neither session nor pid of one, but on the seat
\* that a handler works on or main waits for.
SeatInOrder(s) ==
  /\ x[s] = "nofork" => faults # 0
  /\ client[s] # "left" /\ (client[s] = "reaped" => faults # 0)
  /\ client[s] \in {"none", "noexe"} => spid[s] = "none" \/ AtWork(s) \/ InAutoLogin(s)
  /\ pc = "init" => client[s] = "none"
  /\ pc = "autologin" => spid[s] = "none" /\ (s # 0 => client[s] = "none")

\* The inductive invariant behind the phases of a seat.
PhaseInv ==
  /\ pc \in {"shutdown", "teardown"} => quit
  /\ Going => \A s \in Seats : SeatInOrder(s)

\* A daemon told to stop stays so.
LEMMA StopsForGood ==
  ASSUME DaemonInv, PhaseInv, [Next]_vars
  PROVE  (pc' \in {"shutdown", "teardown"} => quit') /\ (Going' => Going)
  <1> DEFINE Stays == (pc' \in {"shutdown", "teardown"} => quit') /\ (Going' => Going)
  <1> USE DEF Going, Alive, PhaseInv
  <1>0. ASSUME NEW T \in SUBSET Seats, NEW bad \in SUBSET Seats, NEW nohome \in BOOLEAN,
               StartClients(T, bad, nohome)
        PROVE  quit' = (quit \/ nohome)
    BY <1>0, Zenon DEF StartClients
  <1>1. ASSUME Handler
        PROVE  Stays
    <2>1. ASSUME NEW bad \in SUBSET Seats, NEW nohome \in BOOLEAN, XserverStarted(bad, nohome)
          PROVE  Stays
      BY <1>0, <2>1 DEF XserverStarted
    <2>2. CASE \E s \in Seats : ClientDel(s)
      BY <2>2 DEF ClientDel
    <2>3. CASE \E s \in Seats, m \in {"pid", "oldpid"} : ClientPidSet(s, m)
      BY <2>3 DEF ClientPidSet
    <2>4. CASE \E s \in Seats, started \in BOOLEAN : Auth(s, started)
      BY <2>4 DEF Auth
    <2>5. QED
      BY <1>1, <2>1, <2>2, <2>3, <2>4 DEF Handler
  <1>2. ASSUME Daemon
        PROVE  Stays
    <2>1. CASE \E auto \in {FALSE, AutoLogin}, badX, bad \in SUBSET Seats,
                  locked, seen, nohome \in BOOLEAN :
                 Boot(auto, badX, locked, seen, bad, nohome)
      <3>1. PICK auto \in {FALSE, AutoLogin}, badX \in SUBSET Seats, bad \in SUBSET Seats,
                 locked \in BOOLEAN, seen \in BOOLEAN, nohome \in BOOLEAN :
                   Boot(auto, badX, locked, seen, bad, nohome)
        BY <2>1, Zenon
      <3>2. quit' = quit \/ quit' = (quit \/ nohome)
        BY <1>0, <3>1, SeatsFacts DEF Boot
      <3>3. sig' = sig /\ pc = "init" /\ pc' \in {"autologin", "loop"}
        BY <3>1 DEF Boot
      <3>4. QED
        BY <3>2, <3>3
    <2>2. ASSUME NEW bad \in SUBSET Seats, NEW nohome \in BOOLEAN, AutoLoginEnd(bad, nohome)
          PROVE  Stays
      <3>1. quit' = quit \/ quit' = (quit \/ nohome)
        BY <1>0, <2>2, SeatsFacts DEF AutoLoginEnd
      <3>2. QED
        BY <2>2, <3>1 DEF AutoLoginEnd
    <2>3. CASE \/ \E started \in BOOLEAN : AutoLoginStart(started)
               \/ \E forked \in BOOLEAN : XserverRestart(forked)
      BY <2>3 DEF AutoLoginStart, XserverRestart
    <2>4. CASE SessionWaitEnd \/ MainLoopEnd \/ Shutdown \/ Teardown
      BY <2>4 DEF SessionWaitEnd, MainLoopEnd, Shutdown, Teardown
    <2>5. QED
      BY <1>2, <2>1, <2>2, <2>3, <2>4 DEF Daemon
  <1>3. ASSUME Environment
        PROVE  Stays
    <2>1. CASE \E t \in Seats : StaleHandler(t) \/ XReady(t) \/ XDies(t) \/ SendAuth(t) \/ SessionExit(t)
      <3>1. pc' = "crashed" \/ UNCHANGED <<pc, quit, sig>>
        BY <2>1 DEF StaleHandler, XReady, XDies, SendAuth, SessionExit
      <3>2. QED
        BY <3>1
    <2>2. CASE \E t \in Seats, connected \in BOOLEAN : GreeterExit(t, connected)
      BY <2>2 DEF GreeterExit
    <2>3. CASE \E killed \in SUBSET Seats : Signal(killed)
      BY <2>3 DEF Signal
    <2>4. QED
      BY <1>3, <2>1, <2>2, <2>3 DEF Environment
  <1>4. ASSUME UNCHANGED vars
        PROVE  Stays
    BY <1>4 DEF vars
  <1>5. QED
    BY <1>1, <1>2, <1>3, <1>4 DEF Next

\* A failure is counted.
LEMMA Counted ==
  ASSUME TypeOK, NEW failed, Budget(failed)
  PROVE  (failed => faults' # 0) /\ (faults # 0 => faults' # 0)
  BY DEF Budget, TypeOK

\* What a start of greeters leaves on a seat: a greeter it had, one that it
\* started, or, after a failure, a record without one.
LEMMA StartClientsSeats ==
  ASSUME TypeOK, NEW T \in SUBSET Seats, NEW bad \in SUBSET Seats, NEW nohome \in BOOLEAN,
         StartClients(T, bad, nohome)
  PROVE  /\ bad \subseteq T
         /\ \A s \in Seats :
              client'[s] = IF s \in bad THEN "noexe"
                           ELSE IF s \in T /\ client[s] \in {"none", "noexe"} THEN "running"
                           ELSE client[s]
         /\ \A s \in bad : client[s] \in {"none", "noexe"}
  BY DEF StartClients, HasExe, TypeOK

\* A step of the daemon in service keeps its seats in order.
LEMMA PhaseInvStep ==
  ASSUME PatientGreeter, DaemonInv, PatientInv, PhaseInv, [Next]_vars
  PROVE  PhaseInv'
  <1> USE SeatsFacts DEF DaemonInv
  <1>1. SUFFICES ASSUME Going'
                 PROVE  \A s \in Seats : SeatInOrder(s)'
    BY StopsForGood DEF PhaseInv
  <1>2. Going /\ \A s \in Seats : SeatInOrder(s)
    BY <1>1, StopsForGood DEF PhaseInv
  <1>3. pc \notin {"shutdown", "teardown", "exited", "crashed"}
        /\ pc' \notin {"shutdown", "teardown", "exited", "crashed"}
    BY <1>1, <1>2, StopsForGood DEF Going, Alive, PhaseInv
  <1>4. ~quit' /\ ~sig' /\ ~quit /\ ~sig
    BY <1>1, <1>2 DEF Going
  \* A step that leaves the seats as they are.
  <1>a. ASSUME UNCHANGED <<pc, cur, x, client, spid>>, faults # 0 => faults' # 0
        PROVE  \A s \in Seats : SeatInOrder(s)'
    BY <1>2, <1>a DEF SeatInOrder, AtWork, InAutoLogin
  <1>5. ASSUME NEW auto \in {FALSE, AutoLogin}, NEW badX \in SUBSET Seats,
               NEW bad \in SUBSET Seats, NEW locked \in BOOLEAN, NEW seen \in BOOLEAN,
               NEW nohome \in BOOLEAN, Boot(auto, badX, locked, seen, bad, nohome)
        PROVE  \A s \in Seats : SeatInOrder(s)'
    <2>1. \A s \in Seats : client[s] = "none" /\ spid[s] = "none" /\ spid'[s] = "none"
      BY <1>2, <1>5 DEF Boot, SeatInOrder, AtWork, InAutoLogin
    <2>2. \A s \in Seats : client'[s] \in {"none", "noexe", "running"}
                           /\ (s # 0 => client'[s] = "none")
      <3>1. CASE xephyr
        <4>1. StartClients({0}, bad, nohome)
          BY <1>5, <3>1 DEF Boot
        <4>2. \A s \in Seats : client'[s] = IF s \in bad THEN "noexe"
                                             ELSE IF s \in {0} THEN "running" ELSE "none"
          BY <2>1, <4>1, StartClientsSeats
        <4>3. bad \subseteq {0}
          BY <4>1, StartClientsSeats
        <4>4. QED
          BY <4>2, <4>3
      <3>2. CASE ~xephyr
        BY <1>5, <2>1, <3>2 DEF Boot
      <3>3. QED
        BY <3>1, <3>2
    <2>3. \A s \in Seats : x'[s] = "nofork" => faults' # 0
      <3>1. badX # {} => faults' # 0
        BY <1>5, Counted DEF Boot
      <3>2. faults # 0 => faults' # 0
        BY <1>5, Counted DEF Boot
      <3>3. CASE xephyr
        BY <1>2, <1>5, <3>2, <3>3 DEF Boot, SeatInOrder
      <3>4. CASE ~xephyr
        BY <1>5, <3>1, <3>4 DEF Boot
      <3>5. QED
        BY <3>3, <3>4
    <2>4. pc' \in {"autologin", "loop"}
      BY <1>5 DEF Boot
    <2>5. QED
      BY <2>1, <2>2, <2>3, <2>4 DEF SeatInOrder
  <1>6. ASSUME NEW started \in BOOLEAN, AutoLoginStart(started)
        PROVE  \A s \in Seats : SeatInOrder(s)'
    <2>1. \A s \in Seats : spid[s] = "none" /\ spid'[s] = IF s = 0 /\ started THEN "running" ELSE "none"
      BY <1>2, <1>6 DEF AutoLoginStart, SeatInOrder, TypeOK
    <2>2. faults # 0 => faults' # 0
      BY <1>6, Counted DEF AutoLoginStart
    <2>3. QED
      BY <1>2, <1>6, <2>1, <2>2 DEF AutoLoginStart, SeatInOrder, InAutoLogin, AtWork
  <1>7. ASSUME NEW bad \in SUBSET Seats, NEW nohome \in BOOLEAN, AutoLoginEnd(bad, nohome)
        PROVE  \A s \in Seats : SeatInOrder(s)'
    <2>1. /\ StartClients({0}, bad, nohome)
          /\ \A s \in Seats : spid'[s] = IF s = 0 THEN "none" ELSE spid[s]
      BY <1>4, <1>7 DEF AutoLoginEnd, TypeOK
    <2>2. faults # 0 => faults' # 0
      BY <1>7, Counted DEF AutoLoginEnd
    <2>3. \A s \in Seats : client'[s] \in {"none", "noexe", "running"} \/ client'[s] = client[s]
      BY <2>1 DEF StartClients
    <2>4. \A s \in Seats \ {0} : client'[s] = client[s]
      BY <2>1, StartClientsSeats
    <2>5. \A s \in Seats : client'[s] \in {"none", "noexe"} => spid'[s] = "none"
      BY <1>2, <1>7, <2>1, <2>4 DEF AutoLoginEnd, SeatInOrder, AtWork, InAutoLogin
    <2>6. QED
      BY <1>2, <1>7, <2>2, <2>3, <2>5 DEF AutoLoginEnd, SeatInOrder
  <1>8. ASSUME NEW bad \in SUBSET Seats, NEW nohome \in BOOLEAN, XserverStarted(bad, nohome)
        PROVE  \A s \in Seats : SeatInOrder(s)'
    <2>1. faults # 0 => faults' # 0
      BY <1>8, Counted DEF XserverStarted
    <2>2. CASE autologin
      BY <1>a, <1>8, <2>1, <2>2 DEF XserverStarted
    <2>3. CASE ~autologin
      <3>1. StartClients(Seats, bad, nohome)
        BY <1>8, <2>3 DEF XserverStarted
      <3>2. \A s \in Seats : client'[s] \in {"noexe", "running"} \/ client'[s] = client[s]
        BY <3>1, StartClientsSeats
      <3>3. \A s \in Seats : client'[s] \in {"none", "noexe"} => client[s] \in {"none", "noexe"}
        BY <3>1, StartClientsSeats
      <3>4. QED
        BY <1>2, <1>8, <2>1, <3>2, <3>3 DEF XserverStarted, SeatInOrder, AtWork, InAutoLogin
    <2>4. QED
      BY <2>2, <2>3
  <1>9. ASSUME NEW s \in Seats, ClientDel(s)
        PROVE  \A t \in Seats : SeatInOrder(t)'
    BY <1>2, <1>9 DEF ClientDel, SeatInOrder, AtWork, InAutoLogin, TypeOK
  <1>10. ASSUME SessionWaitEnd
         PROVE  \A s \in Seats : SeatInOrder(s)'
    BY <1>2, <1>4, <1>10 DEF SessionWaitEnd, SeatInOrder, AtWork, InAutoLogin
  <1>11. ASSUME NEW forked \in BOOLEAN, XserverRestart(forked)
         PROVE  \A s \in Seats : SeatInOrder(s)'
    <2>1. (~forked => faults' # 0) /\ (faults # 0 => faults' # 0)
      BY <1>11, Counted DEF XserverRestart
    <2>2. KillsAll(cur) => faults # 0
      BY <1>2 DEF KillsAll, SeatInOrder, TypeOK
    <2>3. \A s \in Seats : x'[s] = "nofork" => x[s] = "nofork" \/ (s = cur /\ ~forked)
      BY <1>11 DEF XserverRestart, NewX
    <2>4. client'[cur] = "none" /\ spid'[cur] = "none"
      BY <1>11 DEF XserverRestart, FreedRecord, TypeOK
    <2>5. \A s \in Seats \ {cur} : /\ client'[s] = client[s] \/ (KillsAll(cur) /\ client'[s] = "reaped")
                                   /\ spid[s] = "none" => spid'[s] = "none"
      BY <1>11 DEF XserverRestart
    <2>6. QED
      BY <1>2, <1>11, <2>1, <2>2, <2>3, <2>4, <2>5
         DEF XserverRestart, SeatInOrder, AtWork, InAutoLogin
  <1>12. ASSUME NEW s \in Seats, NEW started \in BOOLEAN, Auth(s, started)
         PROVE  \A t \in Seats : SeatInOrder(t)'
    <2>1. client[s] \notin {"none", "noexe"} /\ client' = client /\ faults' = faults /\ x' = x
      BY <1>12 DEF Auth, PatientInv, PatientSeats
    <2>2. \A t \in Seats \ {s} : spid'[t] = spid[t]
      BY <1>12 DEF Auth, SessionPid, TypeOK
    <2>3. pc = "loop" /\ pc' = "loop"
      BY <1>3, <1>12 DEF Auth
    <2>4. QED
      BY <1>2, <2>1, <2>2, <2>3 DEF SeatInOrder, AtWork, InAutoLogin
  <1>13. ASSUME NEW s \in Seats, NEW m \in {"pid", "oldpid"}, ClientPidSet(s, m)
         PROVE  \A t \in Seats : SeatInOrder(t)'
    BY <1>a, <1>3, <1>13 DEF ClientPidSet
  <1>14. /\ ~MainLoopEnd /\ ~Shutdown /\ ~Teardown
         /\ ~\E s \in Seats : StaleHandler(s)
         /\ ~\E killed \in SUBSET Seats : Signal(killed)
    BY <1>3, <1>4 DEF MainLoopEnd, Shutdown, Teardown, StaleHandler, Signal
  <1>15. ASSUME NEW s \in Seats, XReady(s) \/ XDies(s)
         PROVE  \A t \in Seats : SeatInOrder(t)'
    <2>1. faults # 0 => faults' # 0
      BY <1>15, Counted DEF XReady, XDies
    <2>2. \A t \in Seats : x'[t] = "nofork" => x[t] = "nofork"
      BY <1>15 DEF XReady, XDies, TypeOK
    <2>3. UNCHANGED <<pc, cur, client, spid>>
      BY <1>15 DEF XReady, XDies
    <2>4. QED
      BY <1>2, <2>1, <2>2, <2>3 DEF SeatInOrder, AtWork, InAutoLogin
  <1>16. ASSUME NEW s \in Seats, SendAuth(s)
         PROVE  \A t \in Seats : SeatInOrder(t)'
    BY <1>a, <1>16 DEF SendAuth
  <1>17. ASSUME NEW s \in Seats, NEW connected \in BOOLEAN, GreeterExit(s, connected)
         PROVE  \A t \in Seats : SeatInOrder(t)'
    <2>1. \A t \in Seats : client'[t] = client[t] \/ (client[t] = "running" /\ client'[t] = "exited")
      BY <1>17 DEF GreeterExit, TypeOK
    <2>2. ~Starting
      BY <1>17 DEF GreeterExit, PatientInv, PidsUnread
    <2>3. QED
      BY <1>2, <1>17, <2>1, <2>2 DEF GreeterExit, SeatInOrder, AtWork, InAutoLogin, Starting
  <1>18. ASSUME NEW s \in Seats, SessionExit(s)
         PROVE  \A t \in Seats : SeatInOrder(t)'
    <2>1. \A t \in Seats : spid[t] = "none" => spid'[t] = "none"
      BY <1>18 DEF SessionExit, TypeOK
    <2>2. \A t \in Seats : InAutoLogin(t) /\ spid'[t] # "none" => InAutoLogin(t)'
      BY <1>18 DEF SessionExit, InAutoLogin
    <2>3. QED
      BY <1>2, <1>18, <2>1, <2>2 DEF SessionExit, SeatInOrder, AtWork
  <1>19. CASE UNCHANGED vars
    BY <1>a, <1>19 DEF vars, seatVars
  <1>20. CASE Handler
    BY <1>8, <1>9, <1>12, <1>13, <1>20 DEF Handler
  <1>21. CASE Daemon
    <2>1. CASE \E auto \in {FALSE, AutoLogin}, badX, bad \in SUBSET Seats,
                  locked, seen, nohome \in BOOLEAN :
                 Boot(auto, badX, locked, seen, bad, nohome)
      <3>1. PICK auto \in {FALSE, AutoLogin}, badX \in SUBSET Seats, bad \in SUBSET Seats,
                 locked \in BOOLEAN, seen \in BOOLEAN, nohome \in BOOLEAN :
                   Boot(auto, badX, locked, seen, bad, nohome)
        BY <2>1, Zenon
      <3>2. QED
        BY <1>5, <3>1, Zenon
    <2>2. QED
      BY <1>6, <1>7, <1>10, <1>11, <1>14, <1>21, <2>1 DEF Daemon
  <1>22. CASE Environment
    BY <1>14, <1>15, <1>16, <1>17, <1>18, <1>22 DEF Environment
  <1>23. QED
    BY <1>19, <1>20, <1>21, <1>22 DEF Next

\* What a seat shows depends on these only.
LEMMA PhaseKept ==
  ASSUME NEW s \in Seats,
         spid'[s] = spid[s],
         InAutoLogin(s)' <=> InAutoLogin(s),
         Greeted(s)' <=> Greeted(s),
         client'[s] = "none" <=> client[s] = "none"
  PROVE  Phase(s)' = Phase(s)
  BY DEF Phase

\* The readings of a phase.
LEMMA PhaseCases ==
  ASSUME TypeOK, NEW s \in Seats
  PROVE  /\ InAutoLogin(s) => Phase(s) = "auto"
         /\ ~InAutoLogin(s) /\ spid[s] = "running" => Phase(s) = "session"
         /\ ~InAutoLogin(s) /\ spid[s] = "dead" => Phase(s) = "ended"
         /\ spid[s] = "none" => Phase(s) = IF client[s] = "none" THEN "dark"
                                           ELSE IF Greeted(s) THEN "greeter" ELSE "broken"
  BY DEF Phase, InAutoLogin, Greeted, TypeOK

\* A start of greeters that the main loop or main make in service is the
\* abstract one, of the seats that had no greeter.
LEMMA GreetStep ==
  ASSUME DaemonInv, DaemonInv', Going, Going', \A s \in Seats : SeatInOrder(s),
         NEW T \in SUBSET Seats, NEW bad \in SUBSET Seats, NEW nohome \in BOOLEAN,
         StartClients(T, bad, nohome),
         bad # {} => faults' # 0, faults # 0 => faults' # 0,
         ~\E s \in Seats : AtWork(s) \/ AtWork(s)',
         \A s \in Seats : ~InAutoLogin(s)',
         \A s \in Seats : spid'[s] = IF InAutoLogin(s) THEN "none" ELSE spid[s],
         \A s \in Seats : InAutoLogin(s) => s \in T
  PROVE  \E G, B \in SUBSET Seats : Life!Greet(G, B)
  <1> USE DEF DaemonInv
  <1> DEFINE phase == [s \in Seats |-> Phase(s)]
             G == {s \in Seats : Phase(s)' = "greeter" /\ Phase(s) # "greeter"}
             B == {s \in Seats : Phase(s)' = "broken" /\ Phase(s) # "broken"}
  <1>1. \A s \in Seats : client'[s] = IF s \in bad THEN "noexe"
                           ELSE IF s \in T /\ client[s] \in {"none", "noexe"} THEN "running"
                           ELSE client[s]
    BY StartClientsSeats
  <1>2. bad \subseteq T /\ \A s \in bad : client[s] \in {"none", "noexe"}
    BY StartClientsSeats
  <1>3. (bad # {} => faults' # 0) /\ (faults # 0 => faults' # 0)
    OBVIOUS
  <1>4. \A s \in Seats : Greeted(s)' <=> client'[s] \in {"running", "exited"}
    BY DEF Greeted
  <1>5. \A s \in Seats : Greeted(s) <=> client[s] \in {"running", "exited"}
    BY DEF Greeted
  <1>6. ASSUME NEW s \in Seats, Phase(s)' # Phase(s)
        PROVE  /\ Phase(s) \in {"dark", "broken", "auto"}
               /\ Phase(s)' = "greeter" \/ (Phase(s)' = "broken" /\ faults' # 0)
    <2>1. client[s] # "left" /\ (client[s] = "reaped" => faults # 0)
      BY DEF SeatInOrder
    <2>2. client[s] \in {"none", "noexe"} => spid[s] = "none" \/ InAutoLogin(s)
      BY DEF SeatInOrder
    <2>3. CASE InAutoLogin(s)
      <3>1. Phase(s) = "auto" /\ spid'[s] = "none" /\ s \in T
        BY <2>3, PhaseCases
      <3>2. client'[s] # "none"
        BY <1>1, <3>1
      <3>3. Phase(s)' = IF Greeted(s)' THEN "greeter" ELSE "broken"
        BY <3>1, <3>2 DEF Phase, InAutoLogin
      <3>4. ~Greeted(s)' => s \in bad \/ client[s] = "reaped"
        BY <1>1, <1>4, <2>1, <3>1 DEF TypeOK
      <3>5. QED
        BY <1>3, <2>1, <3>1, <3>3, <3>4
    <2>4. CASE ~InAutoLogin(s)
      <3>1. spid'[s] = spid[s] /\ ~InAutoLogin(s)'
        BY <2>4
      <3>2. client'[s] # client[s]
        BY <1>4, <1>5, <1>6, <2>4, <3>1, PhaseKept
      <3>3. client[s] \in {"none", "noexe"} /\ client'[s] = IF s \in bad THEN "noexe" ELSE "running"
        BY <1>1, <1>2, <3>2
      <3>4. spid[s] = "none"
        BY <2>2, <2>4, <3>3
      <3>5. Phase(s) \in {"dark", "broken"}
        BY <1>5, <3>3, <3>4, PhaseCases
      <3>6. Phase(s)' = IF s \in bad THEN "broken" ELSE "greeter"
        BY <1>4, <3>1, <3>3, <3>4 DEF Phase, InAutoLogin
      <3>7. QED
        BY <1>3, <3>5, <3>6
    <2>5. QED
      BY <2>3, <2>4
  <1>7. \A s \in G \cup B : Phase(s) \in {"dark", "broken", "auto"}
    BY <1>6
  <1>8. B # {} => faults' # 0
    BY <1>6
  <1>9. phase' = [s \in Seats |-> IF s \in G THEN "greeter"
                                  ELSE IF s \in B THEN "broken" ELSE phase[s]]
    <2>1. \A s \in Seats : Phase(s)' = IF s \in G THEN "greeter"
                                       ELSE IF s \in B THEN "broken" ELSE Phase(s)
      BY <1>6
    <2>2. QED
      BY <2>1
  <1>10. (faults # 0)' \in {faults # 0, TRUE}
    BY <1>3
  <1>11. Life!Greet(G, B)
    <2>1. Life!InService
      BY DEF Life!InService, Going
    <2>2. \A s \in G \cup B : phase[s] \in {"dark", "broken", "auto"}
      BY <1>7
    <2>3. QED
      BY <1>8, <1>9, <1>10, <2>1, <2>2 DEF Life!Greet, Life!MayFail
  <1>12. G \in SUBSET Seats /\ B \in SUBSET Seats
    OBVIOUS
  <1>13. QED
    BY <1>11, <1>12

\* Every step is a step of the lifecycle, or none.
LEMMA LifeStep ==
  ASSUME PatientGreeter, DaemonInv, DaemonInv', PatientInv, PhaseInv, [Next]_vars
  PROVE  [Life!LifeNext]_(Life!lifeVars)
  <1> USE SeatsFacts DEF DaemonInv
  <1> DEFINE phase == [s \in Seats |-> Phase(s)]
             failed == faults # 0
             stopping == quit \/ sig \/ ~Alive
             Lives == [Life!LifeNext]_(Life!lifeVars)
  <1>a. failed' \in {failed, TRUE}
    BY Remembered
  <1>1. CASE ~Going'
    <2>1. phase' \in [Seats -> Life!Phases]
      <3>1. \A s \in Seats : Phase(s)' \in Life!Phases
        BY DEF Phase, Life!Phases
      <3>2. QED
        BY <3>1
    <2>2. stopping' = TRUE
      BY <1>1 DEF Going
    <2>3. Life!Stop
      BY <1>a, <2>1, <2>2 DEF Life!Stop, Life!MayFail
    <2>4. QED
      BY <2>3 DEF Life!LifeNext
  <1>2. CASE Going'
    <2>1. Going /\ \A s \in Seats : SeatInOrder(s)
      BY <1>2, StopsForGood DEF PhaseInv
    <2>2. /\ pc \notin {"shutdown", "teardown", "exited", "crashed"}
          /\ pc' \notin {"shutdown", "teardown", "exited", "crashed"}
          /\ ~quit' /\ ~sig' /\ ~quit /\ ~sig
      BY <1>2, <2>1, StopsForGood DEF Going, Alive, PhaseInv
    <2>3. stopping = FALSE /\ stopping' = FALSE
      BY <2>1, <1>2 DEF Going
    <2> HIDE DEF stopping
    <2>4. Life!InService
      BY <2>3 DEF Life!InService, stopping
    \* A step that changes no phase, though it may be a failure.
    <2>a. ASSUME \A s \in Seats : Phase(s)' = Phase(s)
          PROVE  Lives
      <3>1. phase' = phase
        BY <2>a
      <3>2. CASE failed' = failed
        BY <2>3, <3>1, <3>2 DEF Life!lifeVars, stopping
      <3>3. CASE failed' = TRUE
        BY <2>4, <3>1, <3>3 DEF Life!Fail, Life!LifeNext
      <3>4. QED
        BY <1>a, <3>2, <3>3
    \* A step that moves one seat.
    <2>b. ASSUME NEW s \in Seats, NEW from \in SUBSET Life!Phases, NEW to \in Life!Phases,
                 Phase(s) \in from, Phase(s)' = to, faults' = faults,
                 \A t \in Seats \ {s} : Phase(t)' = Phase(t)
          PROVE  Life!Move(s, from, to)
      <3>1. phase' = [phase EXCEPT ![s] = to]
        BY <2>b
      <3>2. QED
        BY <2>4, <2>b, <3>1 DEF Life!Move
    <2>5. ASSUME NEW auto \in {FALSE, AutoLogin}, NEW badX \in SUBSET Seats,
                 NEW bad \in SUBSET Seats, NEW locked \in BOOLEAN, NEW seen \in BOOLEAN,
                 NEW nohome \in BOOLEAN, Boot(auto, badX, locked, seen, bad, nohome)
          PROVE  Lives
      <3>1. pc = "init" /\ pc' \in {"loop", "autologin"} /\ spid' = spid
        BY <2>5 DEF Boot
      <3>2. \A s \in Seats : ~AtWork(s) /\ ~AtWork(s)' /\ ~InAutoLogin(s) /\ ~InAutoLogin(s)'
        BY <3>1 DEF AtWork, InAutoLogin
      <3>3. CASE xephyr
        <4>1. StartClients({0}, bad, nohome)
          BY <2>5, <3>3 DEF Boot
        <4>2. (bad # {} => faults' # 0) /\ (faults # 0 => faults' # 0)
          BY <2>5, Counted DEF Boot
        <4>3. \E G, B \in SUBSET Seats : Life!Greet(G, B)
          BY <1>2, <2>1, <3>1, <3>2, <4>1, <4>2, GreetStep
        <4>4. QED
          BY <4>3 DEF Life!LifeNext
      <3>4. CASE ~xephyr
        BY <2>a, <2>5, <3>1, <3>2, <3>4, PhaseKept DEF Boot, Greeted
      <3>5. QED
        BY <3>3, <3>4
    <2>6. ASSUME NEW started \in BOOLEAN, AutoLoginStart(started)
          PROVE  Lives
      <3>1. /\ pc = "autologin" /\ pc' = "auto_wait" /\ client' = client
            /\ \A s \in Seats : spid[s] = "none" /\ (s # 0 => client[s] = "none")
        BY <2>1, <2>6 DEF AutoLoginStart, SeatInOrder
      <3>2. \A s \in Seats : spid'[s] = IF s = 0 /\ started THEN "running" ELSE "none"
        BY <2>6, <3>1 DEF AutoLoginStart, TypeOK
      <3>3. \A t \in Seats \ {0} : Phase(t)' = Phase(t) /\ Phase(t) = "dark"
        <4>1. \A t \in Seats \ {0} : /\ spid'[t] = "none" /\ client'[t] = "none"
                                      /\ ~InAutoLogin(t) /\ ~InAutoLogin(t)'
                                      /\ Greeted(t) = FALSE /\ Greeted(t)' = FALSE
          BY <3>1, <3>2 DEF InAutoLogin, Greeted
        <4>2. QED
          BY <3>1, <4>1, PhaseCases, PhaseKept
      <3>4. CASE started
        <4>1. faults' = faults
          BY <2>6, <3>4 DEF AutoLoginStart, Budget
        <4>2. Phase(0)' = "auto"
          BY <3>1, <3>2, <3>4 DEF Phase, InAutoLogin
        <4>3. Phase(0) \in {"dark", "greeter", "broken"}
          BY <3>1, PhaseCases
        <4>4. Life!Move(0, {"dark", "greeter", "broken"}, "auto")
          BY <2>b, <3>3, <4>1, <4>2, <4>3 DEF Life!Phases
        <4>5. Life!AutoSession(0)
          BY <3>3, <4>4 DEF Life!AutoSession
        <4>6. QED
          BY <4>5 DEF Life!LifeNext
      <3>5. CASE ~started
        <4>1. Greeted(0)' <=> Greeted(0)
          BY <3>1 DEF Greeted, AtWork
        <4>2. Phase(0)' = Phase(0)
          BY <3>1, <3>2, <3>5, <4>1, PhaseKept DEF InAutoLogin
        <4>3. QED
          BY <2>a, <3>3, <4>2
      <3>6. QED
        BY <3>4, <3>5
    <2>7. ASSUME NEW bad \in SUBSET Seats, NEW nohome \in BOOLEAN, AutoLoginEnd(bad, nohome)
          PROVE  Lives
      <3>1. /\ pc = "auto_wait" /\ pc' = "loop"
            /\ spid' = [spid EXCEPT ![0] = "none"]
            /\ StartClients({0}, bad, nohome)
            /\ (bad # {} => faults' # 0) /\ (faults # 0 => faults' # 0)
        BY <2>2, <2>7, Counted DEF AutoLoginEnd
      <3>2. /\ \A s \in Seats : ~AtWork(s) /\ ~AtWork(s)' /\ ~InAutoLogin(s)'
            /\ \A s \in Seats : InAutoLogin(s) => s \in {0}
        BY <3>1 DEF AtWork, InAutoLogin
      <3>3. \A s \in Seats : spid'[s] = IF InAutoLogin(s) THEN "none" ELSE spid[s]
        <4>1. \A s \in Seats : spid'[s] = IF s = 0 THEN "none" ELSE spid[s]
          BY <3>1 DEF TypeOK
        <4>2. \A s \in Seats : InAutoLogin(s) <=> s = 0 /\ spid[s] # "none"
          BY <3>1 DEF InAutoLogin
        <4>3. QED
          BY <4>1, <4>2
      <3>4. \E G, B \in SUBSET Seats : Life!Greet(G, B)
        BY <1>2, <2>1, <3>1, <3>2, <3>3, GreetStep
      <3>5. QED
        BY <3>4 DEF Life!LifeNext
    <2>8. ASSUME NEW bad \in SUBSET Seats, NEW nohome \in BOOLEAN, XserverStarted(bad, nohome)
          PROVE  Lives
      <3>1. /\ pc = "loop" /\ pc' = "loop" /\ spid' = spid
            /\ (bad # {} => faults' # 0) /\ (faults # 0 => faults' # 0)
        BY <2>8, Counted DEF XserverStarted
      <3>2. \A s \in Seats : ~AtWork(s) /\ ~AtWork(s)' /\ ~InAutoLogin(s) /\ ~InAutoLogin(s)'
        BY <3>1 DEF AtWork, InAutoLogin
      <3>3. CASE autologin
        BY <2>a, <2>8, <3>1, <3>2, <3>3, PhaseKept DEF XserverStarted, Greeted
      <3>4. CASE ~autologin
        <4>1. StartClients(Seats, bad, nohome)
          BY <2>8, <3>4 DEF XserverStarted
        <4>2. \E G, B \in SUBSET Seats : Life!Greet(G, B)
          BY <1>2, <2>1, <3>1, <3>2, <4>1, GreetStep
        <4>3. QED
          BY <4>2 DEF Life!LifeNext
      <3>5. QED
        BY <3>3, <3>4
    <2>9. ASSUME NEW s \in Seats, ClientDel(s)
          PROVE  Lives
      <3>1. Len(queue) \in Nat /\ Len(queue) > 0 /\ queue[1] = s
        BY <2>9 DEF ClientDel, TypeOK
      <3>2. client[s] = "exited"
        BY <2>9, <3>1 DEF ClientDel, ExitsMatch, Serving
      <3>3. /\ pc = "loop" /\ pc' = "session_wait" /\ cur' = s /\ spid' = spid
            /\ \A t \in Seats : client'[t] = IF t = s THEN "noexe" ELSE client[t]
        BY <2>9 DEF ClientDel, TypeOK
      <3>4. \A t \in Seats : Greeted(t)' <=> Greeted(t)
        BY <3>2, <3>3 DEF Greeted, AtWork
      <3>5. \A t \in Seats : Phase(t)' = Phase(t)
        BY <3>2, <3>3, <3>4, PhaseKept DEF InAutoLogin
      <3>6. QED
        BY <2>a, <3>5
    <2>10. ASSUME SessionWaitEnd
           PROVE  Lives
      <3>1. pc = "session_wait" /\ pc' = "x_kill" /\ UNCHANGED <<cur, client, spid>>
        BY <2>2, <2>10 DEF SessionWaitEnd
      <3>2. QED
        BY <2>a, <3>1, PhaseKept DEF Greeted, AtWork, InAutoLogin
    <2>11. ASSUME NEW forked \in BOOLEAN, XserverRestart(forked)
           PROVE  Lives
      <3>0. PICK c \in Seats : c = cur
        BY DEF TypeOK
      <3> DEFINE E == {t \in Seats \ {c} : Phase(t) = "session" /\ Phase(t)' # "session"}
                 B == {t \in Seats \ {c} : Phase(t) = "greeter" /\ Phase(t)' # "greeter"}
      <3>1. pc = "x_kill" /\ pc' = "loop" /\ cur = c /\ cur' = c
        BY <2>11, <3>0 DEF XserverRestart
      <3>2. client[c] = "noexe" /\ spid[c] \in {"none", "dead"}
        BY <3>1 DEF RestartAfterSession, TypeOK
      <3>3. client'[c] = "none" /\ spid'[c] = "none"
        BY <2>11, <3>1 DEF XserverRestart, FreedRecord, TypeOK
      <3>4. \A t \in Seats \ {c} :
              /\ client'[t] = IF KillsAll(c) /\ client[t] \in {"running", "left"}
                              THEN "reaped" ELSE client[t]
              /\ spid'[t] = IF KillsAll(c) /\ spid[t] = "running" THEN "dead" ELSE spid[t]
        BY <2>11, <3>1 DEF XserverRestart
      <3>5. KillsAll(c) => faults # 0
        BY <2>1, <3>1 DEF KillsAll, SeatInOrder
      <3>6. \A t \in Seats : ~InAutoLogin(t) /\ ~InAutoLogin(t)' /\ ~AtWork(t)'
        BY <3>1 DEF InAutoLogin, AtWork
      <3>7. Phase(c) \in {"greeter", "ended"} /\ Phase(c)' = "dark"
        <4>1. Greeted(c)
          BY <3>1, <3>2 DEF Greeted, AtWork
        <4>2. Phase(c) \in {"greeter", "ended"}
          BY <3>1, <3>2, <3>6, <4>1, PhaseCases
        <4>3. Phase(c)' = "dark"
          BY <3>3, <3>6 DEF Phase, InAutoLogin, Greeted
        <4>4. QED
          BY <4>2, <4>3
      <3>8. ASSUME NEW t \in Seats \ {c}, Phase(t)' # Phase(t)
            PROVE  /\ KillsAll(c)
                   /\ \/ Phase(t) = "session" /\ Phase(t)' = "ended"
                      \/ Phase(t) = "greeter" /\ Phase(t)' = "broken"
        <4>1. ~AtWork(t)
          BY <3>1, <3>8 DEF AtWork
        <4>2. CASE ~KillsAll(c)
          <5>1. client'[t] = client[t] /\ spid'[t] = spid[t]
            BY <3>4, <3>8, <4>2
          <5>2. QED
            BY <3>6, <3>8, <4>1, <5>1, PhaseKept DEF Greeted
        <4>3. CASE KillsAll(c) /\ spid[t] = "running"
          <5>1. spid'[t] = "dead"
            BY <3>4, <3>8, <4>3
          <5>2. QED
            BY <3>6, <4>3, <5>1 DEF Phase, InAutoLogin
        <4>4. CASE KillsAll(c) /\ spid[t] # "running"
          <5>1. spid'[t] = spid[t]
            BY <3>4, <3>8, <4>4
          <5>2. client[t] = "running" /\ client'[t] = "reaped"
            <6>1. CASE client'[t] = client[t]
              BY <3>6, <3>8, <4>1, <5>1, <6>1, PhaseKept DEF Greeted
            <6>2. CASE client'[t] # client[t]
              BY <2>1, <3>4, <3>8, <6>2 DEF SeatInOrder
            <6>3. QED
              BY <6>1, <6>2
          <5>3. spid[t] = "none"
            BY <3>6, <3>8, <4>4, <5>1 DEF Phase, InAutoLogin, TypeOK
          <5>4. Phase(t) = "greeter"
            BY <5>2, <5>3 DEF Phase, InAutoLogin, Greeted
          <5>5. Phase(t)' = "broken"
            BY <5>1, <5>2, <5>3 DEF Phase, InAutoLogin, Greeted
          <5>6. QED
            BY <4>4, <5>4, <5>5
        <4>5. QED
          BY <4>2, <4>3, <4>4
      <3>9. phase' = [t \in Seats |-> IF t = c THEN "dark"
                                      ELSE IF t \in E THEN "ended"
                                      ELSE IF t \in B THEN "broken" ELSE phase[t]]
        <4>1. \A t \in Seats : Phase(t)' = IF t = c THEN "dark"
                                           ELSE IF t \in E THEN "ended"
                                           ELSE IF t \in B THEN "broken" ELSE Phase(t)
          BY <3>7, <3>8
        <4>2. QED
          BY <4>1
      <3>10. E \cup B # {} => failed
        BY <3>5, <3>8
      <3>11. Life!Darken(c, E, B)
        <4>1. phase[c] \in {"greeter", "ended"}
          BY <3>1, <3>7
        <4>2. (\A t \in E : phase[t] = "session") /\ (\A t \in B : phase[t] = "greeter")
          OBVIOUS
        <4>3. QED
          BY <1>a, <2>4, <3>9, <3>10, <4>1, <4>2 DEF Life!Darken, Life!MayFail
      <3>12. QED
        BY <3>1, <3>11 DEF Life!LifeNext
    <2>12. ASSUME NEW s \in Seats, NEW started \in BOOLEAN, Auth(s, started)
           PROVE  Lives
      <3>1. /\ pc = "loop" /\ pc' = "loop" /\ faults' = faults /\ client' = client
            /\ client[s] \in {"running", "reaped", "left"} /\ spid[s] = "none"
        BY <2>2, <2>12 DEF Auth, PatientInv, PatientSeats
      <3>2. \A t \in Seats : ~InAutoLogin(t) /\ ~InAutoLogin(t)' /\ (Greeted(t)' <=> Greeted(t))
        BY <3>1 DEF InAutoLogin, Greeted, AtWork
      <3>3. CASE ~started
        BY <2>a, <2>12, <3>1, <3>2, <3>3, PhaseKept DEF Auth
      <3>4. CASE started
        <4>1. spid'[s] = "running" /\ \A t \in Seats \ {s} : spid'[t] = spid[t]
          BY <2>12, <3>4 DEF Auth, SessionPid, TypeOK
        <4>2. Phase(s) \in {"greeter", "broken"}
          BY <3>1, PhaseCases
        <4>3. Phase(s)' = "session"
          BY <3>1, <4>1 DEF Phase, InAutoLogin
        <4>4. \A t \in Seats \ {s} : Phase(t)' = Phase(t)
          BY <3>1, <3>2, <4>1, PhaseKept
        <4>5. Life!Move(s, {"greeter", "broken"}, "session")
          BY <2>b, <3>1, <4>2, <4>3, <4>4 DEF Life!Phases
        <4>6. QED
          BY <4>5 DEF Life!Login, Life!LifeNext
      <3>5. QED
        BY <3>3, <3>4
    <2>13. ASSUME NEW s \in Seats, NEW m \in {"pid", "oldpid"}, ClientPidSet(s, m)
           PROVE  Lives
      <3>1. UNCHANGED <<pc, cur, client, spid>>
        BY <2>2, <2>13 DEF ClientPidSet
      <3>2. QED
        BY <2>a, <3>1, PhaseKept DEF InAutoLogin, Greeted, AtWork
    <2>14. /\ ~MainLoopEnd /\ ~Shutdown /\ ~Teardown
           /\ ~\E s \in Seats : StaleHandler(s)
           /\ ~\E killed \in SUBSET Seats : Signal(killed)
      BY <2>2 DEF MainLoopEnd, Shutdown, Teardown, StaleHandler, Signal
    <2>15. ASSUME NEW s \in Seats, XReady(s) \/ XDies(s) \/ SendAuth(s)
           PROVE  Lives
      <3>1. UNCHANGED <<pc, cur, client, spid>>
        BY <2>15 DEF XReady, XDies, SendAuth
      <3>2. QED
        BY <2>a, <3>1, PhaseKept DEF InAutoLogin, Greeted, AtWork
    <2>16. ASSUME NEW s \in Seats, NEW connected \in BOOLEAN, GreeterExit(s, connected)
           PROVE  Lives
      <3>1. /\ UNCHANGED <<pc, cur, spid>>
            /\ client[s] = "running"
            /\ \A t \in Seats : client'[t] = IF t = s THEN "exited" ELSE client[t]
        BY <2>16 DEF GreeterExit, TypeOK
      <3>2. QED
        BY <2>a, <3>1, PhaseKept DEF InAutoLogin, Greeted, AtWork
    <2>17. ASSUME NEW s \in Seats, SessionExit(s)
           PROVE  Lives
      <3>1. /\ UNCHANGED <<pc, cur, client, faults>>
            /\ spid[s] = "running" /\ spid'[s] = "dead"
            /\ \A t \in Seats \ {s} : spid'[t] = spid[t]
        BY <2>17 DEF SessionExit, PatientInv, PatientSeats, TypeOK
      <3>2. \A t \in Seats : /\ InAutoLogin(t)' <=> InAutoLogin(t)
                             /\ Greeted(t)' <=> Greeted(t)
        BY <3>1 DEF InAutoLogin, Greeted, AtWork
      <3>3. \A t \in Seats \ {s} : Phase(t)' = Phase(t)
        BY <3>1, <3>2, PhaseKept
      <3>4. CASE InAutoLogin(s)
        <4>1. Phase(s) = "auto" /\ Phase(s)' = "auto"
          BY <3>2, <3>4 DEF Phase, InAutoLogin
        <4>2. QED
          BY <2>a, <3>3, <4>1
      <3>5. CASE ~InAutoLogin(s)
        <4>1. Phase(s) = "session" /\ Phase(s)' = "ended"
          BY <3>1, <3>2, <3>5 DEF Phase, InAutoLogin
        <4>2. Life!Move(s, {"session"}, "ended")
          BY <2>b, <3>1, <3>3, <4>1 DEF Life!Phases
        <4>3. QED
          BY <4>2 DEF Life!Logout, Life!LifeNext
      <3>6. QED
        BY <3>4, <3>5
    <2>18. CASE UNCHANGED vars
      <3>1. UNCHANGED <<pc, cur, client, spid>>
        BY <2>18 DEF vars, seatVars
      <3>2. QED
        BY <2>a, <3>1, PhaseKept DEF InAutoLogin, Greeted, AtWork
    <2>19. CASE Handler
      BY <2>8, <2>9, <2>12, <2>13, <2>19 DEF Handler
    <2>20. CASE Daemon
      <3>1. CASE \E auto \in {FALSE, AutoLogin}, badX, bad \in SUBSET Seats,
                    locked, seen, nohome \in BOOLEAN :
                   Boot(auto, badX, locked, seen, bad, nohome)
        <4>1. PICK auto \in {FALSE, AutoLogin}, badX \in SUBSET Seats, bad \in SUBSET Seats,
                   locked \in BOOLEAN, seen \in BOOLEAN, nohome \in BOOLEAN :
                     Boot(auto, badX, locked, seen, bad, nohome)
          BY <3>1, Zenon
        <4>2. QED
          BY <2>5, <4>1, Zenon
      <3>2. QED
        BY <2>6, <2>7, <2>10, <2>11, <2>14, <2>20, <3>1 DEF Daemon
    <2>21. CASE Environment
      BY <2>14, <2>15, <2>16, <2>17, <2>21 DEF Environment
    <2>22. QED
      BY <2>18, <2>19, <2>20, <2>21 DEF Next
  <1>3. QED
    BY <1>1, <1>2

\* A daemon of greeters that wait takes each of its seats, however many there
\* are and whatever fails, through the lifecycle that SeatLifecycle promises:
\* with or without autologin, under Xephyr or not.
THEOREM SeatsLive ==
  ASSUME PatientGreeter
  PROVE  Spec => ImplementsLifecycle
  <1>1. Init => Life!LifeInit
    <2> SUFFICES ASSUME Init
                 PROVE  Life!LifeInit
      OBVIOUS
    <2>1. \A s \in Seats : Phase(s) = "dark"
      <3>1. \A s \in Seats : spid[s] = "none" /\ client[s] = "none"
        BY DEF Init
      <3>2. QED
        BY <3>1, InitInv, PhaseCases DEF DaemonInv
    <2>2. ~quit /\ ~sig /\ Alive /\ faults = 0
      BY DEF Init, Alive
    <2>3. QED
      BY <2>1, <2>2 DEF Life!LifeInit
  <1>2. Init => PhaseInv
    BY DEF Init, PhaseInv, SeatInOrder
  <1>3. DaemonInv /\ PatientInv /\ PhaseInv /\ [Next]_vars => PhaseInv'
    BY PhaseInvStep
  <1>4. DaemonInv /\ DaemonInv' /\ PatientInv /\ PhaseInv /\ [Next]_vars
          => [Life!LifeNext]_(Life!lifeVars)
    BY LifeStep
  <1>5. QED
    BY <1>1, <1>2, <1>3, <1>4, Invariance, PatientInvariance, PTL
       DEF Spec, ImplementsLifecycle, Life!LifeSpec
=============================================================================
