----------------------- MODULE EntranceActionsProofs ------------------------
(***************************************************************************)
(* Theorems about the supervisor with the actions of the greeters: they    *)
(* leave its invariant alone, and what makes the daemon stop for one.      *)
(***************************************************************************)
EXTENDS EntranceActions, EntranceDaemonProofs

\* A start of greeters tells the loop to quit only after a failure.
LEMMA QuitOfStart ==
  ASSUME TypeOK, NEW T, NEW bad, NEW nohome \in BOOLEAN,
         StartClients(T, bad, nohome), Budget(bad # {}), ~quit, quit'
  PROVE  faults' # 0
  BY DEF StartClients, Budget, TypeOK

\* The supervisor by itself quits for a signal, under Xephyr, or after a
\* failing call.
LEMMA QuitCause ==
  ASSUME TypeOK, Next, ~quit, quit', ~sig', ~xephyr
  PROVE  faults' # 0
  <1>1. ASSUME Handler PROVE faults' # 0
    <2>1. ASSUME NEW bad \in SUBSET Seats, NEW nohome \in BOOLEAN, XserverStarted(bad, nohome)
          PROVE  faults' # 0
      BY <2>1, QuitOfStart DEF XserverStarted
    <2>2. ASSUME NEW s \in Seats, ClientDel(s) PROVE faults' # 0
      BY <2>2 DEF ClientDel
    <2>3. ASSUME NEW s \in Seats, NEW m \in {"pid", "oldpid"}, ClientPidSet(s, m)
          PROVE  faults' # 0
      BY <2>3 DEF ClientPidSet
    <2>4. ASSUME NEW s \in Seats, NEW started \in BOOLEAN, Auth(s, started) PROVE faults' # 0
      BY <2>4 DEF Auth
    <2>5. QED
      BY <1>1, <2>1, <2>2, <2>3, <2>4 DEF Handler
  <1>2. ASSUME Daemon PROVE faults' # 0
    <2>1. ASSUME NEW auto \in {FALSE, AutoLogin}, NEW badX \in SUBSET Seats, NEW bad \in SUBSET Seats,
                 NEW locked \in BOOLEAN, NEW seen \in BOOLEAN, NEW nohome \in BOOLEAN,
                 Boot(auto, badX, locked, seen, bad, nohome)
          PROVE  faults' # 0
      BY <2>1 DEF Boot
    <2>2. ASSUME NEW started \in BOOLEAN, AutoLoginStart(started) PROVE faults' # 0
      BY <2>2 DEF AutoLoginStart
    <2>3. ASSUME NEW bad \in SUBSET Seats, NEW nohome \in BOOLEAN, AutoLoginEnd(bad, nohome)
          PROVE  faults' # 0
      <3>1. CASE sig
        BY <2>3, <3>1 DEF AutoLoginEnd
      <3>2. CASE ~sig
        BY <2>3, <3>2, QuitOfStart DEF AutoLoginEnd
      <3>3. QED
        BY <3>1, <3>2
    <2>4. CASE SessionWaitEnd
      BY <2>4 DEF SessionWaitEnd, InService
    <2>5. ASSUME NEW forked \in BOOLEAN, XserverRestart(forked) PROVE faults' # 0
      BY <2>5 DEF XserverRestart
    <2>6. CASE MainLoopEnd
      BY <2>6 DEF MainLoopEnd
    <2>7. CASE Shutdown
      BY <2>7 DEF Shutdown
    <2>8. CASE Teardown
      BY <2>8 DEF Teardown
    <2>9. CASE \E auto \in {FALSE, AutoLogin}, badX, bad \in SUBSET Seats,
                  locked, seen, nohome \in BOOLEAN :
                 Boot(auto, badX, locked, seen, bad, nohome)
      <3>1. PICK auto \in {FALSE, AutoLogin}, badX \in SUBSET Seats, bad \in SUBSET Seats,
                 locked \in BOOLEAN, seen \in BOOLEAN, nohome \in BOOLEAN :
                   Boot(auto, badX, locked, seen, bad, nohome)
        BY <2>9, Zenon
      <3>2. QED
        BY <3>1, <2>1
    <2>10. QED
      BY <1>2, <2>2, <2>3, <2>4, <2>5, <2>6, <2>7, <2>8, <2>9 DEF Daemon
  <1>3. ASSUME Environment PROVE faults' # 0
    <2>1. ASSUME NEW s \in Seats, StaleHandler(s) PROVE faults' # 0
      BY <2>1 DEF StaleHandler
    <2>2. ASSUME NEW killed \in SUBSET Seats, Signal(killed) PROVE faults' # 0
      BY <2>2 DEF Signal
    <2>3. ASSUME NEW s \in Seats, XReady(s) \/ XDies(s) \/ SendAuth(s) \/ SessionExit(s)
          PROVE  faults' # 0
      BY <2>3 DEF XReady, XDies, SendAuth, SessionExit
    <2>4. ASSUME NEW s \in Seats, NEW connected \in BOOLEAN, GreeterExit(s, connected)
          PROVE  faults' # 0
      BY <2>4 DEF GreeterExit
    <2>5. QED
      BY <1>3, <2>1, <2>2, <2>3, <2>4 DEF Environment
  <1>4. QED
    BY <1>1, <1>2, <1>3 DEF Next

-----------------------------------------------------------------------------

\* Running an action, and the handlers of its end, leave the seats alone.
LEMMA ActionsLeaveSeats == DaemonInv /\ [ActionsNext]_allVars => DaemonInv'
  <1> SUFFICES ASSUME DaemonInv, [ActionsNext]_allVars
               PROVE  DaemonInv'
    OBVIOUS
  <1>1. CASE SupervisorStep
    BY <1>1, StepInv DEF SupervisorStep
  <1>2. ASSUME NEW s \in Seats, NEW kind \in Kinds, AskAction(s, kind)
        PROVE  DaemonInv'
    BY <1>2, StepInv DEF AskAction
  <1>3. ASSUME NEW s \in Seats, NEW kind \in Kinds, NEW forked \in BOOLEAN,
               ActionRun(s, kind, forked)
        PROVE  DaemonInv'
    BY <1>3, BudgetType DEF ActionRun, seatVars, DaemonInv, TypeOK, OneGreeter, ExitsMatch,
                            Serving, RestartAfterSession
  <1>4. ASSUME NEW c \in DOMAIN commands, CommandEnds(c) \/ ActionExeDel(c)
        PROVE  DaemonInv'
    <2>1. CASE CommandEnds(c)
      BY <2>1, StepInv DEF CommandEnds
    <2>2. CASE ActionExeDel(c)
      <3>1. pc = "loop" /\ pc' \in {"loop", "crashed"} /\ quit' = (quit \/ Quits(c))
            /\ UNCHANGED <<cur, sig, autologin, uid, xephyr, queue, faults, seatVars>>
        BY <2>2 DEF ActionExeDel
      <3>2. TypeOK'
        BY <3>1 DEF seatVars, DaemonInv, TypeOK, PCs, Quits
      <3>3. QED
        BY <3>1, <3>2 DEF seatVars, DaemonInv, OneGreeter, ExitsMatch, Serving,
                          RestartAfterSession
    <2>3. QED
      BY <1>4, <2>1, <2>2
  <1>5. CASE UNCHANGED allVars
    BY <1>5, StepInv DEF allVars
  <1>6. QED
    BY <1>1, <1>2, <1>3, <1>4, <1>5 DEF ActionsNext

\* A command that changes its state stays a command, of the same kind.
LEMMA SetState ==
  ASSUME NEW r \in [kind : Kinds, state : {"running", "ended", "gone"}],
         NEW st \in {"ended", "gone"}
  PROVE  /\ [r EXCEPT !.state = st] \in [kind : Kinds, state : {"running", "ended", "gone"}]
         /\ [r EXCEPT !.state = st].kind = r.kind
  OBVIOUS

\* The elements of a sequence.
LEMMA Elements == ASSUME NEW S, NEW q \in Seq(S) PROVE \A c \in DOMAIN q : q[c] \in S
  OBVIOUS

\* At the start no command is remembered.
LEMMA ActionsInvInit == ActionsInit => ActionsInv
  BY DEF ActionsInit, ActionsInv

\* Only the run of a further action moves the remembered command.
LEMMA ActionsInvStep == ActionsInv /\ [ActionsNext]_allVars => ActionsInv'
  <1> DEFINE Command == [kind : Kinds, state : {"running", "ended", "gone"}]
  <1> SUFFICES ASSUME ActionsInv, [ActionsNext]_allVars
               PROVE  ActionsInv'
    OBVIOUS
  <1>0. /\ asked \in [Seats -> SUBSET Kinds] /\ commands \in Seq(Command)
        /\ action \in {0, Len(commands)} /\ Len(commands) \in Nat
        /\ action # 0 => commands[action].kind = "poweroff"
    BY DEF ActionsInv
  <1>00. \A c \in DOMAIN commands : commands[c] \in Command
    <2> HIDE DEF Command
    <2>1. QED
      BY <1>0, Elements
  <1>1. CASE SupervisorStep
    <2>1. asked' \in [Seats -> SUBSET Kinds] /\ action' = action
      BY <1>0, <1>1 DEF SupervisorStep
    <2>2. CASE commands' = commands
      BY <1>0, <2>1, <2>2 DEF ActionsInv
    <2>3. CASE commands' = [c \in DOMAIN commands |->
                              IF commands[c].state = "running"
                              THEN [commands[c] EXCEPT !.state = "gone"] ELSE commands[c]]
      <3>1. ASSUME NEW c \in DOMAIN commands
            PROVE  commands'[c] \in Command /\ commands'[c].kind = commands[c].kind
        <4>1. commands[c] \in Command
          BY <1>00, Zenon
        <4>2. commands'[c] \in {commands[c], [commands[c] EXCEPT !.state = "gone"]}
          BY <2>3
        <4>3. QED
          BY <4>1, <4>2, SetState
      <3>2. commands' \in Seq(Command) /\ Len(commands') = Len(commands)
        BY <1>0, <2>3, <3>1
      <3>3. action # 0 => action \in DOMAIN commands
        BY <1>0
      <3>4. QED
        BY <1>0, <2>1, <3>1, <3>2, <3>3 DEF ActionsInv
    <2>4. QED
      BY <1>1, <2>2, <2>3 DEF SupervisorStep
  <1>2. ASSUME NEW s \in Seats, NEW kind \in Kinds, AskAction(s, kind)
        PROVE  ActionsInv'
    BY <1>2 DEF AskAction, ActionsInv
  <1>3. ASSUME NEW s \in Seats, NEW kind \in Kinds, NEW forked \in BOOLEAN,
               ActionRun(s, kind, forked)
        PROVE  ActionsInv'
    <2> DEFINE new == [kind |-> kind, state |-> IF forked THEN "running" ELSE "gone"]
    <2>1. asked' \in [Seats -> SUBSET Kinds]
      BY <1>0, <1>3 DEF ActionRun
    <2>2. new \in Command
      OBVIOUS
    <2>3. commands' = Append(commands, new) /\ action' = ActionExe(kind, forked, Len(commands'))
      BY <1>3 DEF ActionRun
    <2>4. commands' \in Seq(Command) /\ Len(commands') = Len(commands) + 1
          /\ commands'[Len(commands')] = new
      BY <1>0, <2>2, <2>3
    <2>5. action' # 0 => action' = Len(commands') /\ kind = "poweroff"
      BY <2>3 DEF ActionExe
    <2>6. QED
      BY <2>1, <2>4, <2>5 DEF ActionsInv
  <1>4. ASSUME NEW c \in DOMAIN commands, CommandEnds(c) \/ ActionExeDel(c)
        PROVE  ActionsInv'
    <2>1. \E st \in {"ended", "gone"} : commands' = [commands EXCEPT ![c].state = st]
      BY <1>4 DEF CommandEnds, ActionExeDel
    <2>2. UNCHANGED <<asked, action>>
      BY <1>4 DEF CommandEnds, ActionExeDel
    <2>3. commands' \in Seq(Command) /\ Len(commands') = Len(commands)
          /\ \A d \in DOMAIN commands : commands'[d].kind = commands[d].kind
      <3>1. PICK st \in {"ended", "gone"} :
              commands' = [commands EXCEPT ![c] = [commands[c] EXCEPT !.state = st]]
        BY <2>1
      <3>2. commands[c] \in Command
        BY <1>00, Zenon
      <3>3. /\ [commands[c] EXCEPT !.state = st] \in Command
            /\ [commands[c] EXCEPT !.state = st].kind = commands[c].kind
        BY <3>2, SetState
      <3>4. QED
        BY <1>0, <3>1, <3>2, <3>3
    <2>4. action # 0 => action \in DOMAIN commands
      BY <1>0
    <2>5. QED
      BY <1>0, <2>2, <2>3, <2>4 DEF ActionsInv
  <1>5. CASE UNCHANGED allVars
    BY <1>5 DEF allVars, actionVars, ActionsInv
  <1>6. QED
    BY <1>1, <1>2, <1>3, <1>4, <1>5 DEF ActionsNext

-----------------------------------------------------------------------------

\* Actions keep the invariant of the supervisor, for any number of seats,
\* failures and actions.
THEOREM DaemonInvariance == ActionsSpec => []DaemonInv
  <1>1. ActionsInit => DaemonInv
    BY InitInv DEF ActionsInit
  <1>2. QED
    BY <1>1, ActionsLeaveSeats, PTL DEF ActionsSpec

\* The command that entrance_action.c remembers is the last one that was run,
\* and one of a shutdown or reboot.
THEOREM ActionsInvariance == ActionsSpec => []ActionsInv
  BY ActionsInvInit, ActionsInvStep, PTL DEF ActionsSpec

\* The daemon leaves its main loop for an action only when the command of the
\* last one, a shutdown or reboot, is over (_entrance_action_exe_event_del_cb).
THEOREM QuitsOnlyForLast == ActionsSpec => QuitsForLastAction
  <1> DEFINE Over == /\ commands # <<>>
                     /\ LET last == commands[Len(commands)]
                        IN last.kind = "poweroff" /\ last.state = "ended"
             Step == ~quit /\ quit' /\ ~sig' /\ ~xephyr /\ faults' = 0 => Over
  <1>1. DaemonInv /\ ActionsInv /\ [ActionsNext]_allVars => [Step]_allVars
    <2> SUFFICES ASSUME DaemonInv, ActionsInv, ActionsNext,
                        ~quit, quit', ~sig', ~xephyr, faults' = 0
                 PROVE  Over
      OBVIOUS
    <2>1. ~SupervisorStep
      BY QuitCause DEF DaemonInv, SupervisorStep
    <2>2. ASSUME NEW s \in Seats, NEW kind \in Kinds, AskAction(s, kind)
          PROVE  Over
      BY <2>2 DEF AskAction, vars
    <2>3. ASSUME NEW s \in Seats, NEW kind \in Kinds, NEW forked \in BOOLEAN,
                 ActionRun(s, kind, forked)
          PROVE  Over
      BY <2>3 DEF ActionRun
    <2>4. ASSUME NEW c \in DOMAIN commands, CommandEnds(c) \/ ActionExeDel(c)
          PROVE  Over
      <3>1. ActionExeDel(c)
        BY <2>4 DEF CommandEnds, vars
      <3>2. c = action /\ commands[c].state = "ended"
        BY <3>1 DEF ActionExeDel, Quits
      <3>3. c = Len(commands) /\ commands[c].kind = "poweroff" /\ commands # <<>>
        BY <3>2 DEF ActionsInv
      <3>4. QED
        BY <3>2, <3>3
    <2>5. QED
      BY <2>1, <2>2, <2>3, <2>4 DEF ActionsNext
  <1>2. QED
    BY <1>1, DaemonInvariance, ActionsInvariance, PTL DEF ActionsSpec, QuitsForLastAction

-----------------------------------------------------------------------------
(* What is proved of the supervisor alone and holds of it with actions.    *)

\* A step is one of the supervisor, or leaves the seats alone and the daemon in
\* its main loop, or ends it by the NULL pointer.
LEMMA ActionSteps ==
  ASSUME [ActionsNext]_allVars
  PROVE  \/ [Next]_vars
         \/ /\ UNCHANGED <<cur, sig, autologin, xephyr, queue, seatVars>>
            /\ pc = "loop" /\ pc' \in {"loop", "crashed"}
  <1>1. CASE SupervisorStep
    BY <1>1 DEF SupervisorStep
  <1>2. ASSUME NEW s \in Seats, NEW kind \in Kinds,
               AskAction(s, kind) \/ \E forked \in BOOLEAN : ActionRun(s, kind, forked)
        PROVE  \/ UNCHANGED vars
               \/ /\ UNCHANGED <<cur, sig, autologin, xephyr, queue, seatVars>>
                  /\ pc = "loop" /\ pc' \in {"loop", "crashed"}
    BY <1>2 DEF AskAction, ActionRun
  <1>3. ASSUME NEW c \in DOMAIN commands, CommandEnds(c) \/ ActionExeDel(c)
        PROVE  \/ UNCHANGED vars
               \/ /\ UNCHANGED <<cur, sig, autologin, xephyr, queue, seatVars>>
                  /\ pc = "loop" /\ pc' \in {"loop", "crashed"}
    BY <1>3 DEF CommandEnds, ActionExeDel
  <1>4. CASE UNCHANGED allVars
    BY <1>4 DEF allVars
  <1>5. QED
    BY <1>1, <1>2, <1>3, <1>4 DEF ActionsNext

\* The way out of the main loop that an action opens frees no session structure
\* twice either: that takes a signal, or Xephyr.
THEOREM ActionsDoubleFree == ActionsSpec => []DoubleFreeNeedsSignal
  <1>1. ActionsInit => DoubleFreeNeedsSignal
    BY DEF ActionsInit, Init, DoubleFreeNeedsSignal
  <1>2. DaemonInv /\ DoubleFreeNeedsSignal /\ [ActionsNext]_allVars => DoubleFreeNeedsSignal'
    <2> SUFFICES ASSUME DaemonInv, DoubleFreeNeedsSignal, [ActionsNext]_allVars
                 PROVE  DoubleFreeNeedsSignal'
      OBVIOUS
    <2>1. CASE [Next]_vars
      BY <2>1, DoubleFreeStep
    <2>2. CASE /\ UNCHANGED <<cur, sig, autologin, xephyr, queue, seatVars>>
               /\ pc = "loop" /\ pc' \in {"loop", "crashed"}
      BY <2>2 DEF DoubleFreeNeedsSignal, seatVars
    <2>3. QED
      BY <2>1, <2>2, ActionSteps
  <1>3. QED
    BY <1>1, <1>2, DaemonInvariance, PTL DEF ActionsSpec

\* On the only seat, without autologin, no action makes a greeter start before
\* the X server of the seat is ready.
THEOREM ActionsOnReadyX ==
  ASSUME SeatCount = 1, ~AutoLogin
  PROVE  ActionsSpec => GreeterOnReadyX
  <1> DEFINE OnReady == \A s \in Seats : ~xephyr /\ client[s] # "running" /\ client'[s] = "running"
                                          => x[s] \in {"ready", "dead"} /\ x'[s] = x[s]
  <1>1. ActionsInit => OneSeatInv
    BY OneSeatInit DEF ActionsInit
  <1>2. ASSUME DaemonInv, OneSeatInv, [ActionsNext]_allVars
        PROVE  OneSeatInv'
    <2>1. CASE [Next]_vars
      BY <1>2, <2>1, OneSeatStep
    <2>2. CASE /\ UNCHANGED <<cur, sig, autologin, xephyr, queue, seatVars>>
               /\ pc = "loop" /\ pc' \in {"loop", "crashed"}
      BY <1>2, <2>2 DEF OneSeatInv, seatVars
    <2>3. QED
      BY <1>2, <2>1, <2>2, ActionSteps
  <1>3. ASSUME DaemonInv, OneSeatInv, [ActionsNext]_allVars
        PROVE  OnReady
    <2>1. CASE [Next]_vars
      BY <1>3, <2>1, ReadyXStep
    <2>2. CASE /\ UNCHANGED <<cur, sig, autologin, xephyr, queue, seatVars>>
               /\ pc = "loop" /\ pc' \in {"loop", "crashed"}
      BY <2>2 DEF seatVars
    <2>3. QED
      BY <1>3, <2>1, <2>2, ActionSteps
  <1>4. DaemonInv /\ OneSeatInv /\ [ActionsNext]_allVars => [OnReady]_vars
    BY <1>3
  <1>5. ActionsSpec => [][OnReady]_vars
    BY <1>1, <1>2, <1>4, DaemonInvariance, PTL DEF ActionsSpec
  <1>6. QED
    BY <1>5 DEF GreeterOnReadyX
=============================================================================
