-------------------------- MODULE EntranceActions ---------------------------
(***************************************************************************)
(* The supervisor with the actions of the greeters (entrance_action.c):    *)
(* a user asks for shutdown, reboot or suspend, the daemon runs a command, *)
(* and the end of a remembered command makes the daemon leave its main     *)
(* loop. The exit event of a command goes to the same ecore handlers as    *)
(* the exit of a greeter, and waits like those while a session is waited   *)
(* for.                                                                    *)
(***************************************************************************)
EXTENDS EntranceDaemon

CONSTANT MaxActions \* bound on the actions that are asked for

ASSUME ActionsAssumption == MaxActions \in Nat

VARIABLES
  asked,    \* ACTION messages of a seat's greeters, waiting in the sockets
  commands, \* the commands in the order they were run: running, ended with the exit
            \* event still to be handled, or gone
  action    \* _action_exe: the number of the remembered command, or 0

actionVars == <<asked, commands, action>>
allVars == <<vars, actionVars>>

\* Shutdown and reboot differ in the command line only.
Kinds == {"poweroff", "suspend"}

\* Types, and the remembered command is the last one, of a shutdown or reboot.
ActionsInv ==
  /\ asked \in [Seats -> SUBSET Kinds]
  /\ commands \in Seq([kind : Kinds, state : {"running", "ended", "gone"}])
  /\ action \in {0, Len(commands)}
  /\ action # 0 => commands[action].kind = "poweroff"

ActionsInit ==
  /\ Init
  /\ asked = [s \in Seats |-> {}]
  /\ commands = <<>>
  /\ action = 0

-----------------------------------------------------------------------------

\* Once the main loop is left, no message is read and no event handled.
Reading == pc \notin {"shutdown", "teardown", "exited", "crashed"}

\* _entrance_gui_action_clicked_cb; the PID message of the greeter came first.
Waiting == {w \in Seats \X Kinds : w[2] \in asked[w[1]]}

AskAction(s, kind) ==
  /\ Reading /\ client[s] = "running" /\ "pid" \notin inbox[s]
  /\ Len(commands) + Cardinality(Waiting) < MaxActions
  /\ asked' = [asked EXCEPT ![s] = @ \cup {kind}]
  /\ UNCHANGED <<vars, commands, action>>

\* What _action_exe is after the n-th command: a suspend clears it, and so
\* does a shutdown or reboot whose process could not be forked.
ActionExe_KeptBySuspend(kind, forked, n) ==
  IF kind = "suspend" THEN action ELSE IF forked THEN n ELSE 0
ActionExe(kind, forked, n) == IF kind = "poweroff" /\ forked THEN n ELSE 0

\* entrance_action_run, on an ACTION message of seat s.
ActionRun(s, kind, forked) ==
  /\ pc = "loop" /\ kind \in asked[s]
  /\ asked' = [asked EXCEPT ![s] = @ \ {kind}]
  /\ commands' = Append(commands,
                        [kind |-> kind, state |-> IF forked THEN "running" ELSE "gone"])
  /\ action' = ActionExe(kind, forked, Len(commands'))
  /\ Budget(~forked)
  /\ UNCHANGED <<pc, cur, quit, sig, autologin, uid, xephyr, queue, seatVars>>

\* The process of a command ends; ecore queues the event.
CommandEnds(c) ==
  /\ Reading /\ commands[c].state = "running"
  /\ commands' = [commands EXCEPT ![c].state = "ended"]
  /\ UNCHANGED <<vars, asked, action>>

\* _entrance_action_exe_event_del_cb for the remembered command.
Quits_Never(c) == FALSE
Quits(c) == c = action

\* The handlers of the exit of command c. The event also reaches the handlers
\* of client records: one that outlived its record follows a NULL pointer,
\* unless the event was the remembered command's and stopped before it.
ActionExeDel(c) ==
  /\ pc = "loop" /\ commands[c].state = "ended"
  /\ commands' = [commands EXCEPT ![c].state = "gone"]
  /\ quit' = (quit \/ Quits(c))
  /\ pc' \in IF \A t \in Seats : ~(stale[t] /\ client[t] = "none") THEN {"loop"}
             ELSE IF c = action THEN {"loop", "crashed"} ELSE {"crashed"}
  /\ UNCHANGED <<cur, sig, autologin, uid, xephyr, queue, faults, seatVars, asked, action>>

-----------------------------------------------------------------------------

\* The rest of the supervisor goes on as before. A kill(-1) takes the commands
\* with it, and the closed server drops what greeters asked for.
KillAllNow ==
  \/ pc = "x_kill" /\ pc' = "loop" /\ KillsAll(cur)
  \/ pc = "shutdown" /\ pc' = "teardown" /\ \E s \in Seats : KillsAll(s)

SupervisorStep ==
  /\ Next
  /\ commands' = IF KillAllNow
                 THEN [c \in DOMAIN commands |->
                         IF commands[c].state = "running"
                         THEN [commands[c] EXCEPT !.state = "gone"] ELSE commands[c]]
                 ELSE commands
  /\ asked' = IF pc = "shutdown" /\ pc' = "teardown" THEN [s \in Seats |-> {}] ELSE asked
  /\ UNCHANGED action

ActionsNext ==
  \/ SupervisorStep
  \/ \E s \in Seats, kind \in Kinds : AskAction(s, kind)
  \/ \E s \in Seats, kind \in Kinds, forked \in BOOLEAN : ActionRun(s, kind, forked)
  \/ \E c \in DOMAIN commands : CommandEnds(c) \/ ActionExeDel(c)

ActionsSpec == ActionsInit /\ [][ActionsNext]_allVars

\* Besides the fairness of the supervisor: ecore serves its events in order, so
\* no exit event waits for ever while the loop turns, and a loop that was told
\* to quit ends with the round it is in. Users, and commands, owe nothing.
ActionsFairSpec ==
  /\ ActionsSpec /\ Fairness
  /\ SF_allVars(\E c \in DOMAIN commands : ActionExeDel(c))
  /\ SF_vars(MainLoopEnd)

-----------------------------------------------------------------------------

\* The daemon stops for an action only if that was the last one asked for, a
\* shutdown or reboot, and its command is over: whoever asks for a suspend
\* after a shutdown takes the daemon's part in it back (entrance_action.c:112).
QuitsForLastAction ==
  [][~quit /\ quit' /\ ~sig' /\ ~xephyr /\ faults' = 0
       => /\ commands # <<>>
          /\ LET last == commands[Len(commands)]
             IN last.kind = "poweroff" /\ last.state = "ended"]_allVars

\* The end of a shutdown or reboot command ends the daemon, even when it falls
\* into the wait for a session, as long as sessions end: unless another action
\* is run before the daemon looks, or a system call failed.
EndOfActionQuits ==
  []<>(spid[0] # "running") =>
    \A c \in 1 .. MaxActions :
      Len(commands) = c /\ commands[c] = [kind |-> "poweroff", state |-> "ended"]
        ~> ~Alive \/ Len(commands) > c \/ faults > 0
=============================================================================
