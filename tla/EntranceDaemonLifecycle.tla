---------------------- MODULE EntranceDaemonLifecycle ----------------------
(***************************************************************************)
(* The supervisor implements the lifecycle of a seat: what a seat shows is *)
(* read off the client record and the session pid.                         *)
(***************************************************************************)
EXTENDS EntranceDaemon

\* main waits for the session of the autologin.
InAutoLogin(s) == pc = "auto_wait" /\ s = 0 /\ spid[s] # "none"

\* _entrance_client_del works on the record of the seat.
AtWork(s) == pc \in {"session_wait", "x_kill"} /\ s = cur

\* The record names a greeter; one that exited is so until its event was served.
Greeted(s) == client[s] \in {"running", "exited"} \/ (client[s] = "noexe" /\ AtWork(s))

Phase(s) ==
  CASE InAutoLogin(s) -> "auto"
    [] ~InAutoLogin(s) /\ spid[s] = "running" -> "session"
    [] ~InAutoLogin(s) /\ spid[s] = "dead" -> "ended"
    [] spid[s] = "none" /\ client[s] = "none" -> "dark"
    [] spid[s] = "none" /\ Greeted(s) -> "greeter"
    [] OTHER -> "broken"

Life == INSTANCE SeatLifecycle
          WITH phase <- [s \in Seats |-> Phase(s)],
               failed <- faults # 0,
               stopping <- quit \/ sig \/ ~Alive

\* The supervisor goes through the phases of SeatLifecycle only: in
\* particular no greeter appears over the session of a login, none follows
\* another before the X server of the seat was replaced, and a seat disturbs
\* another only after a failed call (entrance.c, handlers of the client's exit
\* and of SIGUSR1).
ImplementsLifecycle == Life!LifeSpec
=============================================================================
