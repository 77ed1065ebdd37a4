---------------------------- MODULE SeatLifecycle ----------------------------
(***************************************************************************)
(* What the daemon promises its users about a seat, abstracting from X     *)
(* servers, records, event queue and waits: a seat is dark, shows a        *)
(* greeter, runs the session of a login, or has seen it end, and it goes   *)
(* round that cycle until the daemon stops. A greeter is never shown over  *)
(* the session of a login, such a session follows only a greeter, and the  *)
(* greeter after it follows only a seat that went dark, which is when its  *)
(* X server is replaced. At power-up one seat may first run the session of *)
(* the autologin. Only after a failed system call is a seat broken, without*)
(* a greeter where there should be one, or does one seat disturb another.  *)
(***************************************************************************)
EXTENDS Integers

CONSTANT Seats

VARIABLES phase,   \* what the user of a seat sees
          failed,  \* a system call failed
          stopping \* the daemon was told to stop, or is gone

lifeVars == <<phase, failed, stopping>>

Phases == {"dark", "auto", "greeter", "broken", "session", "ended"}

LifeTypeOK == /\ phase \in [Seats -> Phases]
              /\ failed \in BOOLEAN /\ stopping \in BOOLEAN

LifeInit == /\ phase = [s \in Seats |-> "dark"]
            /\ failed = FALSE /\ stopping = FALSE

InService == ~stopping /\ UNCHANGED stopping

MayFail == failed' \in {failed, TRUE}

Move(s, from, to) ==
  /\ InService /\ phase[s] \in from
  /\ phase' = [phase EXCEPT ![s] = to]
  /\ UNCHANGED failed

\* Several seats T may light up at once; the greeters of the seats B cannot be
\* started. The other seats do not change.
Greet(T, B) ==
  /\ InService /\ MayFail
  /\ \A s \in T \cup B : phase[s] \in {"dark", "broken", "auto"}
  /\ B # {} => failed'
  /\ phase' = [s \in Seats |-> IF s \in T THEN "greeter"
                               ELSE IF s \in B THEN "broken" ELSE phase[s]]

\* The one greeter of a Xephyr comes before the autologin.
AutoSession(s) == /\ Move(s, {"dark", "greeter", "broken"}, "auto")
                  /\ \A t \in Seats \ {s} : phase[t] = "dark"

\* A greeter that was killed may have sent its login before.
Login(s)  == Move(s, {"greeter", "broken"}, "session")
Logout(s) == Move(s, {"session"}, "ended")

\* Once a call failed, the seats E lose their session and B their greeter.
Darken(s, E, B) ==
  /\ InService /\ MayFail
  /\ phase[s] \in {"greeter", "ended"}
  /\ E \cup B # {} => failed
  /\ \A t \in E : phase[t] = "session"
  /\ \A t \in B : phase[t] = "greeter"
  /\ phase' = [t \in Seats |-> IF t = s THEN "dark"
                               ELSE IF t \in E THEN "ended"
                               ELSE IF t \in B THEN "broken" ELSE phase[t]]

Fail == InService /\ failed' = TRUE /\ UNCHANGED phase

\* From here on the seats are left to themselves.
Stop == /\ stopping' = TRUE
        /\ MayFail
        /\ phase' \in [Seats -> Phases]

LifeNext ==
  \/ \E T, B \in SUBSET Seats : Greet(T, B)
  \/ \E s \in Seats : AutoSession(s) \/ Login(s) \/ Logout(s)
  \/ \E s \in Seats, E, B \in SUBSET Seats : Darken(s, E, B)
  \/ Fail
  \/ Stop

LifeSpec == LifeInit /\ [][LifeNext]_lifeVars
=============================================================================
