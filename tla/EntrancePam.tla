----------------------------- MODULE EntrancePam -----------------------------
(***************************************************************************)
(* PAM transactions of one seat: the record _pams[id] of the daemon        *)
(* (src/daemon/entrance_pam.c), the login attempts that use it one after   *)
(* the other, and its copies in the session processes forked by            *)
(* _entrance_session_run (entrance_session.c). A message handler of the    *)
(* daemon is one action; a session process takes its own steps while the   *)
(* daemon serves the next attempts.                                        *)
(***************************************************************************)
EXTENDS FiniteSets, Naturals

CONSTANTS
  Attempts,   \* login attempts; each names the PAM handle it starts
  Users,      \* accounts; a password is named by the account it opens
  Expired,    \* accounts that pam_acct_mgmt refuses
  AutoLogin,  \* the first attempt may be the one of main's autologin branch
  NoHandle,   \* the handle NULL
  MaxFaults   \* bound on attempts that meet a failing system or PAM call

ASSUME UsersAssumption == Expired \subseteq Users /\ "none" \notin Users
ASSUME HandleAssumption == NoHandle \notin Attempts
ASSUME FlagsAssumption == AutoLogin \in BOOLEAN /\ MaxFaults \in Nat

VARIABLES
  daemon,   \* the PAM record of the daemon and the handles it holds
  tried,    \* attempts already made
  msg,      \* the login and password each attempt came with
  step,     \* where the session process of an attempt is
  proc,     \* its copy of the PAM record
  session,  \* the PAM session of an attempt, as the system sees it
  creds,    \* the credentials PAM established for an attempt
  env,      \* the session process got an environment from PAM
  faulty    \* attempts that met a failure

childVars == <<step, proc, session, creds, env>>
vars == <<daemon, tried, msg, childVars, faulty>>

\* An Entrance_Pam with the handle (and the user PAM keeps in it), the set of
\* handles not ended yet in this process, and whether PAM was ever called with
\* a handle that had been ended.
Procs == [handle: Attempts \cup {NoHandle}, user: Users \cup {"none"},
          passwd: Users \cup {"none"}, opened: BOOLEAN,
          live: SUBSET Attempts, misused: BOOLEAN]

NoProc == [handle |-> NoHandle, user |-> "none", passwd |-> "none",
           opened |-> FALSE, live |-> {}, misused |-> FALSE]

\* The autologin takes its login from the configuration and has no password.
Msgs == [login: Users, password: Users \cup {"none"}]
NoMsg == [login |-> "none", password |-> "none"]

PamTypeOK ==
  /\ daemon \in Procs
  /\ tried \subseteq Attempts
  /\ msg \in [Attempts -> Msgs \cup {NoMsg}]
  /\ step \in [Attempts -> {"none", "forked", "env", "user", "close", "exec",
                            "desktop", "dead", "stray"}]
  /\ proc \in [Attempts -> Procs]
  /\ session \in [Attempts -> {"none", "open", "closed"}]
  /\ creds \in [Attempts -> {"none", "set", "deleted"}]
  /\ env \in [Attempts -> BOOLEAN]
  /\ faulty \subseteq Attempts

PamInit ==
  /\ daemon = NoProc
  /\ tried = {}
  /\ msg = [a \in Attempts |-> NoMsg]
  /\ step = [a \in Attempts |-> "none"]
  /\ proc = [a \in Attempts |-> NoProc]
  /\ session = [a \in Attempts |-> "none"]
  /\ creds = [a \in Attempts |-> "none"]
  /\ env = [a \in Attempts |-> FALSE]
  /\ faulty = {}

\* What fails in attempt a is charged to it.
Faults(a, failed) ==
  /\ faulty' = IF failed THEN faulty \cup {a} ELSE faulty
  /\ Cardinality(faulty') <= MaxFaults

-----------------------------------------------------------------------------
(* The functions of entrance_pam.c, on the PAM record p of a process.      *)

\* Any call into PAM with the handle of p.
Call(p) == [p EXCEPT !.misused = @ \/ p.handle \notin p.live \cup {NoHandle}]

\* entrance_pam_end. The pointer is reset, so that ending twice is harmless.
PamEnd_KeepsPointer(p) == [Call(p) EXCEPT !.live = @ \ {p.handle}]
PamEnd(p) == [Call(p) EXCEPT !.live = @ \ {p.handle}, !.handle = NoHandle]

\* entrance_pam_start: a handle left open is ended and a new record is made;
\* the record is without handle if pam_start failed.
PamStart_NoEnd(p, a, u, started) ==
  [p EXCEPT !.handle = IF started THEN a ELSE NoHandle, !.user = u,
            !.passwd = "none", !.opened = FALSE,
            !.live = IF started THEN @ \cup {a} ELSE @]
PamStart_Reuse(p, a, u, started) ==
  IF p.handle # NoHandle THEN p
  ELSE [p EXCEPT !.handle = IF started THEN a ELSE NoHandle, !.user = u,
                 !.live = IF started THEN @ \cup {a} ELSE @]
PamStart(p, a, u, started) ==
  LET q == IF p.handle # NoHandle THEN PamEnd(p) ELSE p
  IN [q EXCEPT !.handle = IF started THEN a ELSE NoHandle, !.user = u,
               !.passwd = "none", !.opened = FALSE,
               !.live = IF started THEN @ \cup {a} ELSE @]

\* entrance_pam_passwd_set, for the conversation function.
PasswdSet(p, pw) == [p EXCEPT !.passwd = pw]

\* entrance_pam_authenticate: both the password, which PAM asks of the
\* conversation function, and the account must be good.
Authenticated(p) ==
  /\ p.handle # NoHandle
  /\ p.passwd = p.user
  /\ p.user \notin Expired

-----------------------------------------------------------------------------
(* The daemon.                                                             *)

\* entrance_session_login for attempt a in the record p: the account is looked
\* up by the user item of PAM, the command of the session found, the session
\* process forked. It ends early at "at"; only the fork is not reported.
SessionLogin(a, p, at) ==
  /\ daemon' = IF at = "item" THEN PamEnd(p) ELSE p
  /\ IF at = "forked"
     THEN /\ step' = [step EXCEPT ![a] = "forked"]
          /\ proc' = [proc EXCEPT ![a] = p]
     ELSE UNCHANGED <<step, proc>>

Outcomes == {"item", "account", "command", "fork", "forked"}

\* An AUTH message: authenticate, then log in or end the transaction. The
\* result of entrance_pam_start is not looked at.
Auth(a, u, pw, started, at) ==
  LET p == PasswdSet(PamStart(daemon, a, u, started), pw)
  IN /\ a \notin tried
     /\ tried' = tried \cup {a}
     /\ msg' = [msg EXCEPT ![a] = [login |-> u, password |-> pw]]
     /\ IF Authenticated(p)
        THEN SessionLogin(a, Call(p), at)
        ELSE /\ at = "forked"
             /\ daemon' = PamEnd(Call(p))
             /\ UNCHANGED <<step, proc>>
     /\ Faults(a, ~started \/ at # "forked")
     /\ UNCHANGED <<session, creds, env>>

\* The autologin of main, which asks for no password.
AutoAuth(a, u, started, at) ==
  LET p == PamStart(daemon, a, u, started)
  IN /\ AutoLogin /\ tried = {}
     /\ tried' = {a}
     /\ msg' = [msg EXCEPT ![a] = [login |-> u, password |-> "none"]]
     /\ ~started => at = "item"
     /\ SessionLogin(a, Call(p), at)
     /\ Faults(a, ~started \/ at # "forked")
     /\ UNCHANGED <<session, creds, env>>

-----------------------------------------------------------------------------
(* The session process of an attempt.                                      *)

Becomes(a, s) == step[a] # s /\ step' = [step EXCEPT ![a] = s]
Holds(a, p)   == proc' = [proc EXCEPT ![a] = p]

daemonVars == <<daemon, tried, msg>>

\* setsid, then entrance_pam_session_open. When the session does not open, the
\* credentials are deleted and the transaction ended, but 0 is returned and
\* "opened" set.
SessionOpened_NotSet(p) == Call(p)
SessionOpened(p) == [Call(p) EXCEPT !.opened = TRUE]

SessionOpen(a, sid, cred, sess) ==
  /\ step[a] = "forked"
  /\ Faults(a, ~(sid /\ cred /\ sess))
  /\ IF ~sid \/ ~cred
     THEN Becomes(a, "dead") /\ UNCHANGED <<proc, session, creds>>
     ELSE /\ Becomes(a, "env")
          /\ creds' = [creds EXCEPT ![a] = IF sess THEN "set" ELSE "deleted"]
          /\ session' = [session EXCEPT ![a] = IF sess THEN "open" ELSE "none"]
          /\ Holds(a, SessionOpened(IF sess THEN proc[a] ELSE PamEnd(Call(proc[a]))))
  /\ UNCHANGED <<daemonVars, env>>

\* The environment goes into PAM variable by variable; a failure ends the
\* transaction, after which neither list nor session can be reached.
EnvSet(a, fails) ==
  LET p == IF fails THEN PamEnd(Call(proc[a])) ELSE Call(proc[a])
  IN /\ step[a] = "env"
     /\ Becomes(a, "user")
     /\ Holds(a, p)
     /\ env' = [env EXCEPT ![a] = p.handle # NoHandle]
     /\ Faults(a, fails)
     /\ UNCHANGED <<daemonVars, session, creds>>

\* The user's identity, cookie and directory; a failure returns from the
\* function, so that the child goes on as a second daemon.
BecomeUser(a, ok) ==
  /\ step[a] = "user"
  /\ Becomes(a, IF ok THEN "close" ELSE "stray")
  /\ Faults(a, ~ok)
  /\ UNCHANGED <<daemonVars, proc, session, creds, env>>

\* entrance_pam_session_close, entrance_pam_end and entrance_pam_shutdown,
\* before the desktop is executed. Without a handle PAM refuses every call.
DeletesCreds(p, closed) == p.opened \/ ~closed

SessionClose(a, closes, deletes) ==
  LET p == Call(proc[a])
      closed  == closes /\ p.handle # NoHandle
      deleted == DeletesCreds(p, closed) /\ deletes /\ p.handle # NoHandle
  IN /\ step[a] = "close"
     /\ Becomes(a, "exec")
     /\ session' = [session EXCEPT ![a] = IF closed THEN "closed" ELSE @]
     /\ creds' = [creds EXCEPT ![a] = IF deleted THEN "deleted" ELSE @]
     /\ Holds(a, PamEnd(IF DeletesCreds(p, closed) /\ ~deleted THEN PamEnd(p) ELSE p))
     /\ Faults(a, ~(closes /\ deletes))
     /\ UNCHANGED <<daemonVars, env>>

Exec(a, ok) ==
  /\ step[a] = "exec"
  /\ Becomes(a, IF ok THEN "desktop" ELSE "stray")
  /\ Faults(a, ~ok)
  /\ UNCHANGED <<daemonVars, proc, session, creds, env>>

-----------------------------------------------------------------------------

PamNext ==
  \E a \in Attempts :
    \/ \E u, pw \in Users, started \in BOOLEAN, at \in Outcomes : Auth(a, u, pw, started, at)
    \/ \E u \in Users, started \in BOOLEAN, at \in Outcomes : AutoAuth(a, u, started, at)
    \/ \E sid, cred, sess \in BOOLEAN : SessionOpen(a, sid, cred, sess)
    \/ \E fails \in BOOLEAN : EnvSet(a, fails)
    \/ \E ok \in BOOLEAN : BecomeUser(a, ok) \/ Exec(a, ok)
    \/ \E closes, deletes \in BOOLEAN : SessionClose(a, closes, deletes)

PamSpec == PamInit /\ [][PamNext]_vars

-----------------------------------------------------------------------------

\* No process ever passes PAM a handle that was ended, and the daemon holds at
\* most one transaction open, the one its record names: nothing leaks when
\* an attempt follows one that was granted, refused or failed half way.
HandleDiscipline ==
  /\ daemon.live = IF daemon.handle = NoHandle THEN {} ELSE {daemon.handle}
  /\ ~daemon.misused
  /\ \A a \in Attempts : ~proc[a].misused

\* A session process runs for a user only if the very attempt it was forked for
\* named that user, came with that user's password, and PAM accepts the
\* account; the autologin, at most one attempt, needs no password. Nothing of
\* an earlier attempt, whose transaction may still be open, gets in.
RunsAsAuthenticated ==
  \A a \in Attempts :
    step[a] # "none"
      => /\ proc[a].user = msg[a].login
         /\ msg[a].password # "none" =>
              msg[a].password = msg[a].login /\ msg[a].login \notin Expired

\* Whatever goes wrong in other attempts, an attempt without failure hands the
\* desktop its environment and no PAM state: the session was opened and closed,
\* the credentials deleted and the transaction ended.
CleanHandOver ==
  \A a \in Attempts \ faulty :
    step[a] = "desktop" => /\ session[a] = "closed" /\ creds[a] = "deleted"
                           /\ env[a] /\ proc[a].live = {}

\* The inductive invariant behind these two: a process knows either no handle
\* or one it has not ended.
PamInv ==
  /\ PamTypeOK
  /\ HandleDiscipline
  /\ RunsAsAuthenticated
  /\ \A a \in Attempts : proc[a].handle \in proc[a].live \cup {NoHandle}
  /\ \A a \in Attempts : step[a] # "none" => a \in tried

\* The session of a login process that goes on was opened: "0 on successful
\* login, 1 if it fails" (entrance_pam.h, entrance_pam_session_open).
SessionOpenReported ==
  \A a \in Attempts : step[a] \notin {"none", "forked", "dead"} => session[a] # "none"
=============================================================================
