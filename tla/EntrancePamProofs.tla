-------------------------- MODULE EntrancePamProofs --------------------------
(***************************************************************************)
(* Proofs about EntrancePam, for any set of attempts and of users: the PAM *)
(* handles are used properly in every process, and a session process runs  *)
(* as the user its own attempt authenticated.                              *)
(***************************************************************************)
EXTENDS EntrancePam, TLAPS

\* A record that PAM may be called with: its handle, if any, is not ended.
Sound(p) == /\ p \in Procs
            /\ ~p.misused
            /\ p.handle \in p.live \cup {NoHandle}

\* ... and it holds no other handle, as the record of the daemon does.
Tidy(p) == Sound(p) /\ p.live = IF p.handle = NoHandle THEN {} ELSE {p.handle}

\* A call into PAM leaves a sound record as it is.
LEMMA CallSound ==
  ASSUME NEW p, Sound(p)
  PROVE  Call(p) = p
<1>1. p.handle \in p.live \cup {NoHandle} /\ ~p.misused /\ p \in Procs
  BY DEF Sound
<1>2. (p.misused \/ p.handle \notin p.live \cup {NoHandle}) = p.misused
  BY <1>1 DEF Procs
<1> QED
  BY <1>1, <1>2 DEF Call, Procs

\* entrance_pam_end on a sound record: no handle is left in it.
LEMMA EndSound ==
  ASSUME NEW p, Sound(p)
  PROVE  /\ Sound(PamEnd(p))
         /\ PamEnd(p).user = p.user
         /\ PamEnd(p).handle = NoHandle
         /\ PamEnd(p).live = p.live \ {p.handle}
<1>1. Call(p) = p
  BY CallSound
<1> QED
  BY <1>1 DEF Sound, Procs, PamEnd

\* entrance_pam_end in the daemon leaves nothing open.
LEMMA EndTidy ==
  ASSUME NEW p, Tidy(p)
  PROVE  Tidy(PamEnd(p)) /\ PamEnd(p).user = p.user
<1>1. Sound(p) /\ p.live = IF p.handle = NoHandle THEN {} ELSE {p.handle}
  BY DEF Tidy
<1> QED
  BY <1>1, EndSound DEF Tidy

\* entrance_pam_start replaces the transaction of the daemon, whatever state
\* the last one was left in.
LEMMA StartTidy ==
  ASSUME NEW p, Tidy(p), NEW a \in Attempts, NEW u \in Users, NEW started \in BOOLEAN
  PROVE  /\ Tidy(PamStart(p, a, u, started)) /\ PamStart(p, a, u, started).user = u
         /\ PamStart(p, a, u, started).handle = IF started THEN a ELSE NoHandle
<1> DEFINE q == IF p.handle # NoHandle THEN PamEnd(p) ELSE p
<1>1. Sound(q) /\ q.handle = NoHandle /\ q.live = {}
  BY EndSound DEF Tidy, Sound
<1>2. PamStart(p, a, u, started)
        = [q EXCEPT !.handle = IF started THEN a ELSE NoHandle, !.user = u,
                    !.passwd = "none", !.opened = FALSE,
                    !.live = IF started THEN @ \cup {a} ELSE @]
  BY DEF PamStart
<1> DEFINE r == PamStart(p, a, u, started)
<1> HIDE DEF q
<1>3. q \in Procs /\ ~q.misused
  BY <1>1 DEF Sound
<1>4. /\ r.user = u /\ r.misused = q.misused
      /\ r.handle = IF started THEN a ELSE NoHandle
      /\ r.live = IF started THEN {a} ELSE {}
  BY <1>1, <1>2, <1>3 DEF Procs
<1>5. r \in Procs
  <2>1. r = [handle |-> IF started THEN a ELSE NoHandle, user |-> u,
             passwd |-> "none", opened |-> FALSE,
             live |-> IF started THEN {a} ELSE {}, misused |-> q.misused]
    BY <1>1, <1>2, <1>3 DEF Procs
  <2>2. /\ (IF started THEN a ELSE NoHandle) \in Attempts \cup {NoHandle}
        /\ (IF started THEN {a} ELSE {}) \in SUBSET Attempts
        /\ q.misused \in BOOLEAN
    BY <1>3 DEF Procs
  <2> QED
    BY <2>1, <2>2 DEF Procs
<1> HIDE DEF r
<1>6. Tidy(r) /\ r.user = u
  BY <1>3, <1>4, <1>5, HandleAssumption DEF Tidy, Sound
<1> QED
  BY <1>4, <1>6 DEF r

\* Setting the password keeps the record tidy.
LEMMA PasswdTidy ==
  ASSUME NEW p, Tidy(p), NEW pw \in Users
  PROVE  /\ Tidy(PasswdSet(p, pw))
         /\ PasswdSet(p, pw).user = p.user
         /\ PasswdSet(p, pw).passwd = pw
BY DEF Tidy, Sound, Procs, PasswdSet

\* The daemon starts with an empty record and no session process.
LEMMA InitInv == PamInit => PamInv
<1> SUFFICES ASSUME PamInit PROVE PamInv
  OBVIOUS
<1>1. NoProc \in Procs
  BY DEF NoProc, Procs
<1>2. PamTypeOK
  BY <1>1 DEF PamInit, PamTypeOK, NoMsg
<1> QED
  BY <1>2 DEF PamInit, PamInv, HandleDiscipline, RunsAsAuthenticated, NoProc

\* The invariant of the daemon's record in one formula.
LEMMA DaemonTidy == PamInv => Tidy(daemon)
BY DEF PamInv, PamTypeOK, HandleDiscipline, Tidy, Sound

\* No session process knows a handle that it ended.
LEMMA ProcSound == PamInv => \A a \in Attempts : Sound(proc[a])
BY DEF PamInv, PamTypeOK, HandleDiscipline, Sound

\* entrance_session_login: whatever point it ends at, the record stays tidy,
\* and a forked process gets a sound copy of it.
LEMMA LoginInv ==
  ASSUME PamInv, NEW a \in Attempts \ tried, NEW p, Tidy(p), NEW at \in Outcomes,
         NEW m \in Msgs, p.user = m.login,
         m.password # "none" => m.password = m.login /\ m.login \notin Expired,
         SessionLogin(a, p, at), tried' = tried \cup {a}, msg' = [msg EXCEPT ![a] = m],
         faulty' \subseteq Attempts, UNCHANGED <<session, creds, env>>
  PROVE  PamInv'
<1> USE DEF PamInv
<1>0. Sound(p) /\ p \in Procs
  BY DEF Tidy, Sound
<1>1. Tidy(daemon') /\ daemon' \in Procs
  BY EndTidy DEF SessionLogin, Tidy, Sound
<1>2. \/ step' = [step EXCEPT ![a] = "forked"] /\ proc' = [proc EXCEPT ![a] = p]
      \/ UNCHANGED <<step, proc>>
  BY DEF SessionLogin
<1>3. step[a] = "none"
  BY DEF PamTypeOK
<1>4. PamTypeOK'
  BY <1>0, <1>1, <1>2 DEF PamTypeOK, SessionLogin
<1>5. /\ daemon'.live = IF daemon'.handle = NoHandle THEN {} ELSE {daemon'.handle}
      /\ ~daemon'.misused
  BY <1>1 DEF Tidy, Sound
<1>6. \A b \in Attempts : Sound(proc'[b])
  <2> TAKE b \in Attempts
  <2>1. Sound(proc[b])
    BY ProcSound
  <2> QED
    BY <1>0, <1>2, <2>1 DEF PamTypeOK
<1>7. HandleDiscipline' /\ \A b \in Attempts : proc'[b].handle \in proc'[b].live \cup {NoHandle}
  BY <1>5, <1>6 DEF HandleDiscipline, Sound
<1>8. RunsAsAuthenticated'
  <2> SUFFICES ASSUME NEW b \in Attempts, step'[b] # "none"
               PROVE  /\ proc'[b].user = msg'[b].login
                      /\ msg'[b].password # "none" =>
                           msg'[b].password = msg'[b].login /\ msg'[b].login \notin Expired
    BY DEF RunsAsAuthenticated
  <2>1. CASE b = a
    BY <1>2, <1>3, <2>1 DEF PamTypeOK
  <2>2. CASE b # a
    BY <1>2, <2>2 DEF PamTypeOK, RunsAsAuthenticated
  <2> QED
    BY <2>1, <2>2
<1>9. \A b \in Attempts : step'[b] # "none" => b \in tried'
  BY <1>2 DEF PamTypeOK
<1> QED
  BY <1>4, <1>7, <1>8, <1>9

\* An action of the session process of attempt a that leaves a sound record of
\* the same user preserves the invariant.
LEMMA ProcessInv ==
  ASSUME PamInv, NEW a \in Attempts, step[a] # "none",
         NEW s \in {"env", "user", "close", "exec", "desktop", "dead", "stray"},
         NEW p, Sound(p), p.user = proc[a].user,
         UNCHANGED daemonVars, step' = [step EXCEPT ![a] = s],
         proc' = [proc EXCEPT ![a] = p], faulty' \subseteq Attempts,
         session' \in [Attempts -> {"none", "open", "closed"}],
         creds' \in [Attempts -> {"none", "set", "deleted"}],
         env' \in [Attempts -> BOOLEAN]
  PROVE  PamInv'
<1> USE DEF PamInv
<1>1. p \in Procs
  BY DEF Sound
<1>2. PamTypeOK'
  BY <1>1 DEF PamTypeOK, daemonVars
<1>3. \A b \in Attempts : Sound(proc'[b]) /\ proc'[b].user = proc[b].user
  <2> TAKE b \in Attempts
  <2>1. Sound(proc[b])
    BY ProcSound
  <2> QED
    BY <2>1 DEF PamTypeOK
<1>4. HandleDiscipline' /\ \A b \in Attempts : proc'[b].handle \in proc'[b].live \cup {NoHandle}
  BY <1>3 DEF HandleDiscipline, Sound, daemonVars
<1>5. RunsAsAuthenticated'
  BY <1>3 DEF RunsAsAuthenticated, PamTypeOK, daemonVars
<1>6. \A b \in Attempts : step'[b] # "none" => b \in tried'
  BY DEF PamTypeOK, daemonVars
<1> QED
  BY <1>2, <1>4, <1>5, <1>6

\* Every message, step of a session process and failure keeps the invariant.
LEMMA StepInv == PamInv /\ [PamNext]_vars => PamInv'
<1> SUFFICES ASSUME PamInv, [PamNext]_vars PROVE PamInv'
  OBVIOUS
<1>0. PamTypeOK
  BY DEF PamInv
<1>s. \A a \in Attempts : Sound(proc[a])
  BY ProcSound
<1>f. ASSUME NEW a \in Attempts, NEW failed, Faults(a, failed)
      PROVE  faulty' \subseteq Attempts
  BY <1>0, <1>f DEF Faults, PamTypeOK
<1>1. ASSUME NEW a \in Attempts, NEW u \in Users, NEW pw \in Users,
             NEW started \in BOOLEAN, NEW at \in Outcomes, Auth(a, u, pw, started, at)
      PROVE  PamInv'
  <2> DEFINE q == PamStart(daemon, a, u, started)
             p == PasswdSet(q, pw)
             m == [login |-> u, password |-> pw]
  <2>1. Tidy(q) /\ q.user = u
    BY DaemonTidy, StartTidy
  <2>2. Tidy(p) /\ p.user = u /\ p.passwd = pw
    <3> HIDE DEF q
    <3> QED
      BY <2>1, PasswdTidy
  <2>3. Sound(p)
    BY <2>2 DEF Tidy
  <2>4. Call(p) = p
    BY <2>3, CallSound
  <2>5. /\ a \notin tried /\ tried' = tried \cup {a} /\ msg' = [msg EXCEPT ![a] = m]
        /\ IF Authenticated(p)
           THEN SessionLogin(a, Call(p), at)
           ELSE daemon' = PamEnd(Call(p)) /\ UNCHANGED <<step, proc>>
        /\ Faults(a, ~started \/ at # "forked")
        /\ UNCHANGED <<session, creds, env>>
    BY <1>1 DEF Auth
  <2>6. faulty' \subseteq Attempts
    BY <2>5, <1>f
  <2>m. m \in Msgs /\ m.login = u /\ m.password = pw
    BY DEF Msgs
  <2> HIDE DEF p, m
  <2>7. CASE Authenticated(p)
    <3>1. pw = u /\ u \notin Expired
      BY <2>2, <2>7 DEF Authenticated
    <3>2. SessionLogin(a, p, at)
      BY <2>4, <2>5, <2>7
    <3> QED
      BY <2>2, <2>5, <2>6, <2>m, <3>1, <3>2, LoginInv
  <2>8. CASE ~Authenticated(p)
    <3>1. daemon' = PamEnd(p) /\ UNCHANGED <<step, proc>>
      BY <2>4, <2>5, <2>8
    <3>2. Tidy(daemon') /\ daemon' \in Procs
      BY <2>2, <3>1, EndTidy DEF Tidy, Sound
    <3>3. PamTypeOK'
      BY <1>0, <2>5, <2>6, <2>m, <3>1, <3>2 DEF PamTypeOK
    <3>4. HandleDiscipline'
      BY <3>1, <3>2 DEF PamInv, HandleDiscipline, Tidy, Sound
    <3>5. step[a] = "none"
      BY <1>0, <2>5 DEF PamInv, PamTypeOK
    <3>6. RunsAsAuthenticated'
      BY <1>0, <2>5, <3>1, <3>5 DEF PamInv, PamTypeOK, RunsAsAuthenticated
    <3> QED
      BY <2>5, <3>1, <3>3, <3>4, <3>6 DEF PamInv
  <2> QED
    BY <2>7, <2>8
<1>2. ASSUME NEW a \in Attempts, NEW u \in Users, NEW started \in BOOLEAN,
             NEW at \in Outcomes, AutoAuth(a, u, started, at)
      PROVE  PamInv'
  <2> DEFINE p == PamStart(daemon, a, u, started)
             m == [login |-> u, password |-> "none"]
  <2>1. Tidy(p) /\ p.user = u
    BY DaemonTidy, StartTidy
  <2>2. Call(p) = p
    BY <2>1, CallSound DEF Tidy
  <2>3. /\ a \notin tried /\ tried' = tried \cup {a} /\ msg' = [msg EXCEPT ![a] = m]
        /\ SessionLogin(a, Call(p), at)
        /\ Faults(a, ~started \/ at # "forked")
        /\ UNCHANGED <<session, creds, env>>
    BY <1>2 DEF AutoAuth
  <2>4. faulty' \subseteq Attempts
    BY <2>3, <1>f
  <2>5. m \in Msgs /\ m.login = u /\ m.password = "none"
    BY DEF Msgs
  <2> HIDE DEF p, m
  <2> QED
    BY <2>1, <2>2, <2>3, <2>4, <2>5, LoginInv
<1>3. ASSUME NEW a \in Attempts, NEW sid \in BOOLEAN, NEW cred \in BOOLEAN,
             NEW sess \in BOOLEAN, SessionOpen(a, sid, cred, sess)
      PROVE  PamInv'
  <2>1. step[a] = "forked" /\ faulty' \subseteq Attempts /\ UNCHANGED daemonVars /\ env' = env
    BY <1>3, <1>f DEF SessionOpen
  <2>2. CASE ~sid \/ ~cred
    <3>1. /\ step' = [step EXCEPT ![a] = "dead"] /\ UNCHANGED <<session, creds>>
          /\ proc' = [proc EXCEPT ![a] = proc[a]]
      BY <1>0, <1>3, <2>2 DEF SessionOpen, Becomes, PamTypeOK
    <3> QED
      BY <1>0, <1>s, <2>1, <3>1, ProcessInv DEF PamTypeOK
  <2>3. CASE sid /\ cred
    <3> DEFINE q == IF sess THEN proc[a] ELSE PamEnd(Call(proc[a]))
               p == SessionOpened(q)
    <3>1. Sound(q) /\ q.user = proc[a].user
      BY <1>s, CallSound, EndSound
    <3>2. Sound(p) /\ p.user = proc[a].user
      <4> HIDE DEF q
      <4> QED
        BY <3>1, CallSound DEF SessionOpened, Sound, Procs
    <3>3. /\ step' = [step EXCEPT ![a] = "env"] /\ proc' = [proc EXCEPT ![a] = p]
          /\ session' \in [Attempts -> {"none", "open", "closed"}]
          /\ creds' \in [Attempts -> {"none", "set", "deleted"}]
      BY <1>0, <1>3, <2>3 DEF SessionOpen, Becomes, Holds, PamTypeOK
    <3> HIDE DEF p
    <3> QED
      BY <1>0, <2>1, <3>2, <3>3, ProcessInv DEF PamTypeOK
  <2> QED
    BY <2>2, <2>3
<1>4. ASSUME NEW a \in Attempts, NEW fails \in BOOLEAN, EnvSet(a, fails)
      PROVE  PamInv'
  <2> DEFINE p == IF fails THEN PamEnd(Call(proc[a])) ELSE Call(proc[a])
  <2>1. Sound(p) /\ p.user = proc[a].user
    BY <1>s, CallSound, EndSound
  <2>2. /\ step[a] = "env" /\ step' = [step EXCEPT ![a] = "user"]
        /\ proc' = [proc EXCEPT ![a] = p] /\ env' \in [Attempts -> BOOLEAN]
        /\ UNCHANGED <<daemonVars, session, creds>> /\ Faults(a, fails)
    BY <1>0, <1>4 DEF EnvSet, Becomes, Holds, PamTypeOK
  <2>3. faulty' \subseteq Attempts
    BY <2>2, <1>f
  <2> HIDE DEF p
  <2> QED
    BY <1>0, <2>1, <2>2, <2>3, ProcessInv DEF PamTypeOK
<1>5. ASSUME NEW a \in Attempts, NEW ok \in BOOLEAN, BecomeUser(a, ok) \/ Exec(a, ok)
      PROVE  PamInv'
  <2>1. PICK s \in {"close", "desktop", "stray"} : step' = [step EXCEPT ![a] = s]
    BY <1>5 DEF BecomeUser, Exec, Becomes
  <2>2. /\ step[a] # "none" /\ proc' = [proc EXCEPT ![a] = proc[a]]
        /\ UNCHANGED <<daemonVars, session, creds, env>> /\ Faults(a, ~ok)
    BY <1>0, <1>5 DEF BecomeUser, Exec, PamTypeOK
  <2>3. faulty' \subseteq Attempts
    BY <2>2, <1>f
  <2> QED
    BY <1>0, <1>s, <2>1, <2>2, <2>3, ProcessInv DEF PamTypeOK
<1>6. ASSUME NEW a \in Attempts, NEW closes \in BOOLEAN, NEW deletes \in BOOLEAN,
             SessionClose(a, closes, deletes)
      PROVE  PamInv'
  <2>1. Call(proc[a]) = proc[a]
    BY <1>s, CallSound
  <2>2. PICK p : /\ p = PamEnd(proc[a]) \/ p = PamEnd(PamEnd(proc[a]))
                 /\ proc' = [proc EXCEPT ![a] = p]
    BY <1>6, <2>1 DEF SessionClose, Holds
  <2>3. Sound(p) /\ p.user = proc[a].user
    BY <1>s, <2>2, EndSound
  <2>4. /\ step[a] = "close" /\ step' = [step EXCEPT ![a] = "exec"]
        /\ session' \in [Attempts -> {"none", "open", "closed"}]
        /\ creds' \in [Attempts -> {"none", "set", "deleted"}]
        /\ UNCHANGED <<daemonVars, env>> /\ Faults(a, ~(closes /\ deletes))
    BY <1>0, <1>6 DEF SessionClose, Becomes, PamTypeOK
  <2>5. faulty' \subseteq Attempts
    BY <2>4, <1>f
  <2> QED
    BY <1>0, <2>2, <2>3, <2>4, <2>5, ProcessInv DEF PamTypeOK
<1>7. CASE UNCHANGED vars
  BY <1>7 DEF PamInv, PamTypeOK, HandleDiscipline, RunsAsAuthenticated, vars, childVars
<1> QED
  BY <1>1, <1>2, <1>3, <1>4, <1>5, <1>6, <1>7 DEF PamNext

\* PamInv is an invariant of the PAM transactions of a seat.
THEOREM PamInvariance == PamSpec => []PamInv
<1> QED
  BY InitInv, StepInv, PTL DEF PamSpec

\* PAM is never called with an ended handle, and the daemon leaks none
\* (entrance_pam.c: entrance_pam_start, entrance_pam_end).
THEOREM HandlesAreDisciplined == PamSpec => []HandleDiscipline
<1>1. PamInv => HandleDiscipline
  BY DEF PamInv
<1> QED
  BY <1>1, PamInvariance, PTL

\* Every session process runs as the user whose password its own attempt gave
\* (entrance_session_authenticate, entrance_session_login).
THEOREM OnlyAuthenticatedRun == PamSpec => []RunsAsAuthenticated
<1>1. PamInv => RunsAsAuthenticated
  BY DEF PamInv
<1> QED
  BY <1>1, PamInvariance, PTL

-----------------------------------------------------------------------------
(* The session process, step by step.                                      *)

\* How far a session process without failure has got: it holds the one open
\* transaction of its attempt until that is closed, a session that is open
\* with credentials set, then its environment, and in the end none of them.
CleanAt(a) ==
  a \notin faulty =>
    /\ step[a] \in {"forked", "env", "user", "close"} =>
         proc[a].handle # NoHandle /\ proc[a].live = {proc[a].handle}
    /\ step[a] \in {"env", "user", "close"} =>
         session[a] = "open" /\ creds[a] = "set" /\ proc[a].opened
    /\ step[a] \in {"user", "close", "exec", "desktop"} => env[a]
    /\ step[a] \in {"exec", "desktop"} =>
         session[a] = "closed" /\ creds[a] = "deleted" /\ proc[a].live = {}

\* An attempt that a step does not work on stays where it is.
LEMMA CleanElsewhere ==
  ASSUME NEW b \in Attempts, CleanAt(b), faulty \subseteq faulty',
         step'[b] = step[b], proc'[b] = proc[b], session'[b] = session[b],
         creds'[b] = creds[b], env'[b] = env[b]
  PROVE  CleanAt(b)'
BY DEF CleanAt

\* The budget only ever charges attempts.
LEMMA FaultsCharged ==
  ASSUME NEW a \in Attempts, NEW failed, Faults(a, failed)
  PROVE  faulty \subseteq faulty' /\ (a \notin faulty' => ~failed /\ a \notin faulty)
BY DEF Faults

\* Every step of every process keeps the session processes on their way.
LEMMA CleanStep ==
  ASSUME PamInv, \A a \in Attempts : CleanAt(a), [PamNext]_vars
  PROVE  \A a \in Attempts : CleanAt(a)'
<1>0. PamTypeOK
  BY DEF PamInv
<1>s. \A a \in Attempts : Sound(proc[a]) /\ Call(proc[a]) = proc[a]
  BY ProcSound, CallSound
<1>1. ASSUME NEW a \in Attempts, NEW u \in Users, NEW pw \in Users,
             NEW started \in BOOLEAN, NEW at \in Outcomes, Auth(a, u, pw, started, at)
      PROVE  \A b \in Attempts : CleanAt(b)'
  <2> DEFINE q == PamStart(daemon, a, u, started)
             p == PasswdSet(q, pw)
  <2>1. Tidy(q)
    BY DaemonTidy, StartTidy
  <2>2. Tidy(p)
    <3> HIDE DEF q
    <3> QED
      BY <2>1, PasswdTidy
  <2>3. Call(p) = p
    BY <2>2, CallSound DEF Tidy
  <2>4. /\ IF Authenticated(p) THEN SessionLogin(a, p, at) ELSE UNCHANGED <<step, proc>>
        /\ UNCHANGED <<session, creds, env>> /\ Faults(a, ~started \/ at # "forked")
        /\ a \notin tried
    BY <1>1, <2>3 DEF Auth
  <2> HIDE DEF p
  <2>5. \A b \in Attempts \ {a} : CleanAt(b)'
    <3> TAKE b \in Attempts \ {a}
    <3>1. step'[b] = step[b] /\ proc'[b] = proc[b]
      BY <1>0, <2>4 DEF SessionLogin, PamTypeOK
    <3> QED
      BY <2>4, <3>1, FaultsCharged, CleanElsewhere
  <2>6. CleanAt(a)'
    <3>1. step[a] = "none"
      BY <2>4 DEF PamInv, PamTypeOK
    <3>2. CASE Authenticated(p)
      <4>1. SessionLogin(a, p, at)
        BY <2>4, <3>2
      <4>2. \/ step'[a] = "forked" /\ proc'[a] = p
            \/ step'[a] = "none"
        BY <1>0, <3>1, <4>1 DEF SessionLogin, PamTypeOK
      <4>3. p.handle # NoHandle /\ p.live = {p.handle}
        BY <2>2, <3>2 DEF Authenticated, Tidy
      <4> QED
        BY <4>2, <4>3 DEF CleanAt
    <3>3. CASE ~Authenticated(p)
      BY <2>4, <3>1, <3>3 DEF CleanAt
    <3> QED
      BY <3>2, <3>3
  <2> QED
    BY <2>5, <2>6
<1>2. ASSUME NEW a \in Attempts, NEW u \in Users, NEW started \in BOOLEAN,
             NEW at \in Outcomes, AutoAuth(a, u, started, at)
      PROVE  \A b \in Attempts : CleanAt(b)'
  <2> DEFINE p == PamStart(daemon, a, u, started)
  <2>1. Tidy(p) /\ p.handle = IF started THEN a ELSE NoHandle
    BY DaemonTidy, StartTidy
  <2>2. Call(p) = p
    BY <2>1, CallSound DEF Tidy
  <2>3. /\ SessionLogin(a, p, at) /\ a \notin tried
        /\ UNCHANGED <<session, creds, env>> /\ Faults(a, ~started \/ at # "forked")
    BY <1>2, <2>2 DEF AutoAuth
  <2> HIDE DEF p
  <2>4. \A b \in Attempts \ {a} : CleanAt(b)'
    <3> TAKE b \in Attempts \ {a}
    <3>1. step'[b] = step[b] /\ proc'[b] = proc[b]
      BY <1>0, <2>3 DEF SessionLogin, PamTypeOK
    <3> QED
      BY <2>3, <3>1, FaultsCharged, CleanElsewhere
  <2>5. CleanAt(a)'
    <3>1. step[a] = "none"
      BY <2>3 DEF PamInv, PamTypeOK
    <3>2. \/ step'[a] = "forked" /\ proc'[a] = p
          \/ step'[a] = "none"
      BY <1>0, <2>3, <3>1 DEF SessionLogin, PamTypeOK
    <3>3. a \notin faulty' => p.handle # NoHandle /\ p.live = {p.handle}
      BY <2>1, <2>3, FaultsCharged, HandleAssumption DEF Tidy
    <3> QED
      BY <3>2, <3>3 DEF CleanAt
  <2> QED
    BY <2>4, <2>5
<1>3. ASSUME NEW a \in Attempts, NEW sid \in BOOLEAN, NEW cred \in BOOLEAN,
             NEW sess \in BOOLEAN, SessionOpen(a, sid, cred, sess)
      PROVE  \A b \in Attempts : CleanAt(b)'
  <2>1. Faults(a, ~(sid /\ cred /\ sess)) /\ step[a] = "forked"
    BY <1>3 DEF SessionOpen
  <2>2. \A b \in Attempts \ {a} : CleanAt(b)'
    <3> TAKE b \in Attempts \ {a}
    <3>1. step'[b] = step[b] /\ proc'[b] = proc[b] /\ session'[b] = session[b]
          /\ creds'[b] = creds[b] /\ env'[b] = env[b]
      BY <1>0, <1>3 DEF SessionOpen, Becomes, Holds, PamTypeOK
    <3> QED
      BY <2>1, <3>1, FaultsCharged, CleanElsewhere
  <2>3. ASSUME a \notin faulty'
        PROVE  CleanAt(a)'
    <3>1. sid /\ cred /\ sess /\ a \notin faulty
      BY <2>1, <2>3, FaultsCharged
    <3>2. step'[a] = "env" /\ proc'[a] = [proc[a] EXCEPT !.opened = TRUE]
          /\ session'[a] = "open" /\ creds'[a] = "set"
      BY <1>0, <1>3, <1>s, <3>1 DEF SessionOpen, Becomes, Holds, SessionOpened, PamTypeOK
    <3>3. proc[a].handle # NoHandle /\ proc[a].live = {proc[a].handle}
      BY <2>1, <3>1 DEF CleanAt
    <3> QED
      BY <1>0, <3>2, <3>3 DEF CleanAt, PamTypeOK, Procs
  <2> QED
    BY <2>2, <2>3 DEF CleanAt
<1>4. ASSUME NEW a \in Attempts, NEW fails \in BOOLEAN, EnvSet(a, fails)
      PROVE  \A b \in Attempts : CleanAt(b)'
  <2>1. Faults(a, fails) /\ step[a] = "env"
    BY <1>4 DEF EnvSet
  <2>2. \A b \in Attempts \ {a} : CleanAt(b)'
    <3> TAKE b \in Attempts \ {a}
    <3>1. step'[b] = step[b] /\ proc'[b] = proc[b] /\ session'[b] = session[b]
          /\ creds'[b] = creds[b] /\ env'[b] = env[b]
      BY <1>4 DEF EnvSet, Becomes, Holds
    <3> QED
      BY <2>1, <3>1, FaultsCharged, CleanElsewhere
  <2>3. ASSUME a \notin faulty'
        PROVE  CleanAt(a)'
    <3>1. ~fails /\ a \notin faulty
      BY <2>1, <2>3, FaultsCharged
    <3>2. step'[a] = "user" /\ proc'[a] = proc[a] /\ session'[a] = session[a]
          /\ creds'[a] = creds[a] /\ env'[a] = (proc[a].handle # NoHandle)
      BY <1>0, <1>4, <1>s, <3>1 DEF EnvSet, Becomes, Holds, PamTypeOK
    <3> QED
      BY <2>1, <3>1, <3>2 DEF CleanAt
  <2> QED
    BY <2>2, <2>3 DEF CleanAt
<1>5. ASSUME NEW a \in Attempts, NEW ok \in BOOLEAN, BecomeUser(a, ok) \/ Exec(a, ok)
      PROVE  \A b \in Attempts : CleanAt(b)'
  <2>1. Faults(a, ~ok) /\ UNCHANGED <<proc, session, creds, env>>
        /\ \A b \in Attempts \ {a} : step'[b] = step[b]
    BY <1>0, <1>5 DEF BecomeUser, Exec, Becomes, PamTypeOK
  <2>2. \/ step[a] = "user" /\ step'[a] = "close"
        \/ step[a] = "exec" /\ step'[a] = "desktop"
        \/ step'[a] = "stray"
    BY <1>0, <1>5 DEF BecomeUser, Exec, Becomes, PamTypeOK
  <2>3. \A b \in Attempts \ {a} : CleanAt(b)'
    BY <2>1, FaultsCharged, CleanElsewhere
  <2>4. CleanAt(a)'
    BY <2>1, <2>2, FaultsCharged DEF CleanAt
  <2> QED
    BY <2>3, <2>4
<1>6. ASSUME NEW a \in Attempts, NEW closes \in BOOLEAN, NEW deletes \in BOOLEAN,
             SessionClose(a, closes, deletes)
      PROVE  \A b \in Attempts : CleanAt(b)'
  <2>1. Faults(a, ~(closes /\ deletes)) /\ step[a] = "close"
    BY <1>6 DEF SessionClose
  <2>2. \A b \in Attempts \ {a} : CleanAt(b)'
    <3> TAKE b \in Attempts \ {a}
    <3>1. step'[b] = step[b] /\ proc'[b] = proc[b] /\ session'[b] = session[b]
          /\ creds'[b] = creds[b] /\ env'[b] = env[b]
      BY <1>6 DEF SessionClose, Becomes, Holds
    <3> QED
      BY <2>1, <3>1, FaultsCharged, CleanElsewhere
  <2>3. ASSUME a \notin faulty'
        PROVE  CleanAt(a)'
    <3>1. closes /\ deletes /\ a \notin faulty
      BY <2>1, <2>3, FaultsCharged
    <3>2. /\ proc[a].handle # NoHandle /\ proc[a].live = {proc[a].handle}
          /\ session[a] = "open" /\ creds[a] = "set" /\ proc[a].opened /\ env[a]
      BY <2>1, <3>1 DEF CleanAt
    <3>3. DeletesCreds(proc[a], TRUE)
      BY <3>2 DEF DeletesCreds
    <3>4. step'[a] = "exec" /\ session'[a] = "closed" /\ creds'[a] = "deleted" /\ env' = env
          /\ proc'[a] = PamEnd(proc[a])
      BY <1>0, <1>6, <1>s, <3>1, <3>2, <3>3 DEF SessionClose, Becomes, Holds, PamTypeOK
    <3>5. proc'[a].live = {}
      BY <1>s, <3>2, <3>4, EndSound
    <3> QED
      BY <3>2, <3>4, <3>5 DEF CleanAt
  <2> QED
    BY <2>2, <2>3 DEF CleanAt
<1>7. CASE UNCHANGED vars
  BY <1>7 DEF CleanAt, vars, childVars
<1> QED
  BY <1>1, <1>2, <1>3, <1>4, <1>5, <1>6, <1>7 DEF PamNext

\* Whatever fails in other attempts, a session process in which nothing failed
\* gives the desktop its environment and leaves PAM nothing of the transaction
\* (_entrance_session_run, entrance_pam_session_open and _close).
THEOREM HandsOverClean == PamSpec => []CleanHandOver
<1> DEFINE Clean == \A a \in Attempts : CleanAt(a)
<1>1. PamInit => Clean
  BY DEF PamInit, CleanAt
<1>2. PamInv /\ Clean /\ [PamNext]_vars => Clean'
  BY CleanStep
<1>3. Clean => CleanHandOver
  BY DEF CleanAt, CleanHandOver
<1> QED
  BY <1>1, <1>2, <1>3, PamInvariance, PTL DEF PamSpec
=============================================================================
