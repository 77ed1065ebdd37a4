-------------------------- MODULE EntranceHistory ---------------------------
(***************************************************************************)
(* The remembered sessions (src/daemon/entrance_history.c). The daemon     *)
(* keeps the session every user logged in with last, and offers it in the  *)
(* list of users that the greeters show. It reads them from a cache file,  *)
(* which is generated from users.conf when it is missing or older, and     *)
(* which the daemon writes only when it stops.                             *)
(***************************************************************************)
EXTENDS Integers, Sequences

CONSTANTS
  Logins,        \* all who can log in
  Passwd,        \* the users of /etc/passwd with a uid of 1000 to 65533, in order
  Sessions,      \* names of desktop sessions
  NoSession,     \* the session that is NULL
  LoginSessions, \* the sessions a login may name; the greeter always names one
  Confs,         \* the texts users.conf may have
  MaxTime,       \* bound on the clock that stamps files, in seconds
  Careful        \* users.conf is edited only while no daemon runs

Entry == [login : Logins, session : Sessions \cup {NoSession}, remember : BOOLEAN]

Known(h) == {h[i].login : i \in DOMAIN h}
Unique(h) == \A i, j \in DOMAIN h : h[i].login = h[j].login => i = j

ASSUME HistoryAssumption ==
  /\ Passwd \in Seq(Logins)
  /\ NoSession \notin Sessions
  /\ LoginSessions \subseteq Sessions \cup {NoSession}
  /\ Confs \subseteq Seq(Entry)
  /\ \A h \in Confs : Unique(h)
  /\ MaxTime \in Nat
  /\ Careful \in BOOLEAN

VARIABLES
  proc,    \* the daemon: "up", "stopped" cleanly, or "crashed"
  history, \* _entrance_history->history
  update,  \* _history_update
  lusers,  \* _lusers: a record is that of the history ("shared") or its own
  conf,    \* users.conf: its text and the second of its last change
  cache,   \* entrance.hst, or mtime -1 for no file
  now,     \* the second
  edited   \* users.conf was changed since the last start

vars == <<proc, history, update, lusers, conf, cache, now, edited>>

HistoryTypeOK ==
  /\ proc \in {"up", "stopped", "crashed"}
  /\ history \in Seq(Entry)
  /\ update \in BOOLEAN
  /\ lusers \in Seq([login : Logins, shared : BOOLEAN])
  /\ conf \in [mtime : 0 .. MaxTime, hist : Confs]
  /\ cache \in [mtime : -1 .. MaxTime, hist : Seq(Entry)]
  /\ now \in 0 .. MaxTime
  /\ edited \in BOOLEAN

\* A machine where the daemon was installed and never ran.
HistoryInit ==
  /\ proc = "stopped"
  /\ history = <<>>
  /\ update = FALSE
  /\ lusers = <<>>
  /\ conf \in [mtime : {0}, hist : Confs]
  /\ cache = [mtime |-> -1, hist |-> <<>>]
  /\ now = 0
  /\ edited = TRUE

-----------------------------------------------------------------------------

\* The session of a login, as the history has it.
SessionIn(h, u) ==
  IF u \in Known(h) THEN h[CHOOSE i \in DOMAIN h : h[i].login = u].session
                    ELSE NoSession

\* What the greeter is told about the k-th user.
Offered(k) == IF lusers[k].shared THEN SessionIn(history, lusers[k].login) ELSE NoSession

\* entrance_history_init: is users.conf read?
Stale_Missing == cache.mtime = -1
Stale == cache.mtime = -1 \/ cache.mtime < conf.mtime

\* _entrance_user_init over /etc/passwd, with _entrance_history_match.
Users_OwnRecords(h) == [k \in DOMAIN Passwd |-> [login |-> Passwd[k], shared |-> FALSE]]
Users(h) == [k \in DOMAIN Passwd |-> [login |-> Passwd[k], shared |-> Passwd[k] \in Known(h)]]

\* _entrance_users_conf_get: the text is compiled into the cache.
Compiled == [mtime |-> now, hist |-> conf.hist]

\* entrance_history_init: _entrance_users_conf_get, _entrance_history_read,
\* _entrance_user_init.
Start ==
  /\ proc # "up"
  /\ proc' = "up"
  /\ cache' = IF Stale THEN Compiled ELSE cache
  /\ history' = cache'.hist
  /\ lusers' = Users(history')
  /\ update' = FALSE
  /\ edited' = FALSE
  /\ UNCHANGED <<conf, now>>

-----------------------------------------------------------------------------

\* entrance_history_check for a login that has an entry: the session is
\* forgotten if the login names none, and replaced if there was one.
Refresh(e, s) ==
  IF ~e.remember \/ (s # NoSession /\ e.session = NoSession) THEN e
  ELSE [e EXCEPT !.session = s]

\* ... which asks for the file to be written only if a session was replaced.
MarksUpdate(e, s) == e.remember /\ s # NoSession /\ e.session \notin {s, NoSession}

\* ... and for a login that has none.
Added(u, s) == [login |-> u, session |-> s, remember |-> TRUE]

IsNew_ByRecord(h, u) == \A k \in DOMAIN lusers : lusers[k].login = u => ~lusers[k].shared
IsNew(h, u) == u \notin Known(h)

\* entrance_session_login of an authenticated user calls entrance_history_check.
Login(u, s) ==
  /\ proc = "up"
  /\ IF IsNew(history, u)
     THEN /\ history' = Append(history, Added(u, s))
          /\ update' = TRUE
     ELSE \E i \in DOMAIN history :
            /\ history[i].login = u
            /\ \A j \in 1 .. i - 1 : history[j].login # u
            /\ history' = [history EXCEPT ![i] = Refresh(@, s)]
            /\ update' = (update \/ MarksUpdate(history[i], s))
  /\ UNCHANGED <<proc, lusers, conf, cache, now, edited>>

\* entrance_history_shutdown.
Stop ==
  /\ proc = "up"
  /\ proc' = "stopped"
  /\ cache' = IF update THEN [mtime |-> now, hist |-> history] ELSE cache
  /\ lusers' = <<>>
  /\ UNCHANGED <<history, update, conf, now, edited>>

\* A crash, a kill or a power cut: nothing is written.
Crash ==
  /\ proc = "up"
  /\ proc' = "crashed"
  /\ lusers' = <<>>
  /\ UNCHANGED <<history, update, conf, cache, now, edited>>

-----------------------------------------------------------------------------
(* The machine. An edit does not fall in the second of the last write of   *)
(* the cache: stamps of one second could not tell which came first.        *)

EditConf(h) ==
  /\ Careful => proc # "up"
  /\ cache.mtime < now
  /\ conf' = [mtime |-> now, hist |-> h]
  /\ edited' = TRUE
  /\ UNCHANGED <<proc, history, update, lusers, cache, now>>

Tick ==
  /\ now < MaxTime
  /\ now' = now + 1
  /\ UNCHANGED <<proc, history, update, lusers, conf, cache, edited>>

-----------------------------------------------------------------------------

HistoryNext ==
  \/ Start \/ Stop \/ Crash \/ Tick
  \/ \E u \in Logins, s \in LoginSessions : Login(u, s)
  \/ \E h \in Confs : EditConf(h)

HistorySpec == HistoryInit /\ [][HistoryNext]_vars

-----------------------------------------------------------------------------

\* A login has one entry, in memory and in the file: strcmp finds the entry of
\* a user who was added during this run, though no list of users shows it.
UniqueLogins == Unique(history) /\ Unique(cache.hist)

\* What makes UniqueLogins inductive: the types.
HistoryInv == HistoryTypeOK /\ UniqueLogins

\* Where nothing waits to be written, memory and file agree.
Kept == proc # "crashed" /\ ~(proc = "up" /\ update) => history = cache.hist

\* A daemon that stopped cleanly and is started again offers every user the
\* session that it knew when it stopped, unless users.conf is newer.
RestartOffersLast ==
  [][proc = "stopped" /\ Start /\ ~Stale
       => \A k \in DOMAIN Passwd : Offered(k)' = SessionIn(history, Passwd[k])]_vars

\* A start after users.conf was changed uses it, "User settings control via
\* users.conf" (README.md).
EditsImported ==
  [][Start /\ edited => history' = conf.hist]_vars
=============================================================================
