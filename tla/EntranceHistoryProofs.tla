----------------------- MODULE EntranceHistoryProofs ------------------------
(***************************************************************************)
(* The invariant of EntranceHistory, for any logins, sessions and texts of *)
(* users.conf in which a login has at most one entry.                      *)
(***************************************************************************)
EXTENDS EntranceHistory, TLAPS

\* entrance_history_check keeps the history a sequence of entries with one
\* entry per login, and so does appending an entry for a login that has none.
LEMMA AppendUnique ==
  ASSUME NEW h \in Seq(Entry), Unique(h), NEW e \in Entry, e.login \notin Known(h)
  PROVE  Append(h, e) \in Seq(Entry) /\ Unique(Append(h, e))
<1>1. Append(h, e) \in Seq(Entry)
  OBVIOUS
<1>2. Unique(Append(h, e))
  <2>1. SUFFICES ASSUME NEW i \in DOMAIN Append(h, e), NEW j \in DOMAIN Append(h, e),
                        Append(h, e)[i].login = Append(h, e)[j].login
                 PROVE  i = j
    BY DEF Unique
  <2>2. DOMAIN Append(h, e) = 1 .. Len(h) + 1 /\ DOMAIN h = 1 .. Len(h) /\ Len(h) \in Nat
    OBVIOUS
  <2>3. \A k \in DOMAIN h : Append(h, e)[k] = h[k] /\ h[k].login # e.login
    BY <2>2 DEF Known
  <2>4. Append(h, e)[Len(h) + 1] = e
    OBVIOUS
  <2>5. CASE i \in DOMAIN h /\ j \in DOMAIN h
    BY <2>1, <2>3, <2>5 DEF Unique
  <2>6. CASE i \notin DOMAIN h \/ j \notin DOMAIN h
    BY <2>1, <2>2, <2>3, <2>4, <2>6
  <2> QED
    BY <2>5, <2>6
<1> QED
  BY <1>1, <1>2

\* Giving an entry its session adds no second entry of a login.
LEMMA RefreshUnique ==
  ASSUME NEW h \in Seq(Entry), Unique(h), NEW i \in DOMAIN h,
         NEW s \in Sessions \cup {NoSession}
  PROVE  LET g == [h EXCEPT ![i] = Refresh(@, s)]
         IN g \in Seq(Entry) /\ Unique(g)
<1> DEFINE g == [h EXCEPT ![i] = Refresh(@, s)]
<1>1. h[i] \in Entry
  OBVIOUS
<1>2. Refresh(h[i], s) \in Entry /\ Refresh(h[i], s).login = h[i].login
  BY <1>1 DEF Refresh, Entry
<1>3. g \in Seq(Entry)
  BY <1>2
<1>4. DOMAIN g = DOMAIN h /\ \A k \in DOMAIN h : g[k].login = h[k].login
  BY <1>2
<1>5. Unique(g)
  BY <1>4 DEF Unique
<1> QED
  BY <1>3, <1>5

\* A login has one entry, in memory and in the file, and every variable has
\* its type, in every reachable state.
THEOREM HistoryInvariance == HistorySpec => []HistoryInv
<1> USE HistoryAssumption
<1>1. HistoryInit => HistoryInv
  <2> SUFFICES ASSUME HistoryInit
               PROVE  HistoryInv
    OBVIOUS
  <2>1. <<>> \in Seq(Entry) /\ Unique(<<>>) /\ <<>> \in Seq([login : Logins, shared : BOOLEAN])
    BY DEF Unique
  <2>2. conf \in [mtime : 0 .. MaxTime, hist : Confs] /\ now \in 0 .. MaxTime
    BY DEF HistoryInit
  <2>3. cache \in [mtime : -1 .. MaxTime, hist : Seq(Entry)]
    BY <2>1 DEF HistoryInit
  <2>4. cache.hist = <<>>
    BY DEF HistoryInit
  <2> QED
    BY <2>1, <2>2, <2>3, <2>4 DEF HistoryInit, HistoryInv, HistoryTypeOK, UniqueLogins
<1>2. HistoryInv /\ [HistoryNext]_vars => HistoryInv'
  <2> SUFFICES ASSUME HistoryInv, [HistoryNext]_vars
               PROVE  HistoryInv'
    OBVIOUS
  <2> USE DEF HistoryInv
  <2>1. CASE Start
    <3>1. conf.hist \in Seq(Entry) /\ Unique(conf.hist)
      BY DEF HistoryTypeOK
    <3>2. cache' \in [mtime : -1 .. MaxTime, hist : Seq(Entry)] /\ Unique(cache'.hist)
      BY <2>1, <3>1 DEF Start, Compiled, HistoryTypeOK, UniqueLogins
    <3>3. lusers' \in Seq([login : Logins, shared : BOOLEAN])
      <4> DEFINE U == [login : Logins, shared : BOOLEAN]
                 g == [k \in DOMAIN Passwd |->
                         [login |-> Passwd[k], shared |-> Passwd[k] \in Known(history')]]
      <4>1. DOMAIN Passwd = 1 .. Len(Passwd) /\ Len(Passwd) \in Nat
        OBVIOUS
      <4>2. \A k \in DOMAIN Passwd : Passwd[k] \in Logins
        OBVIOUS
      <4>3. g \in [1 .. Len(Passwd) -> U]
        BY <4>1, <4>2
      <4>4. g \in Seq(U)
        BY <4>1, <4>3
      <4> QED
        BY <2>1, <4>4 DEF Start, Users
    <3> QED
      BY <2>1, <3>2, <3>3 DEF Start, Compiled, HistoryTypeOK, UniqueLogins
  <2>2. ASSUME NEW u \in Logins, NEW s \in LoginSessions, Login(u, s)
        PROVE  HistoryInv'
    <3>1. history' \in Seq(Entry) /\ Unique(history')
      <4>1. CASE IsNew(history, u)
        <5>1. Added(u, s) \in Entry /\ Added(u, s).login = u
          BY DEF Added, Entry
        <5> QED
          BY <2>2, <4>1, <5>1, AppendUnique DEF Login, IsNew, HistoryTypeOK, UniqueLogins
      <4>2. CASE ~IsNew(history, u)
        <5>1. PICK i \in DOMAIN history : history' = [history EXCEPT ![i] = Refresh(@, s)]
          BY <2>2, <4>2 DEF Login
        <5> QED
          BY <5>1, RefreshUnique DEF HistoryTypeOK, UniqueLogins
      <4> QED
        BY <4>1, <4>2
    <3>2. update' \in BOOLEAN
      BY <2>2 DEF Login, HistoryTypeOK, MarksUpdate
    <3> QED
      BY <2>2, <3>1, <3>2 DEF Login, HistoryTypeOK, UniqueLogins
  <2>3. CASE Stop
    BY <2>3 DEF Stop, HistoryTypeOK, UniqueLogins
  <2>4. CASE Crash
    BY <2>4 DEF Crash, HistoryTypeOK, UniqueLogins
  <2>5. CASE Tick
    BY <2>5 DEF Tick, HistoryTypeOK, UniqueLogins
  <2>6. ASSUME NEW h \in Confs, EditConf(h)
        PROVE  HistoryInv'
    BY <2>6 DEF EditConf, HistoryTypeOK, UniqueLogins
  <2>7. CASE UNCHANGED vars
    BY <2>7 DEF vars, HistoryTypeOK, UniqueLogins
  <2> QED
    BY <2>1, <2>2, <2>3, <2>4, <2>5, <2>6, <2>7 DEF HistoryNext
<1> QED
  BY <1>1, <1>2, PTL DEF HistorySpec

\* If every login names a session, as the form of the greeter sees to, then
\* what memory and file differ in is marked for writing, and so a clean restart
\* offers every user the session known at the stop.
THEOREM RestartOffers ==
  ASSUME NoSession \notin LoginSessions
  PROVE  HistorySpec => RestartOffersLast
<1> USE HistoryAssumption
<1> DEFINE Offers == proc = "stopped" /\ Start /\ ~Stale
                       => \A k \in DOMAIN Passwd : Offered(k)' = SessionIn(history, Passwd[k])
<1>1. HistoryInit => Kept
  BY DEF HistoryInit, Kept
<1>2. HistoryInv /\ Kept /\ [HistoryNext]_vars => Kept'
  <2> SUFFICES ASSUME HistoryInv, Kept, [HistoryNext]_vars
               PROVE  Kept'
    OBVIOUS
  <2>1. ASSUME NEW u \in Logins, NEW s \in LoginSessions, Login(u, s)
        PROVE  Kept'
    <3>1. CASE IsNew(history, u)
      BY <2>1, <3>1 DEF Login, Kept
    <3>2. CASE ~IsNew(history, u)
      <4>1. PICK i \in DOMAIN history :
              /\ history' = [history EXCEPT ![i] = Refresh(@, s)]
              /\ update' = (update \/ MarksUpdate(history[i], s))
        BY <2>1, <3>2 DEF Login
      <4>2. history[i] \in Entry /\ history \in Seq(Entry)
        BY DEF HistoryInv, HistoryTypeOK
      <4>3. ASSUME ~MarksUpdate(history[i], s)
            PROVE  Refresh(history[i], s) = history[i]
        <5>1. s # NoSession
          OBVIOUS
        <5>2. CASE ~history[i].remember \/ history[i].session = NoSession
          BY <5>1, <5>2 DEF Refresh
        <5>3. CASE history[i].remember /\ history[i].session = s
          BY <4>2, <5>3 DEF Refresh, Entry
        <5> QED
          BY <4>2, <4>3, <5>1, <5>2, <5>3 DEF MarksUpdate, Entry
      <4>4. CASE MarksUpdate(history[i], s)
        BY <2>1, <4>1, <4>4 DEF Login, Kept
      <4>5. CASE ~MarksUpdate(history[i], s)
        <5>1. history' = history
          BY <4>1, <4>2, <4>3, <4>5
        <5>2. proc = "up" /\ proc' = proc /\ cache' = cache
          BY <2>1 DEF Login
        <5>3. ~update' => ~update
          BY <4>1
        <5> QED
          BY <5>1, <5>2, <5>3 DEF Kept
      <4> QED
        BY <4>4, <4>5
    <3> QED
      BY <3>1, <3>2
  <2>2. CASE Start
    BY <2>2 DEF Start, Compiled, Kept
  <2>3. CASE Stop
    BY <2>3 DEF Stop, Kept
  <2>4. CASE Crash
    BY <2>4 DEF Crash, Kept
  <2>5. CASE Tick
    BY <2>5 DEF Tick, Kept
  <2>6. ASSUME NEW h \in Confs, EditConf(h)
        PROVE  Kept'
    BY <2>6 DEF EditConf, Kept
  <2>7. CASE UNCHANGED vars
    BY <2>7 DEF vars, Kept
  <2> QED
    BY <2>1, <2>2, <2>3, <2>4, <2>5, <2>6, <2>7 DEF HistoryNext
<1>3. Kept => Offers
  <2> SUFFICES ASSUME Kept, proc = "stopped", Start, ~Stale, NEW k \in DOMAIN Passwd
               PROVE  Offered(k)' = SessionIn(history, Passwd[k])
    OBVIOUS
  <2>1. history' = history
    BY DEF Start, Compiled, Kept
  <2>2. lusers' = Users(history)
    BY <2>1 DEF Start, Compiled
  <2>3. lusers'[k] = [login |-> Passwd[k], shared |-> Passwd[k] \in Known(history)]
    BY <2>2 DEF Users
  <2>4. lusers'[k].login = Passwd[k] /\ lusers'[k].shared = (Passwd[k] \in Known(history))
    BY <2>3
  <2>5. Offered(k)' = IF Passwd[k] \in Known(history) THEN SessionIn(history, Passwd[k])
                                                     ELSE NoSession
    BY <2>1, <2>4 DEF Offered
  <2> QED
    BY <2>5 DEF SessionIn
<1>4. HistorySpec => [][Offers]_vars
  BY <1>1, <1>2, <1>3, HistoryInvariance, PTL DEF HistorySpec
<1> QED
  BY <1>4 DEF RestartOffersLast

\* If users.conf is edited only while no daemon runs, the cache of an edited
\* text is always seen to be stale: a write by the daemon would need a start
\* in between, which imports the text (entrance_history_init and _shutdown).
THEOREM EditsAreImported ==
  ASSUME Careful
  PROVE  HistorySpec => EditsImported
<1> DEFINE Imported == Start /\ edited => history' = conf.hist
           Noticed  == edited => proc # "up" /\ Stale
<1>1. HistoryInit => Noticed
  BY DEF HistoryInit, Stale
<1>2. HistoryInv /\ Noticed /\ [HistoryNext]_vars => Noticed'
  <2> SUFFICES ASSUME HistoryInv, Noticed, [HistoryNext]_vars
               PROVE  Noticed'
    OBVIOUS
  <2>1. ASSUME NEW h \in Confs, EditConf(h)
        PROVE  Noticed'
    <3>1. proc' # "up" /\ cache' = cache /\ conf'.mtime = now
      BY <2>1 DEF EditConf
    <3>2. cache.mtime < now
      BY <2>1 DEF EditConf
    <3> QED
      BY <3>1, <3>2 DEF Stale
  <2>2. ASSUME NEW u \in Logins, NEW s \in LoginSessions, Login(u, s)
        PROVE  Noticed'
    BY <2>2 DEF Login
  <2>3. CASE Start \/ Stop \/ Crash \/ Tick
    BY <2>3 DEF Start, Stop, Crash, Tick, Stale
  <2>4. CASE UNCHANGED vars
    BY <2>4 DEF vars, Stale
  <2> QED
    BY <2>1, <2>2, <2>3, <2>4 DEF HistoryNext
<1>3. Noticed => Imported
  BY DEF Start, Compiled
<1>4. HistorySpec => [][Imported]_vars
  BY <1>1, <1>2, <1>3, HistoryInvariance, PTL DEF HistorySpec
<1> QED
  BY <1>4 DEF EditsImported
=============================================================================
