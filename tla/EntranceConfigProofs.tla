------------------------ MODULE EntranceConfigProofs -------------------------
(***************************************************************************)
(* The lock file keeps the daemon alone, and what an instance is           *)
(* configured with, for any pids and texts, if the init system starts one  *)
(* instance at a time. The lock file goes on under the configuration as in *)
(* EntranceLockFile, so what is proved of it alone holds of both.          *)
(***************************************************************************)
EXTENDS EntranceConfig, TLAPS

-----------------------------------------------------------------------------
(* The lock file alone.                                                    *)

\* The inductive invariant: the daemon that runs is the one the file names, and
\* an instance past the check of the lock runs beside no daemon.
THEOREM LockInvariance ==
  ASSUME Serial
  PROVE  LockSpec => []LockInv
<1> USE LockAssumption
<1>1. LockInit => LockInv
  BY DEF LockInit, LockInv, LockTypeOK, NamedDaemon, Starting
<1>2. LockInv /\ [LockNext]_vars => LockInv'
  <2> SUFFICES ASSUME LockInv, [LockNext]_vars
               PROVE  LockInv'
    OBVIOUS
  <2> USE DEF LockInv, LockTypeOK, NamedDaemon, Starting, Goes
  <2>1. ASSUME NEW p \in Pids, Exec(p)
        PROVE  LockInv'
    BY <2>1 DEF Exec
  <2>2. ASSUME NEW p \in Pids, ReadLock(p)
        PROVE  LockInv'
    <3>1. CASE file = p
      BY <2>2, <3>1 DEF ReadLock
    <3>2. CASE file = NoFile
      BY <2>2, <3>2 DEF ReadLock
    <3>3. CASE file # p /\ file # NoFile
      BY <2>2, <3>3 DEF ReadLock
    <3> QED
      BY <3>1, <3>2, <3>3
  <2>3. ASSUME NEW p \in Pids, Refuse(p)
        PROVE  LockInv'
    BY <2>3 DEF Refuse
  <2>4. ASSUME NEW p \in Pids, Recycle(p)
        PROVE  LockInv'
    <3>1. \A q \in Pids : proc[q] # "run"
      BY <2>4 DEF Recycle, IsEntrance
    <3> QED
      BY <2>4, <3>1 DEF Recycle
  <2>5. ASSUME NEW p \in Pids, Truncate(p)
        PROVE  LockInv'
    BY <2>5 DEF Truncate, Open
  <2>6. ASSUME NEW p \in Pids, CannotCreate(p)
        PROVE  LockInv'
    BY <2>6 DEF CannotCreate, Open
  <2>7. ASSUME NEW p \in Pids, WriteLock(p)
        PROVE  LockInv'
    BY <2>7 DEF WriteLock, Written
  <2>8. ASSUME NEW p \in Pids, RemoveLock(p)
        PROVE  LockInv'
    BY <2>8 DEF RemoveLock
  <2>9. ASSUME NEW p \in Pids, Abort(p)
        PROVE  LockInv'
    BY <2>9 DEF Abort
  <2>10. ASSUME NEW p \in Pids, OtherProgram(p)
         PROVE  LockInv'
    BY <2>10 DEF OtherProgram
  <2>11. CASE UNCHANGED vars
    BY <2>11 DEF vars
  <2> QED
    BY <2>1, <2>2, <2>3, <2>4, <2>5, <2>6, <2>7, <2>8, <2>9, <2>10, <2>11 DEF LockNext
<1> QED
  BY <1>1, <1>2, PTL DEF LockSpec

\* There is at most one daemon: each that runs is the one the file names.
THEOREM AtMostOneDaemon ==
  ASSUME Serial
  PROVE  LockSpec => []OneDaemon
<1>1. LockInv => OneDaemon
  BY DEF LockInv, NamedDaemon, OneDaemon
<1> QED
  BY <1>1, LockInvariance, PTL

\* An instance that finds the lock taken over by a process of the daemon's
\* program gives up only beside a running daemon, never beside one that starts.
THEOREM RefusedOnlyByDaemon ==
  ASSUME Serial
  PROVE  LockSpec => RefusedByDaemon
<1> USE LockAssumption
<1> DEFINE R == \A p \in Pids : Refuse(p) => \E q \in Pids : q # p /\ proc[q] = "run"
<1>1. ASSUME LockInv
      PROVE  R
  <2> SUFFICES ASSUME NEW p \in Pids, Refuse(p)
               PROVE  \E q \in Pids : q # p /\ proc[q] = "run"
    OBVIOUS
  <2>1. proc[p] = "check" /\ read[p] \in Pids /\ proc[read[p]] \in Starting \cup {"run"}
    BY DEF Refuse, IsEntrance
  <2>2. read[p] # p
    BY <1>1, <2>1 DEF LockInv
  <2> QED
    BY <1>1, <2>1, <2>2 DEF LockInv, Starting
<1>2. LockSpec => [][R]_vars
  BY <1>1, LockInvariance, PTL DEF LockSpec
<1> QED
  BY <1>2 DEF RefusedByDaemon

-----------------------------------------------------------------------------
(* The start as a whole.                                                   *)

\* Every step of the start as a whole is one of the lock file, or leaves it.
LEMMA LockGoesOn == [ConfigNext]_allVars => [LockNext]_vars
<1> SUFFICES ASSUME [ConfigNext]_allVars
             PROVE  [LockNext]_vars
  OBVIOUS
<1>1. ASSUME NEW p \in Pids, LockStep(p)
      PROVE  LockNext
  BY <1>1 DEF LockStep, AbortStart, LockNext
<1>2. ASSUME NEW p \in Pids,
             Stat(p) \/ ConfGetFails(p) \/ ConfGet(p) \/ ConfWritten(p) \/ CacheGet(p)
      PROVE  UNCHANGED vars
  BY <1>2 DEF Stat, ConfGetFails, ConfGet, ConfWritten, CacheGet
<1>3. CASE \/ \E t \in Texts \cup {Broken, NoText}, later \in BOOLEAN : Edit(t, later)
           \/ RemoveCache
  BY <1>3 DEF Edit, RemoveCache
<1>4. CASE UNCHANGED allVars
  BY <1>4 DEF allVars
<1> QED
  BY <1>1, <1>2, <1>3, <1>4 DEF ConfigNext

\* The start with its configuration implements the lock file's specification:
\* there is one daemon whatever is edited when, as the texts name one file.
THEOREM ImplementsLock == ConfigSpec => LockSpec
<1>1. ConfigInit => LockInit
  BY DEF ConfigInit
<1> QED
  BY <1>1, LockGoesOn, PTL DEF ConfigSpec, LockSpec

\* What ConfigInv adds to the lock's invariant.
CacheInv == ConfigTypeOK /\ Cached /\ Phases

\* The invariant of a start is the lock's and what it adds.
LEMMA ConfigInvParts == ConfigInv <=> LockInv /\ CacheInv
  BY DEF ConfigInv, CacheInv

\* The inductive invariant: the cache is the last good text, and the one in
\* place unless the stamps tell otherwise, for any pids and texts.
THEOREM ConfigInvariance ==
  ASSUME Serial
  PROVE  ConfigSpec => []ConfigInv
<1> USE ConfigAssumption, LockAssumption
<1>1. ConfigInit => CacheInv
  BY DEF ConfigInit, LockInit, CacheInv, ConfigTypeOK, Cached, Phases, Starting
<1>2. LockInv /\ CacheInv /\ [ConfigNext]_allVars => CacheInv'
  <2> SUFFICES ASSUME LockInv, CacheInv, [ConfigNext]_allVars
               PROVE  CacheInv'
    OBVIOUS
  <2> USE DEF CacheInv, ConfigTypeOK, Cached, Phases, Starting, vars
  <2>0. proc \in [Pids -> Starting \cup {"run", "none", "other"}]
    BY DEF LockInv, LockTypeOK
  <2>1. ASSUME NEW p \in Pids, Stat(p)
        PROVE  CacheInv'
    <3>1. \A q \in Pids : q # p => step[q] = "done"
      BY <2>0, <2>1 DEF Stat, At, LockInv
    <3>2. ConfigTypeOK' /\ Cached'
      BY <2>0, <2>1 DEF Stat, At, GoesOn
    <3>3. Phases'
      BY <2>0, <2>1, <3>1 DEF Stat, At, GoesOn, Compiles
    <3> QED
      BY <3>2, <3>3
  <2>2. ASSUME NEW p \in Pids, ConfGetFails(p)
        PROVE  CacheInv'
    BY <2>0, <2>2 DEF ConfGetFails, At, GoesOn, Untouched
  <2>3. ASSUME NEW p \in Pids, ConfGet(p)
        PROVE  CacheInv'
    BY <2>0, <2>3 DEF ConfGet, At, GoesOn, Has
  <2>4. ASSUME NEW p \in Pids, ConfWritten(p)
        PROVE  CacheInv'
    <3>1. \A q \in Pids : q # p => step[q] = "done"
      BY <2>0, <2>4 DEF ConfWritten, At, LockInv
    <3>2. ConfigTypeOK' /\ Cached'
      BY <2>0, <2>4 DEF ConfWritten, At, GoesOn, Has
    <3>3. Phases'
      BY <2>0, <2>4, <3>1 DEF ConfWritten, At, GoesOn, Has
    <3> QED
      BY <3>2, <3>3
  <2>5. ASSUME NEW p \in Pids, CacheGet(p)
        PROVE  CacheInv'
    BY <2>0, <2>5 DEF CacheGet, At, GoesOn, Has
  <2>6. ASSUME NEW p \in Pids, LockStep(p)
        PROVE  CacheInv'
    <3> USE DEF Goes, GoesOn, Has, Ends, configVars
    <3>1. CASE /\ Exec(p) /\ GoesOn(p, "stat")
               /\ UNCHANGED <<conf, cache, newer, cfg, good, edited, missed>>
      BY <2>0, <3>1 DEF Exec
    <3>2. CASE /\ step[p] = "done"
               /\ ReadLock(p) \/ Recycle(p) \/ Truncate(p) \/ WriteLock(p) \/ OtherProgram(p)
               /\ UNCHANGED configVars
      BY <2>0, <3>2 DEF ReadLock, Recycle, Truncate, Open, WriteLock, OtherProgram
    <3>3. CASE /\ Refuse(p) \/ CannotCreate(p) \/ RemoveLock(p)
               /\ Ends(p) /\ UNCHANGED <<conf, cache, newer, good, edited, missed>>
      BY <2>0, <3>3 DEF Refuse, CannotCreate, Open, RemoveLock
    <3>4. CASE AbortStart(p)
      <4>1. proc' = [proc EXCEPT ![p] = "none"] /\ proc[p] \in Starting \cup {"run"}
        BY <3>4 DEF AbortStart, Abort
      <4>2. CASE At(p, "write")
        <5>1. \A q \in Pids : q # p => step[q] = "done"
          BY <2>0, <4>2 DEF At, LockInv
        <5>2. ConfigTypeOK' /\ Cached'
          BY <3>4, <4>2 DEF AbortStart
        <5>3. Phases'
          BY <2>0, <3>4, <4>1, <5>1 DEF AbortStart
        <5> QED
          BY <5>2, <5>3
      <4>3. CASE ~At(p, "write")
        BY <2>0, <3>4, <4>1, <4>3 DEF AbortStart
      <4> QED
        BY <4>2, <4>3
    <3> QED
      BY <2>6, <3>1, <3>2, <3>3, <3>4 DEF LockStep
  <2>7. ASSUME NEW t \in Texts \cup {Broken, NoText}, NEW later \in BOOLEAN, Edit(t, later)
        PROVE  CacheInv'
    BY <2>0, <2>7 DEF Edit
  <2>8. CASE RemoveCache
    BY <2>0, <2>8 DEF RemoveCache
  <2>9. CASE UNCHANGED allVars
    BY <2>9 DEF allVars, configVars
  <2> QED
    BY <2>1, <2>2, <2>3, <2>4, <2>5, <2>6, <2>7, <2>8, <2>9 DEF ConfigNext
<1>3. ConfigSpec => []LockInv
  BY ImplementsLock, LockInvariance, PTL
<1>4. ConfigSpec => []CacheInv
  BY <1>1, <1>2, <1>3, PTL DEF ConfigSpec
<1> QED
  BY <1>3, <1>4, ConfigInvParts, PTL

\* An instance uses the text in place, or the last good one: what it reads from
\* the cache is what the invariant says of an instance that is about to read.
THEOREM Configured ==
  ASSUME Serial
  PROVE  ConfigSpec => StartsAsConfigured
<1> USE ConfigAssumption
<1> DEFINE C == \A p \in Pids :
                  CacheGet(p) /\ ~missed
                    => IF conf \in Texts THEN cfg'[p] = conf \/ edited ELSE cfg'[p] = good
<1>1. ASSUME ConfigInv
      PROVE  C
  <2> SUFFICES ASSUME NEW p \in Pids, CacheGet(p), ~missed
               PROVE  IF conf \in Texts THEN cfg'[p] = conf \/ edited ELSE cfg'[p] = good
    OBVIOUS
  <2>1. cfg'[p] = IF cache \in Texts THEN cache ELSE Defaults
    BY <1>1 DEF CacheGet, Has, ConfigInv, ConfigTypeOK
  <2>2. good = IF cache \in Texts THEN cache ELSE Defaults
    BY <1>1 DEF ConfigInv, Cached
  <2>3. conf \in Texts => cache = conf \/ edited
    BY <1>1 DEF CacheGet, At, ConfigInv, Phases
  <2> QED
    BY <2>1, <2>2, <2>3
<1>2. ConfigSpec => [][C]_allVars
  BY <1>1, ConfigInvariance, PTL DEF ConfigSpec
<1> QED
  BY <1>2 DEF StartsAsConfigured
=============================================================================
