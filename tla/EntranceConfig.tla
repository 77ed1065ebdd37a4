--------------------------- MODULE EntranceConfig ---------------------------
(***************************************************************************)
(* The start of an instance as a whole: entrance_config_init, which every  *)
(* instance runs before it looks at the lock file, then the lock. The text *)
(* of the configuration is compiled into a cache when its time stamp is    *)
(* later than the cache's, and only the cache is read. A file may change,  *)
(* or the instance die, between any two of these steps. All texts name one *)
(* lock file.                                                              *)
(***************************************************************************)
EXTENDS EntranceLockFile

CONSTANTS
  Texts,    \* texts that can be compiled
  Broken,   \* a text that cannot
  NoText,   \* there is no entrance.conf
  Missing,  \* there is no cache
  Damaged,  \* a cache that cannot be read
  Defaults, \* _defaults_set
  NoConfig  \* what an instance has before it loads one

ASSUME ConfigAssumption ==
  /\ Texts \cap {Broken, NoText, Missing, Damaged, Defaults, NoConfig} = {}
  /\ Broken # NoText /\ Missing # Damaged /\ Defaults # NoConfig

VARIABLES
  conf,  \* entrance.conf
  cache, \* the compiled configuration
  newer, \* entrance.conf has a later time stamp than the cache, in whole seconds
  step,  \* where an instance is in entrance_config_init
  cfg,   \* the configuration of an instance; while it compiles, the text it read
  good,  \* the last text that was compiled, if the cache was not removed since
  edited, \* entrance.conf was edited since the instance looked at the stamps
  missed \* the time stamps hide that the cache is not made of the text

configVars == <<conf, cache, newer, step, cfg, good, edited, missed>>
allVars == <<vars, configVars>>

ConfigTypeOK ==
  /\ conf \in Texts \cup {Broken, NoText}
  /\ cache \in Texts \cup {Missing, Damaged}
  /\ {newer, edited, missed} \subseteq BOOLEAN
  /\ step \in [Pids -> {"stat", "conf", "write", "load", "done"}]
  /\ cfg \in [Pids -> Texts \cup {Defaults, NoConfig}]
  /\ good \in Texts \cup {Defaults}

\* The first start after the installation.
ConfigInit ==
  /\ LockInit
  /\ conf \in Texts \cup {Broken, NoText}
  /\ cache = Missing
  /\ newer = TRUE /\ edited = FALSE /\ missed = FALSE
  /\ step = [p \in Pids |-> "done"]
  /\ cfg = [p \in Pids |-> NoConfig]
  /\ good = Defaults

-----------------------------------------------------------------------------
(* entrance_config_init.                                                   *)

At(p, s) == proc[p] = "enter" /\ step[p] = s
GoesOn(p, s) == step' = [step EXCEPT ![p] = s]
Has(p, c) == cfg' = [cfg EXCEPT ![p] = c]

Compiles_IfNewer == cache # Missing /\ newer /\ conf # NoText
Compiles == cache = Missing \/ (newer /\ conf # NoText)

Stat(p) ==
  /\ At(p, "stat")
  /\ GoesOn(p, IF Compiles THEN "conf" ELSE "load")
  /\ edited' = FALSE
  /\ UNCHANGED <<vars, conf, cache, newer, cfg, good, missed>>

\* What eet_open and eet_close leave of the cache when there is nothing to put
\* into it: what was there, or, in place of no file or of one that cannot be
\* read, either of them.
Untouched_Emptied == {Missing}
Untouched == IF cache \in Texts THEN {cache} ELSE {Missing, Damaged}

\* _conf_get without a text that can be compiled ...
ConfGetFails(p) ==
  /\ At(p, "conf") /\ conf \notin Texts
  /\ cache' \in Untouched
  /\ newer' \in IF cache \in Texts THEN {newer} ELSE BOOLEAN
  /\ GoesOn(p, "load")
  /\ UNCHANGED <<vars, conf, cfg, good, edited, missed>>

\* ... and with one: it is read, and eet_close writes the cache.
ConfGet(p) ==
  /\ At(p, "conf") /\ conf \in Texts
  /\ Has(p, conf)
  /\ GoesOn(p, "write")
  /\ UNCHANGED <<vars, conf, cache, newer, good, edited, missed>>

ConfWritten(p) ==
  /\ At(p, "write")
  /\ cache' = cfg[p] /\ good' = cfg[p]
  /\ newer' = FALSE
  /\ missed' = (conf # cfg[p])
  /\ Has(p, NoConfig)
  /\ GoesOn(p, "load")
  /\ UNCHANGED <<vars, conf, edited>>

\* _cache_get, and main's own defaults when it returns nothing.
CacheGet(p) ==
  /\ At(p, "load")
  /\ Has(p, IF cache \in Texts THEN cache ELSE Defaults)
  /\ GoesOn(p, "done")
  /\ UNCHANGED <<vars, conf, cache, newer, good, edited, missed>>

-----------------------------------------------------------------------------
(* The rest of the instance, and the files.                                *)

Ends(p) == Has(p, NoConfig) /\ GoesOn(p, "done")

\* A crash while the cache is written leaves the old one, none, or a part of
\* the new one with its time stamp.
AbortStart(p) ==
  /\ Abort(p) /\ Ends(p)
  /\ IF At(p, "write")
     THEN \/ UNCHANGED <<cache, newer, good, missed>>
          \/ cache' = Missing /\ good' = Defaults /\ UNCHANGED <<newer, missed>>
          \/ cache' = Damaged /\ good' = Defaults /\ newer' = FALSE /\ missed' = TRUE
     ELSE UNCHANGED <<cache, newer, good, missed>>
  /\ UNCHANGED <<conf, edited>>

LockStep(p) ==
  \/ /\ Exec(p) /\ GoesOn(p, "stat")
     /\ UNCHANGED <<conf, cache, newer, cfg, good, edited, missed>>
  \/ /\ step[p] = "done"
     /\ ReadLock(p) \/ Recycle(p) \/ Truncate(p) \/ WriteLock(p) \/ OtherProgram(p)
     /\ UNCHANGED configVars
  \/ /\ Refuse(p) \/ CannotCreate(p) \/ RemoveLock(p)
     /\ Ends(p) /\ UNCHANGED <<conf, cache, newer, good, edited, missed>>
  \/ AbortStart(p)

\* The administrator edits, breaks, removes or restores entrance.conf. The new
\* file's time stamp may not be later than the cache's: a copy that keeps its
\* time, or an edit in the second in which the cache was written.
Edit(t, later) ==
  /\ t # conf
  /\ conf' = t
  /\ newer' = later
  /\ edited' = (\E p \in Pids : step[p] # "done")
  /\ missed' = ~later
  /\ UNCHANGED <<vars, cache, step, cfg, good>>

\* Nobody removes the cache under an instance that is starting.
RemoveCache ==
  /\ cache # Missing /\ \A p \in Pids : step[p] = "done"
  /\ cache' = Missing /\ good' = Defaults
  /\ UNCHANGED <<vars, conf, newer, step, cfg, edited, missed>>

-----------------------------------------------------------------------------

ConfigNext ==
  \/ \E p \in Pids :
       \/ Stat(p) \/ ConfGetFails(p) \/ ConfGet(p) \/ ConfWritten(p) \/ CacheGet(p)
       \/ LockStep(p)
  \/ \E t \in Texts \cup {Broken, NoText}, later \in BOOLEAN : Edit(t, later)
  \/ RemoveCache

ConfigSpec == ConfigInit /\ [][ConfigNext]_allVars

-----------------------------------------------------------------------------

\* An instance that has looked at the configuration uses the text that is in
\* place; if that cannot be compiled, the last one that was; and the built-in
\* defaults only if there is none. Excepted are a text edited since the
\* instance looked, and what the time stamps hide.
StartsAsConfigured ==
  [][\A p \in Pids :
       CacheGet(p) /\ ~missed
         => IF conf \in Texts THEN cfg'[p] = conf \/ edited ELSE cfg'[p] = good]_allVars

\* The cache is the last text compiled, and it is the text in place unless the
\* time stamps say that it has to be compiled, or hide it.
Cached ==
  /\ good = IF cache \in Texts THEN cache ELSE Defaults
  /\ conf \in Texts /\ cache \notin {conf, Missing} => newer \/ missed

\* An instance that goes on to read the cache finds the text in place there,
\* unless it was edited since the stamps were looked at; and none comes to the
\* lock without a configuration.
Phases ==
  \A p \in Pids :
    /\ step[p] # "done" => proc[p] = "enter"
    /\ step[p] = "write" => cfg[p] \in Texts
    /\ step[p] = "load" /\ conf \in Texts => cache = conf \/ edited \/ missed
    /\ step[p] = "done" /\ proc[p] \in Starting \cup {"run"} => cfg[p] # NoConfig

\* What keeps StartsAsConfigured, together with the invariant of the lock: from
\* entrance_config_init on, whatever is edited, removed or killed between its
\* steps, the cache and what each instance has of it fit the text.
ConfigInv == LockInv /\ ConfigTypeOK /\ Cached /\ Phases
=============================================================================
