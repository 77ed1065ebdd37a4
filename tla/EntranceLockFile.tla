-------------------------- MODULE EntranceLockFile --------------------------
(***************************************************************************)
(* The lock file of the daemon (src/daemon/entrance.c): an instance that   *)
(* starts looks for the pid of another one in it, and gives up if a        *)
(* process of that pid runs the daemon's program. The lock is a plain file,*)
(* read, checked and written in separate steps; pids are used again.       *)
(***************************************************************************)
EXTENDS FiniteSets

CONSTANTS
  Pids,   \* process ids
  NoFile, \* there is no lock file
  NoPid,  \* the file is empty, which atoi reads as pid 0
  Serial  \* the init system starts an instance only when no other is starting

ASSUME LockAssumption == NoFile \notin Pids /\ NoPid \notin Pids /\ NoFile # NoPid

VARIABLES
  file, \* the lock file: its pid, empty, or none
  proc, \* what the process of a pid is doing
  read  \* the pid an instance read

vars == <<file, proc, read>>

\* Where a starting instance is in _entrance_lock_get.
Starting == {"enter", "check", "create", "write"}

LockTypeOK ==
  /\ file \in Pids \cup {NoFile, NoPid}
  /\ proc \in [Pids -> Starting \cup {"run", "none", "other"}]
  /\ read \in [Pids -> Pids \cup {NoFile, NoPid}]

\* No instance runs; an earlier one may have left its lock file.
LockInit ==
  /\ file \in Pids \cup {NoFile}
  /\ proc \in [Pids -> {"none", "other"}]
  /\ read = [p \in Pids |-> NoFile]

\* /proc/<pid>/cmdline is the daemon's program.
IsEntrance_Exists(p) == p \in Pids /\ proc[p] # "none"
IsEntrance(p) == p \in Pids /\ proc[p] \in Starting \cup {"run"}

-----------------------------------------------------------------------------
(* An instance.                                                            *)

Goes(p, at) == proc' = [proc EXCEPT ![p] = at]

Exec(p) ==
  /\ proc[p] = "none"
  /\ Serial => \A q \in Pids : proc[q] \notin Starting
  /\ Goes(p, "enter")
  /\ UNCHANGED <<file, read>>

\* _entrance_lock_get opens and reads the file. A file with its own pid, left
\* by an instance whose pid it got, is its own.
ReadLock(p) ==
  /\ proc[p] = "enter"
  /\ read' = [read EXCEPT ![p] = file]
  /\ Goes(p, CASE file = p -> "run" [] file = NoFile -> "create" [] OTHER -> "check")
  /\ UNCHANGED file

\* It gives up for another instance ...
Refuse(p) ==
  /\ proc[p] = "check" /\ IsEntrance(read[p])
  /\ Goes(p, "none")
  /\ UNCHANGED <<file, read>>

\* ... or takes the lock over, if the pid is gone or another program.
Recycle(p) ==
  /\ proc[p] = "check" /\ ~IsEntrance(read[p])
  /\ Goes(p, "create")
  /\ UNCHANGED <<file, read>>

\* _entrance_lock_create: fopen(..., "w") empties the file or fails, which ends
\* the instance; fwrite then puts the pid.
Open_NoCheck(p) == proc[p] \in {"enter", "create"}
Open(p) == proc[p] = "create"

Truncate(p) ==
  /\ Open(p)
  /\ file' = NoPid
  /\ Goes(p, "write")
  /\ UNCHANGED read

CannotCreate(p) ==
  /\ Open(p)
  /\ Goes(p, "none")
  /\ UNCHANGED <<file, read>>

Written(p) == p

WriteLock(p) ==
  /\ proc[p] = "write"
  /\ file' = Written(p)
  /\ Goes(p, "run")
  /\ UNCHANGED read

\* _entrance_lock_remove at the end of main.
RemoveLock(p) ==
  /\ proc[p] = "run"
  /\ file' = NoFile
  /\ Goes(p, "none")
  /\ UNCHANGED read

\* A crash, or main's exit(1) when the log cannot be opened: the file stays.
Abort(p) ==
  /\ proc[p] \in Starting \cup {"run"}
  /\ Goes(p, "none")
  /\ UNCHANGED <<file, read>>

\* Other programs come and go under the pids that are free.
OtherProgram(p) ==
  /\ proc[p] \in {"none", "other"}
  /\ Goes(p, IF proc[p] = "none" THEN "other" ELSE "none")
  /\ UNCHANGED <<file, read>>

-----------------------------------------------------------------------------

LockNext ==
  \E p \in Pids :
    \/ Exec(p) \/ ReadLock(p) \/ Refuse(p) \/ Recycle(p) \/ Truncate(p)
    \/ CannotCreate(p) \/ WriteLock(p) \/ RemoveLock(p) \/ Abort(p) \/ OtherProgram(p)

LockSpec == LockInit /\ [][LockNext]_vars

-----------------------------------------------------------------------------

\* There is at most one daemon.
OneDaemon == \A p, q \in Pids : proc[p] = "run" /\ proc[q] = "run" => p = q

\* The daemon that runs is the one that the file names, so that the next
\* instance finds it.
NamedDaemon == \A p \in Pids : proc[p] = "run" => file = p

\* What keeps NamedDaemon: one instance starts at a time, what it read is what
\* the file has, and it goes on past the check only if no daemon runs.
LockInv ==
  /\ LockTypeOK
  /\ NamedDaemon
  /\ \A p, q \in Pids : proc[p] \in Starting /\ proc[q] \in Starting => p = q
  /\ \A p \in Pids :
       proc[p] = "check" => /\ read[p] # p
                            /\ \/ read[p] = file
                               \/ file = NoFile /\ \A q \in Pids : proc[q] # "run"
  /\ \A p, q \in Pids : proc[p] \in {"create", "write"} => proc[q] # "run"

\* An instance gives up only because another one is running: a stale lock, and
\* a pid that another program has now, never keep the daemon from starting.
RefusedByDaemon ==
  [][\A p \in Pids : Refuse(p) => \E q \in Pids : q # p /\ proc[q] = "run"]_vars
=============================================================================
