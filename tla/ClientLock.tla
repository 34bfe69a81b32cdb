----------------------------- MODULE ClientLock -----------------------------
(***************************************************************************)
(* The lock file of the client (client/lock.go): several client processes  *)
(* that start, refuse to start, run, stop and die.                         *)
(*                                                                         *)
(* The program is built for Windows, where os.OpenFile and os.ReadFile do  *)
(* not share the right to delete: os.Remove fails while any process has    *)
(* the file open.  A process that dies loses its handles.  Processes are   *)
(* named by their pids.                                                    *)
(***************************************************************************)
EXTENDS Naturals

CONSTANTS
  Procs,     \* client processes; each starts at most once
  Reused,    \* those whose pid another program has after they are gone
  Absent,    \* there is no lock file
  Empty      \* the lock file holds no pid

ASSUME ReusedAreProcs == Reused \subseteq Procs
ASSUME NotPids == Absent \notin Procs /\ Empty \notin Procs /\ Absent # Empty

VARIABLES
  file,      \* Absent, Empty, or the pid in the lock file
  handles,   \* processes that have the lock file open
  seen,      \* per process: the pid it read
  pc         \* per process: next step

vars == <<file, handles, seen, pc>>

Gone == {"new", "ended", "dead"}

IsProcessAlive(q) == pc[q] \notin Gone \/ (q \in Reused /\ pc[q] # "new")

Goto(p, label) == pc' = [pc EXCEPT ![p] = label]

(* os.Remove                                                               *)
Removable == file # Absent /\ handles = {}
TryRemove == file' = IF Removable THEN Absent ELSE file

-----------------------------------------------------------------------------
(* Wrong variants of steps, each put in the place of the step it is a      *)
(* variant of to see that the properties tell them apart.                  *)

(* Removal of a file that another process has open, as on other systems.   *)
RemoveDamagedOpen(p) ==
  /\ pc[p] = "removeDamaged"
  /\ file' = Absent
  /\ Goto(p, "create")
  /\ UNCHANGED <<handles, seen>>

(* Truncation of the existing file instead of exclusive creation.          *)
CreateOrTruncate(p) ==
  /\ pc[p] = "create"
  /\ file' = Empty
  /\ handles' = handles \union {p}
  /\ Goto(p, "writePid")
  /\ UNCHANGED seen

(* The error of os.ReadFile is not looked at.                              *)
OpenUnchecked(p) ==
  /\ pc[p] = "openFile"
  /\ handles' = handles \union {p}
  /\ Goto(p, "readFile")
  /\ UNCHANGED <<file, seen>>

(* A file without a pid is an error.                                       *)
RefuseDamaged(p) ==
  /\ pc[p] = "removeDamaged"
  /\ Goto(p, "refused")
  /\ UNCHANGED <<file, handles, seen>>

(* Wait for the running client instead of an error.                        *)
AwaitEnd(p) ==
  /\ pc[p] = "checkAlive"
  /\ Goto(p, IF IsProcessAlive(seen[p]) THEN "create" ELSE "removeStale")
  /\ UNCHANGED <<file, handles, seen>>

-----------------------------------------------------------------------------
(* acquireLock                                                             *)

Start(p) ==
  /\ pc[p] = "new"
  /\ Goto(p, "create")
  /\ UNCHANGED <<file, handles, seen>>

(* O_CREATE|O_EXCL                                                         *)
Create(p) ==
  /\ pc[p] = "create"
  /\ \/ /\ file = Absent
        /\ file' = Empty
        /\ handles' = handles \union {p}
        /\ Goto(p, "writePid")
     \/ /\ file # Absent
        /\ Goto(p, "openFile")
        /\ UNCHANGED <<file, handles>>
  /\ UNCHANGED seen

WritePid(p) ==
  /\ pc[p] = "writePid"
  /\ \/ file' = p /\ Goto(p, "holding") /\ UNCHANGED handles
     \/ handles' = handles \ {p} /\ Goto(p, "undo") /\ UNCHANGED file
  /\ UNCHANGED seen

(* The write failed: the file is closed and removed, the start fails.      *)
UndoCreate(p) ==
  /\ pc[p] = "undo"
  /\ TryRemove
  /\ Goto(p, "refused")
  /\ UNCHANGED <<handles, seen>>

(* os.ReadFile opens the file, reads it and closes it.                     *)
OpenFile(p) ==
  /\ pc[p] = "openFile"
  /\ \/ /\ file # Absent
        /\ handles' = handles \union {p}
        /\ Goto(p, "readFile")
     \/ /\ file = Absent
        /\ Goto(p, "refused")
        /\ UNCHANGED handles
  /\ UNCHANGED <<file, seen>>

ReadFile(p) ==
  /\ pc[p] = "readFile"
  /\ handles' = handles \ {p}
  /\ seen' = [seen EXCEPT ![p] = file]
  /\ Goto(p, IF file = Empty THEN "removeDamaged" ELSE "checkAlive")
  /\ UNCHANGED file

(* The result of this removal is not looked at.                            *)
RemoveDamaged(p) ==
  /\ pc[p] = "removeDamaged"
  /\ TryRemove
  /\ Goto(p, "create")
  /\ UNCHANGED <<handles, seen>>

CheckAlive(p) ==
  /\ pc[p] = "checkAlive"
  /\ Goto(p, IF IsProcessAlive(seen[p]) THEN "refused" ELSE "removeStale")
  /\ UNCHANGED <<file, handles, seen>>

RemoveStale(p) ==
  /\ pc[p] = "removeStale"
  /\ TryRemove
  /\ Goto(p, IF Removable THEN "create" ELSE "refused")
  /\ UNCHANGED <<handles, seen>>

-----------------------------------------------------------------------------
(* releaseLock, and the end of a process                                   *)

CloseLock(p) ==
  /\ pc[p] = "holding"
  /\ handles' = handles \ {p}
  /\ Goto(p, "unlink")
  /\ UNCHANGED <<file, seen>>

Unlink(p) ==
  /\ pc[p] = "unlink"
  /\ TryRemove
  /\ Goto(p, "ended")
  /\ UNCHANGED <<handles, seen>>

(* Killed, crashed, or ended by the user after the refusal.                *)
Die(p) ==
  /\ pc[p] \notin Gone
  /\ handles' = handles \ {p}
  /\ Goto(p, "dead")
  /\ UNCHANGED <<file, seen>>

-----------------------------------------------------------------------------

(* No client has run yet in this directory.                                *)
Init ==
  /\ file = Absent
  /\ handles = {}
  /\ seen = [p \in Procs |-> Absent]
  /\ pc = [p \in Procs |-> "new"]

AcquireStep(p) ==
  \/ Create(p) \/ WritePid(p) \/ UndoCreate(p) \/ OpenFile(p) \/ ReadFile(p)
  \/ RemoveDamaged(p) \/ CheckAlive(p) \/ RemoveStale(p)

Next == \E p \in Procs :
  Start(p) \/ AcquireStep(p) \/ CloseLock(p) \/ Unlink(p) \/ Die(p)

Spec == Init /\ [][Next]_vars

(* A process that is starting or stopping runs on.  Starts that retry on a *)
(* damaged file do not move in lockstep for ever, one opening the file     *)
(* before another has closed it.  Starts of programs, stops and deaths are *)
(* up to the world.                                                        *)
Fairness == \A p \in Procs :
  /\ WF_vars(AcquireStep(p) \/ Unlink(p))
  /\ SF_vars(ReadFile(p) /\ handles = {p})
  /\ SF_vars(RemoveDamaged(p) /\ Removable)

FairSpec == Spec /\ Fairness

-----------------------------------------------------------------------------

TypeOK ==
  /\ file \in Procs \union {Absent, Empty}
  /\ handles \in SUBSET Procs
  /\ seen \in [Procs -> Procs \union {Absent, Empty}]
  /\ pc \in [Procs -> Gone \union
       {"create", "writePid", "undo", "openFile", "readFile", "removeDamaged", "checkAlive",
        "removeStale", "refused", "holding", "unlink"}]
  /\ \A p \in Procs : pc[p] = "checkAlive" => seen[p] \in Procs

(* Two clients never run with the lock at the same time, whatever they     *)
(* remove in the belief that it is stale, and wherever others die.         *)
OneHolder ==
  \A p, q \in Procs :
    pc[p] \in {"writePid", "holding"} /\ pc[q] \in {"writePid", "holding"} => p = q

(* While a client runs, the lock file is there and names it: neither a     *)
(* start that found the file empty nor the release of an earlier client    *)
(* takes it away.                                                          *)
HolderNamed == \A p \in Procs : pc[p] = "holding" => file = p

(* A start never hangs: it ends with the lock or with an error.            *)
StartReturns ==
  \A p \in Procs : pc[p] = "create" ~> pc[p] \in {"holding", "refused", "dead"}

(* Whatever the clients before have left behind, a start with no other     *)
(* client about gets the lock, unless the write of its pid fails or the    *)
(* pid they left in the file belongs to another program by now.            *)
Alone(p) == \A q \in Procs \ {p} : pc[q] \in {"ended", "dead"}

LoneStartSucceeds ==
  \A p \in Procs :
    (pc[p] = "create" /\ Alone(p) /\ file \notin Reused)
      ~> pc[p] \in {"holding", "undo", "dead"}
=============================================================================
