-------------------------- MODULE ClientLockProofs --------------------------
(***************************************************************************)
(* Theorems about ClientLock: at most one client holds the lock file, and  *)
(* the file names it, for any number of processes.                         *)
(***************************************************************************)
EXTENDS ClientLock, TLAPS

Holding == {"writePid", "holding"}

(* Who created the file keeps it open, so that nobody can remove it.       *)
HolderOpen == \A p \in Procs : pc[p] \in Holding \union {"readFile"} => p \in handles

(* An open file exists, and carries what its creator has written so far.   *)
OpenExists == handles # {} => file # Absent
HolderFile == \A p \in Procs : pc[p] \in Holding =>
                file = IF pc[p] = "holding" THEN p ELSE Empty

IInv == TypeOK /\ OneHolder /\ HolderOpen /\ OpenExists /\ HolderFile

LEMMA InitInv == Init => IInv
  BY NotPids DEF Init, IInv, TypeOK, OneHolder, HolderOpen, OpenExists, HolderFile, Holding, Gone

(* With a client in possession the file is open, and cannot be removed.    *)
LEMMA HolderUnremovable ==
  ASSUME HolderOpen, NEW p \in Procs, pc[p] \in Holding
  PROVE  ~Removable
  BY DEF HolderOpen, Removable, Holding

LEMMA RemoveInv ==
  ASSUME IInv, TryRemove, UNCHANGED <<handles, seen>>,
         NEW p \in Procs, pc[p] \notin Holding,
         NEW l \in {"create", "refused", "ended"}, Goto(p, l)
  PROVE  IInv'
  <1>1. \A q \in Procs : pc'[q] = IF q = p THEN l ELSE pc[q]
    BY DEF IInv, TypeOK, Goto
  <1>2. (\E q \in Procs : pc[q] \in Holding) => UNCHANGED file
    BY HolderUnremovable DEF IInv, TryRemove
  <1>3. TypeOK'
    BY <1>1 DEF IInv, TypeOK, TryRemove, Goto, Gone
  <1>4. OneHolder'
    BY <1>1 DEF IInv, OneHolder
  <1>5. HolderOpen'
    BY <1>1 DEF IInv, HolderOpen, Holding
  <1>6. OpenExists'
    BY DEF IInv, OpenExists, TryRemove, Removable
  <1>7. HolderFile'
    BY <1>1, <1>2 DEF IInv, HolderFile, Holding
  <1> QED BY <1>3, <1>4, <1>5, <1>6, <1>7 DEF IInv

LEMMA CreateInv ==
  ASSUME IInv, NEW p \in Procs, Create(p)
  PROVE  IInv'
  <1> USE DEF Create, Goto
  <1>1. CASE file = Absent
    <2>1. \A q \in Procs : pc[q] \notin Holding
      BY <1>1 DEF IInv, HolderOpen, OpenExists, Holding
    <2>2. TypeOK'
      BY <1>1, NotPids DEF IInv, TypeOK, Gone
    <2>3. OneHolder'
      BY <1>1, <2>1 DEF IInv, OneHolder, TypeOK, Holding
    <2>4. HolderOpen'
      BY <1>1, <2>1 DEF IInv, HolderOpen, TypeOK, Holding
    <2>5. OpenExists'
      BY <1>1, NotPids DEF IInv, OpenExists
    <2>6. HolderFile'
      BY <1>1, <2>1 DEF IInv, HolderFile, TypeOK, Holding
    <2> QED BY <2>2, <2>3, <2>4, <2>5, <2>6 DEF IInv
  <1>2. CASE file # Absent
    BY <1>2 DEF IInv, TypeOK, OneHolder, HolderOpen, OpenExists, HolderFile, Holding, Gone
  <1> QED BY <1>1, <1>2

LEMMA WritePidInv ==
  ASSUME IInv, NEW p \in Procs, WritePid(p)
  PROVE  IInv'
  <1> USE DEF WritePid, Goto
  <1>1. \A q \in Procs \ {p} : pc[q] \notin Holding
    BY DEF IInv, OneHolder, Holding
  <1>2. TypeOK'
    BY DEF IInv, TypeOK, Gone
  <1>3. OneHolder'
    BY <1>1 DEF IInv, OneHolder, TypeOK, Holding
  <1>4. HolderOpen'
    BY DEF IInv, HolderOpen, TypeOK, Holding
  <1>5. OpenExists'
    BY NotPids DEF IInv, OpenExists, TypeOK
  <1>6. HolderFile'
    BY <1>1 DEF IInv, HolderFile, TypeOK, Holding
  <1> QED BY <1>2, <1>3, <1>4, <1>5, <1>6 DEF IInv

(* The other steps change no holder and no file.                           *)
LEMMA OtherInv ==
  ASSUME IInv, NEW p \in Procs,
         \/ Start(p) \/ OpenFile(p) \/ ReadFile(p) \/ CheckAlive(p)
         \/ CloseLock(p) \/ Die(p)
  PROVE  IInv'
  <1> USE DEF Goto
  <1>1. file' = file
    BY DEF Start, OpenFile, ReadFile, CheckAlive, CloseLock, Die
  <1>2. \A q \in Procs : q # p => pc'[q] = pc[q] /\ (q \in handles' <=> q \in handles)
    BY DEF IInv, TypeOK, Start, OpenFile, ReadFile, CheckAlive, CloseLock, Die
  <1>3. pc'[p] \notin Holding
    BY DEF IInv, TypeOK, Start, OpenFile, ReadFile, CheckAlive, CloseLock, Die, Holding
  <1>4. TypeOK'
    <2>1. CASE Start(p) BY <2>1 DEF IInv, TypeOK, Start, Gone
    <2>2. CASE OpenFile(p) BY <2>2 DEF IInv, TypeOK, OpenFile, Gone
    <2>3. CASE ReadFile(p)
      <3>1. file # Absent
        BY <2>3 DEF IInv, HolderOpen, OpenExists, ReadFile
      <3> QED BY <2>3, <3>1, NotPids DEF IInv, TypeOK, ReadFile, Gone
    <2>4. CASE CheckAlive(p) BY <2>4 DEF IInv, TypeOK, CheckAlive, Gone
    <2>5. CASE CloseLock(p) BY <2>5 DEF IInv, TypeOK, CloseLock, Gone
    <2>6. CASE Die(p) BY <2>6 DEF IInv, TypeOK, Die, Gone
    <2> QED BY <2>1, <2>2, <2>3, <2>4, <2>5, <2>6
  <1>5. OneHolder'
    BY <1>2, <1>3 DEF IInv, OneHolder, Holding
  <1>6. HolderOpen'
    BY <1>2, <1>3 DEF IInv, HolderOpen, Holding, TypeOK, Start, OpenFile, ReadFile, CheckAlive, CloseLock, Die
  <1>7. OpenExists'
    BY <1>1 DEF IInv, OpenExists, Start, OpenFile, ReadFile, CheckAlive, CloseLock, Die
  <1>8. HolderFile'
    BY <1>1, <1>2, <1>3 DEF IInv, HolderFile, Holding
  <1> QED BY <1>4, <1>5, <1>6, <1>7, <1>8 DEF IInv

LEMMA NextInv == IInv /\ [Next]_vars => IInv'
  <1> SUFFICES ASSUME IInv, [Next]_vars PROVE IInv'
    OBVIOUS
  <1>1. CASE UNCHANGED vars
    BY <1>1 DEF vars, IInv, TypeOK, OneHolder, HolderOpen, OpenExists, HolderFile
  <1>2. ASSUME NEW p \in Procs,
               Start(p) \/ AcquireStep(p) \/ CloseLock(p) \/ Unlink(p) \/ Die(p)
        PROVE  IInv'
    <2>1. CASE Create(p) BY <2>1, CreateInv
    <2>2. CASE WritePid(p) BY <2>2, WritePidInv
    <2>3. CASE UndoCreate(p) BY <2>3, RemoveInv DEF UndoCreate, Holding
    <2>4. CASE RemoveDamaged(p) BY <2>4, RemoveInv DEF RemoveDamaged, Holding
    <2>5. CASE RemoveStale(p)
      <3>1. CASE Removable BY <2>5, <3>1, RemoveInv DEF RemoveStale, Holding
      <3>2. CASE ~Removable BY <2>5, <3>2, RemoveInv DEF RemoveStale, Holding
      <3> QED BY <3>1, <3>2
    <2>6. CASE Unlink(p) BY <2>6, RemoveInv DEF Unlink, Holding
    <2>7. CASE Start(p) \/ OpenFile(p) \/ ReadFile(p) \/ CheckAlive(p) \/ CloseLock(p) \/ Die(p)
      BY <2>7, OtherInv
    <2> QED BY <1>2, <2>1, <2>2, <2>3, <2>4, <2>5, <2>6, <2>7 DEF AcquireStep
  <1> QED BY <1>1, <1>2 DEF Next

LEMMA AlwaysInv == Spec => []IInv
  BY InitInv, NextInv, PTL DEF Spec

(* The variables keep their types, and a pid is looked up only when the    *)
(* file held one (lock.go:50).                                             *)
THEOREM TypeCorrect == Spec => []TypeOK
  BY AlwaysInv, PTL DEF IInv

(* Two clients never hold the lock together (lock.go:29).                  *)
THEOREM OneHolderAlways == Spec => []OneHolder
  BY AlwaysInv, PTL DEF IInv

(* The lock file of a running client stays and names it (lock.go:29, 72).  *)
THEOREM HolderAlwaysNamed == Spec => []HolderNamed
  <1>1. IInv => HolderNamed
    BY DEF IInv, HolderFile, HolderNamed, Holding
  <1> QED BY <1>1, AlwaysInv, PTL
=============================================================================
