-------------------------- MODULE UpdateLockProofs --------------------------
(***************************************************************************)
(* For any number of programs, of any mix of kinds: the update lock is     *)
(* mutual exclusion, and implements UpgradeMutex, until a live run         *)
(* outlasts STALE_MS or one is killed while it holds the reclaim marker.   *)
(***************************************************************************)
EXTENDS UpdateLock, TLAPS

(* Who is past the creation of a file is its maker, and it is fresh. *)
LockOwned ==
  \A p \in Procs : pc[p] \in LockPcs =>
    /\ lock.by = p
    /\ ~lock.stale
    /\ pc[p] # "stampLock" => lock.text = p

MarkerOwned ==
  \A p \in Procs : pc[p] \in ReclaimPcs =>
    /\ marker.by = p
    /\ pc[p] # "stampMarker" => marker.text = p

(* A marker is never left behind, so never stale, so never moved aside. *)
MarkerLive ==
  /\ ~marker.stale
  /\ Exists(marker) => marker.by \in Procs /\ pc[marker.by] \in ReclaimPcs
  /\ marker.text \in {None, marker.by}
  /\ \A p \in Procs : pc[p] \notin {"park", "parkedAge"}

(* The age a reclaimer acts on is still true. *)
StaleTarget == \A p \in Procs : pc[p] \in {"own", "unlink"} => IsStale(lock)

Owned == LockOwned /\ MarkerOwned /\ MarkerLive /\ StaleTarget
IInv  == TypeOK /\ (residual \/ Owned)

USE DEF Goto, Exists, IsStale, StillOurs, ReclaimPcs, LockPcs, HoldPcs, Pcs

-----------------------------------------------------------------------------
(* What the operations on a file make of it. *)
LEMMA FileFields ==
  /\ Absent.by = None /\ Absent.text = None /\ Absent.stale = FALSE
  /\ \A p \in Procs :
       Blank(p).by = p /\ Blank(p).text = None /\ Blank(p).stale = FALSE
  BY DEF Absent, Blank

LEMMA FileTypes ==
  /\ Absent \in File
  /\ \A p \in Procs : Blank(p) \in File
  /\ \A f \in File, p \in Procs : Disowned(f, p) \in File /\ Stamped(f, p) \in File
  /\ \A f \in File : /\ [f EXCEPT !.stale = TRUE] \in File
                     /\ [f EXCEPT !.stale = FALSE] \in File
<1>1. Absent \in File
  BY DEF Absent, File, Owners
<1>2. ASSUME NEW p \in Procs PROVE Blank(p) \in File
  BY DEF Blank, File, Owners
<1>3. ASSUME NEW f \in File, NEW p \in Procs
      PROVE  Disowned(f, p) \in File /\ Stamped(f, p) \in File
  BY DEF Disowned, Stamped, File, Owners
<1>4. ASSUME NEW f \in File
      PROVE  [f EXCEPT !.stale = TRUE] \in File /\ [f EXCEPT !.stale = FALSE] \in File
  BY DEF File
<1> QED BY <1>1, <1>2, <1>3, <1>4

(* The programs start outside the protocol, with at most a dead run's lock on
   the disk (the initial states of UpdateLock). *)
LEMMA InitInv == Init => IInv
<1> SUFFICES ASSUME Init PROVE IInv
  OBVIOUS
<1> USE NameAssumption, BoundAssumption DEF Init
<1>1. TypeOK
  <2>1. lock \in File
    <3>1. [by |-> Ghost, text |-> Ghost, stale |-> TRUE] \in File
      BY DEF File, Owners
    <3> QED BY <3>1, FileTypes
  <2>2. parked \in [Procs -> File] /\ pc \in [Procs -> Pcs]
    BY FileTypes
  <2>3. faults \in 0..MaxFaults /\ residual \in BOOLEAN
    <3>1. residual \in BOOLEAN
      OBVIOUS
    <3> QED BY <3>1
  <2>4. marker \in File
    BY FileTypes
  <2> QED BY <2>1, <2>2, <2>3, <2>4 DEF TypeOK
<1>2. LockOwned /\ MarkerOwned /\ StaleTarget
  BY FileFields DEF LockOwned, MarkerOwned, StaleTarget
<1>3. MarkerLive
  BY FileFields DEF MarkerLive
<1> QED BY <1>1, <1>2, <1>3 DEF IInv, Owned

(* TypeOK is inductive by itself, with overruns and kills anywhere. *)
LEMMA TypeStep == TypeOK /\ [Next]_vars => TypeOK'
<1> SUFFICES ASSUME TypeOK, [Next]_vars PROVE TypeOK'
  OBVIOUS
<1> USE BoundAssumption, FileTypes DEF TypeOK
<1>1. ASSUME NEW p \in Procs, Start(p) PROVE TypeOK'
  BY <1>1 DEF Start
<1>2. ASSUME NEW p \in Procs, Reclaim(p) PROVE TypeOK'
  <2>1. CASE ReadLockAge(p)     BY <2>1 DEF ReadLockAge
  <2>2. CASE ReadMarkerAge(p)   BY <2>2 DEF ReadMarkerAge
  <2>3. CASE ParkMarker(p)      BY <2>3 DEF ParkMarker, StandDown
  <2>4. CASE CheckParked(p)     BY <2>4 DEF CheckParked, StandDown
  <2>5. CASE ClaimMarker(p)     BY <2>5 DEF ClaimMarker
  <2>6. CASE StampMarker(p)     BY <2>6 DEF StampMarker
  <2>7. CASE RecheckLockAge(p)  BY <2>7 DEF RecheckLockAge
  <2>8. CASE CheckMarkerOurs(p) BY <2>8 DEF CheckMarkerOurs
  <2>9. CASE UnlinkStaleLock(p) BY <2>9 DEF UnlinkStaleLock
  <2>10. CASE LeaveReclaim(p)   BY <2>10 DEF LeaveReclaim
  <2>11. CASE DropMarker(p)     BY <2>11 DEF DropMarker
  <2> QED BY <1>2, <2>1, <2>2, <2>3, <2>4, <2>5, <2>6, <2>7, <2>8, <2>9,
             <2>10, <2>11 DEF Reclaim
<1>3. ASSUME NEW p \in Procs, Acquire(p) PROVE TypeOK'
  <2>1. CASE CreateLock(p) BY <2>1 DEF CreateLock
  <2>2. CASE StampLock(p)  BY <2>2 DEF StampLock
  <2>3. CASE VerifyLock(p) BY <2>3 DEF VerifyLock
  <2> QED BY <1>3, <2>1, <2>2, <2>3 DEF Acquire
<1>4. ASSUME NEW p \in Procs, KeepAlive(p) PROVE TypeOK'
  BY <1>4 DEF KeepAlive
<1>5. ASSUME NEW p \in Procs, Release(p) PROVE TypeOK'
  <2>1. CASE FinishUpgrade(p)    BY <2>1 DEF FinishUpgrade
  <2>2. CASE LeaveLockBehind(p)  BY <2>2 DEF LeaveLockBehind
  <2>3. CASE CheckReleaseOurs(p) BY <2>3 DEF CheckReleaseOurs
  <2>4. CASE ReleaseLock(p)      BY <2>4 DEF ReleaseLock
  <2> QED BY <1>5, <2>1, <2>2, <2>3, <2>4 DEF Release
<1>6. ASSUME NEW p \in Procs, Fault(p) PROVE TypeOK'
  <2>1. CASE StampMarkerFails(p) BY <2>1 DEF StampMarkerFails
  <2>2. CASE StampLockFails(p)   BY <2>2 DEF StampLockFails
  <2>3. CASE Crash(p)            BY <2>3 DEF Crash
  <2> QED BY <1>6, <2>1, <2>2, <2>3 DEF Fault
<1>7. ASSUME AgeLock \/ AgeMarker PROVE TypeOK'
  <2>1. faults' \in 0..MaxFaults /\ residual' \in BOOLEAN
    <3>1. CASE Overrun BY <3>1 DEF Overrun
    <3>2. CASE UNCHANGED <<faults, residual>> BY <3>2
    <3> QED BY <1>7, <3>1, <3>2 DEF AgeLock, AgeMarker
  <2> QED BY <1>7, <2>1 DEF AgeLock, AgeMarker
<1>8. CASE UNCHANGED vars
  BY <1>8 DEF vars
<1> QED BY <1>1, <1>2, <1>3, <1>4, <1>5, <1>6, <1>7, <1>8 DEF Next

(* Every variable of the protocol stays in its domain, whatever overruns and
   kills happen (shared/update-lock.js). *)
THEOREM TypeCorrect == Spec => []TypeOK
<1>1. Init => TypeOK
  BY InitInv DEF IInv
<1> QED BY <1>1, TypeStep, PTL DEF Spec

-----------------------------------------------------------------------------
LEMMA StampedOwn ==
  ASSUME NEW f \in File, NEW p \in Procs, f.by = p
  PROVE  Stamped(f, p).by = p /\ Stamped(f, p).text = p /\ ~Stamped(f, p).stale
  BY NameAssumption DEF Stamped, File, Owners

LEMMA DisownedFields ==
  ASSUME NEW f \in File, NEW p \in Procs
  PROVE  /\ Disowned(f, p).by = IF f.by = p THEN Ghost ELSE f.by
         /\ Disowned(f, p).text = IF f.text = p THEN Ghost ELSE f.text
         /\ Disowned(f, p).stale = f.stale
  BY DEF Disowned, File

LEMMA AgedFields ==
  ASSUME NEW f \in File
  PROVE  /\ [f EXCEPT !.stale = TRUE].by = f.by
         /\ [f EXCEPT !.stale = TRUE].text = f.text
         /\ [f EXCEPT !.stale = TRUE].stale = TRUE
  BY DEF File

(* A residual is for ever. *)
LEMMA ResidualStays == residual /\ [Next]_vars => residual'
  BY DEF Next, Start, Reclaim, ReadLockAge, ReadMarkerAge, ParkMarker, CheckParked, ClaimMarker,
         StampMarker, RecheckLockAge, CheckMarkerOurs, UnlinkStaleLock, LeaveReclaim, DropMarker,
         Acquire, CreateLock, StampLock, VerifyLock, KeepAlive, Release, FinishUpgrade,
         LeaveLockBehind, CheckReleaseOurs, ReleaseLock, Fault, StampMarkerFails, StampLockFails,
         Crash, AgeLock, AgeMarker, Overrun, vars

(* With nothing left behind in the reclaim section and no overrun, each step
   keeps the ownership of the two files (every action of UpdateLock). *)
LEMMA OwnedStep ==
  ASSUME TypeOK, Owned, [Next]_vars, ~residual'
  PROVE  Owned'
<1> USE NameAssumption, FileFields
    DEF TypeOK, Owned, LockOwned, MarkerOwned, MarkerLive, StaleTarget
<1>1. ASSUME NEW p \in Procs, Start(p) PROVE Owned'
  BY <1>1, DisownedFields DEF Start
<1>2. ASSUME NEW p \in Procs, Reclaim(p) PROVE Owned'
  <2>1. CASE ReadLockAge(p)     BY <2>1 DEF ReadLockAge
  <2>2. CASE ReadMarkerAge(p)   BY <2>2 DEF ReadMarkerAge
  <2>3. CASE ParkMarker(p)      BY <2>3 DEF ParkMarker
  <2>4. CASE CheckParked(p)     BY <2>4 DEF CheckParked
  <2>5. CASE ClaimMarker(p)     BY <2>5 DEF ClaimMarker
  <2>6. CASE StampMarker(p)     BY <2>6, StampedOwn DEF StampMarker
  <2>7. CASE RecheckLockAge(p)  BY <2>7 DEF RecheckLockAge
  <2>8. CASE CheckMarkerOurs(p) BY <2>8 DEF CheckMarkerOurs
  <2>9. CASE UnlinkStaleLock(p) BY <2>9 DEF UnlinkStaleLock
  <2>10. CASE LeaveReclaim(p)   BY <2>10 DEF LeaveReclaim
  <2>11. CASE DropMarker(p)     BY <2>11 DEF DropMarker
  <2> QED BY <1>2, <2>1, <2>2, <2>3, <2>4, <2>5, <2>6, <2>7, <2>8, <2>9,
             <2>10, <2>11 DEF Reclaim
<1>3. ASSUME NEW p \in Procs, Acquire(p) PROVE Owned'
  <2>1. CASE CreateLock(p) BY <2>1 DEF CreateLock
  <2>2. CASE StampLock(p)  BY <2>2, StampedOwn DEF StampLock
  <2>3. CASE VerifyLock(p) BY <2>3 DEF VerifyLock
  <2> QED BY <1>3, <2>1, <2>2, <2>3 DEF Acquire
<1>4. ASSUME NEW p \in Procs, KeepAlive(p) PROVE Owned'
  BY <1>4 DEF KeepAlive
<1>5. ASSUME NEW p \in Procs, Release(p) PROVE Owned'
  <2>1. CASE FinishUpgrade(p)    BY <2>1 DEF FinishUpgrade
  <2>2. CASE LeaveLockBehind(p)  BY <2>2 DEF LeaveLockBehind
  <2>3. CASE CheckReleaseOurs(p) BY <2>3 DEF CheckReleaseOurs
  <2>4. CASE ReleaseLock(p)      BY <2>4 DEF ReleaseLock
  <2> QED BY <1>5, <2>1, <2>2, <2>3, <2>4 DEF Release
<1>6. ASSUME NEW p \in Procs, Fault(p) PROVE Owned'
  <2>1. CASE StampMarkerFails(p) BY <2>1 DEF StampMarkerFails
  <2>2. CASE StampLockFails(p)   BY <2>2 DEF StampLockFails
  <2>3. CASE Crash(p)            BY <2>3 DEF Crash
  <2> QED BY <1>6, <2>1, <2>2, <2>3 DEF Fault
<1>7. ASSUME AgeLock PROVE Owned'
  BY <1>7, AgedFields DEF AgeLock, Overrun, LiveLock
<1>8. ASSUME AgeMarker PROVE Owned'
  BY <1>8 DEF AgeMarker, Overrun, LiveMarker
<1>9. CASE UNCHANGED vars
  BY <1>9 DEF vars
<1> QED BY <1>1, <1>2, <1>3, <1>4, <1>5, <1>6, <1>7, <1>8, <1>9 DEF Next

LEMMA Inductive == Spec => []IInv
<1>1. IInv /\ [Next]_vars => IInv'
  BY OwnedStep, TypeStep, ResidualStays DEF IInv
<1> QED BY <1>1, InitInv, PTL DEF Spec

LEMMA Consequences ==
  IInv => MutualExclusion /\ HolderOnDisk /\ OneDeleter /\ DeletesOnlyDead
<1> SUFFICES ASSUME IInv
             PROVE  MutualExclusion /\ HolderOnDisk /\ OneDeleter /\ DeletesOnlyDead
  OBVIOUS
<1>0. CASE residual
  BY <1>0 DEF MutualExclusion, HolderOnDisk, OneDeleter, DeletesOnlyDead
<1> SUFFICES ASSUME Owned PROVE MutualExclusion /\ HolderOnDisk /\ OneDeleter /\ DeletesOnlyDead
  BY <1>0 DEF IInv
<1> USE NameAssumption DEF IInv, TypeOK, Owned
<1>1. MutualExclusion
  BY DEF MutualExclusion, Holding, LockOwned
<1>2. HolderOnDisk
  BY DEF HolderOnDisk, Holding, LockOwned
<1>3. OneDeleter
  BY DEF OneDeleter, MarkerOwned
<1>4. DeletesOnlyDead
  BY DEF DeletesOnlyDead, LiveLock, LockOwned, StaleTarget
<1> QED BY <1>1, <1>2, <1>3, <1>4

(* Two programs never upgrade ~/.ownmind at the same time. *)
THEOREM MutualExclusionHolds == Spec => []MutualExclusion
  BY Inductive, Consequences, PTL

(* The lock of a program that believes it holds it is on the disk with its
   token, so nobody took it away. *)
THEOREM HolderOnDiskHolds == Spec => []HolderOnDisk
  BY Inductive, Consequences, PTL

(* Two reclaimers are never both past the proof that they own the marker. *)
THEOREM OneDeleterHolds == Spec => []OneDeleter
  BY Inductive, Consequences, PTL

(* A reclaimer deletes only a lock whose run is gone. *)
THEOREM DeletesOnlyDeadHolds == Spec => []DeletesOnlyDead
  BY Inductive, Consequences, PTL

-----------------------------------------------------------------------------
(* A step lets a program in only when nobody is in, or lets one out. *)
LEMMA HoldingStep ==
  ASSUME TypeOK, Owned, [Next]_vars
  PROVE  \/ \E p \in Procs : Holding = {} /\ Holding' = {p}
         \/ \E p \in Holding : Holding' = Holding \ {p}
         \/ UNCHANGED Holding
<1> DEFINE Step == \/ \E p \in Procs : Holding = {} /\ Holding' = {p}
                   \/ \E p \in Holding : Holding' = Holding \ {p}
                   \/ UNCHANGED Holding
<1> USE NameAssumption DEF TypeOK, Owned, LockOwned, Holding
<1>1. ASSUME NEW p \in Procs, NEW l \in Pcs, pc' = [pc EXCEPT ![p] = l],
             pc[p] \notin HoldPcs => l \notin HoldPcs
      PROVE  Step
  <2>1. CASE pc[p] \in HoldPcs /\ l \notin HoldPcs
    <3>1. p \in Holding /\ Holding' = Holding \ {p}
      BY <1>1, <2>1
    <3> QED BY <3>1
  <2>2. CASE pc[p] \in HoldPcs <=> l \in HoldPcs
    <3>1. Holding' = Holding
      BY <1>1, <2>2
    <3> QED BY <3>1
  <2> QED BY <1>1, <2>1, <2>2
<1>2. ASSUME NEW p \in Procs, VerifyLock(p), pc'[p] = "hold"
      PROVE  Step
  <2>1. pc[p] = "verify" /\ pc' = [pc EXCEPT ![p] = "hold"]
    BY <1>2 DEF VerifyLock
  <2>2. Holding = {}
    BY <2>1
  <2>3. Holding' = {p}
    BY <2>1, <2>2
  <2> QED BY <2>2, <2>3
<1>3. ASSUME UNCHANGED pc PROVE UNCHANGED Holding
  BY <1>3
<1>4. ASSUME NEW p \in Procs, Start(p) PROVE Step
  BY <1>1, <1>4 DEF Start
<1>5. ASSUME NEW p \in Procs, Reclaim(p) PROVE Step
  <2>1. \E l \in Pcs : pc' = [pc EXCEPT ![p] = l] /\ l \notin HoldPcs
    BY <1>5 DEF Reclaim, ReadLockAge, ReadMarkerAge, ParkMarker, CheckParked,
       ClaimMarker, StampMarker, RecheckLockAge, CheckMarkerOurs, UnlinkStaleLock,
       LeaveReclaim, DropMarker, StandDown
  <2> QED BY <2>1, <1>1
<1>6. ASSUME NEW p \in Procs, Acquire(p) PROVE Step
  <2>1. CASE VerifyLock(p) /\ pc'[p] = "hold"
    BY <2>1, <1>2
  <2>2. CASE ~(VerifyLock(p) /\ pc'[p] = "hold")
    <3>1. \E l \in Pcs : pc' = [pc EXCEPT ![p] = l] /\ l \notin HoldPcs
      BY <1>6, <2>2 DEF Acquire, CreateLock, StampLock, VerifyLock
    <3> QED BY <3>1, <1>1
  <2> QED BY <2>1, <2>2
<1>7. ASSUME NEW p \in Procs, KeepAlive(p) PROVE Step
  BY <1>3, <1>7 DEF KeepAlive
<1>8. ASSUME NEW p \in Procs, Release(p) PROVE Step
  <2>1. \E l \in Pcs : pc' = [pc EXCEPT ![p] = l] /\ pc[p] \in HoldPcs
    BY <1>8 DEF Release, FinishUpgrade, LeaveLockBehind, CheckReleaseOurs, ReleaseLock
  <2> QED BY <2>1, <1>1
<1>9. ASSUME NEW p \in Procs, Fault(p) PROVE Step
  <2>1. \E l \in Pcs : pc' = [pc EXCEPT ![p] = l] /\ l \notin HoldPcs
    BY <1>9 DEF Fault, StampMarkerFails, StampLockFails, Crash
  <2> QED BY <2>1, <1>1
<1>10. ASSUME AgeLock \/ AgeMarker \/ UNCHANGED vars PROVE Step
  BY <1>3, <1>10 DEF AgeLock, AgeMarker, vars
<1> QED BY <1>4, <1>5, <1>6, <1>7, <1>8, <1>9, <1>10 DEF Next

LEMMA RefinementStep == IInv /\ [Next]_vars => [Mutex!Next]_Holders
<1> SUFFICES ASSUME IInv, [Next]_vars PROVE [Mutex!Next]_Holders
  OBVIOUS
<1> USE DEF Mutex!Next, Mutex!Enter, Mutex!Exit, Holders
<1>1. CASE residual
  BY <1>1, ResidualStays
<1>2. CASE ~residual /\ residual'
  <2>1. \A p, q \in Holding : p = q
    BY <1>2, Consequences DEF MutualExclusion
  <2>2. Holding = {} \/ \E p \in Procs : Holding = {p}
    BY <2>1 DEF Holding
  <2> QED BY <1>2, <2>2
<1>3. CASE ~residual /\ ~residual'
  <2>1. \/ \E p \in Procs : Holding = {} /\ Holding' = {p}
        \/ \E p \in Holding : Holding' = Holding \ {p}
        \/ UNCHANGED Holding
    BY <1>3, HoldingStep DEF IInv
  <2>2. Holding \subseteq Procs
    BY DEF Holding
  <2> QED BY <1>3, <2>1, <2>2
<1> QED BY <1>1, <1>2, <1>3

(* UpdateLock implements the abstract mutual exclusion of UpgradeMutex, until
   there is a residual. *)
THEOREM Refinement == Spec => ImplementsMutex
<1>1. Init => Mutex!Init
  BY DEF Init, Mutex!Init, Holders, Holding
<1> QED BY <1>1, RefinementStep, Inductive, PTL DEF Spec, Mutex!Spec, ImplementsMutex
=============================================================================
