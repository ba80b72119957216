----------------------------- MODULE UpdateLock -----------------------------
(***************************************************************************)
(* The lock every upgrade of ~/.ownmind takes: shared/update-lock.js, and  *)
(* its shell twin acquire_update_lock() in hooks/ownmind-session-start.sh. *)
(* Two files carry the protocol: `lock` (.update-lock) and `marker`        *)
(* (.update-lock.reclaim), the mutex of the reclaimers.  Every access to   *)
(* either one is a step of its own, so the interleavings are those of      *)
(* independent programs on one file system.                                *)
(*                                                                         *)
(* Time is abstracted to one bit per file: `stale` is "older than          *)
(* STALE_MS".  A file keeps who created it (`by`, its identity) apart from *)
(* what it reads as (`text`, the token), because the code compares         *)
(* contents and only the program that made a file has its descriptor.      *)
(***************************************************************************)
EXTENDS Naturals

CONSTANTS
  Procs,          \* the programs that may upgrade: MCP, scanner, hooks, CLI
  Shell,          \* those running the shell twin of the protocol
  Tokened,        \* those whose release passes the token (archive-update-cli)
  Leavers,        \* those that end without a release (the Node SessionStart hook)
  None,           \* no file; also the text of a file nobody has stamped yet
  Ghost,          \* the token and identity of a run that no longer exists
  MaxFaults       \* bound on kills, failed token writes and overruns

ASSUME KindAssumption ==
  /\ Shell \subseteq Procs
  /\ Tokened \subseteq Procs
  /\ Leavers \subseteq Procs
  /\ Tokened \cap Leavers = {}

ASSUME NameAssumption == None \notin Procs /\ Ghost \notin Procs /\ None # Ghost

ASSUME BoundAssumption == MaxFaults \in Nat

VARIABLES
  lock,     \* the file .update-lock
  marker,   \* the file .update-lock.reclaim
  parked,   \* parked[p]: the file .update-lock.reclaim.dead.<pid of p>
  pc,       \* pc[p]: the next file access of p
  faults,   \* kills, failed writes and overruns so far
  residual  \* a live run has outlasted STALE_MS or one died with the marker:
            \* the two holes update-lock.js says are not closed (history only)

vars == <<lock, marker, parked, pc, faults, residual>>

Owners == Procs \cup {None, Ghost}
File   == [by : Owners, text : Owners, stale : BOOLEAN]

Absent   == [by |-> None, text |-> None, stale |-> FALSE]
Blank(p) == [by |-> p, text |-> None, stale |-> FALSE]

Exists(f)  == f.by # None
IsStale(f) == Exists(f) /\ f.stale                       \* ageMs(f) > staleMs
StillOurs(f, p) == Exists(f) /\ f.text = p

\* A new run of p has a new pid and mints new tokens: what an earlier run of
\* p left behind is not its own.
Disowned(f, p) ==
  [f EXCEPT !.by = IF f.by = p THEN Ghost ELSE f.by,
            !.text = IF f.text = p THEN Ghost ELSE f.text]

ReclaimPcs == {"stampMarker", "recheck", "own", "unlink", "leave", "drop"}
LockPcs    == {"stampLock", "verify", "hold", "releaseCheck", "release"}
HoldPcs    == {"hold", "releaseCheck", "release"}
Pcs == {"idle", "lockAge", "markerAge", "park", "parkedAge", "claim", "create"}
         \cup ReclaimPcs \cup LockPcs

\* The run that made or stamped the file is still inside the section it is for.
LiveLock   == \E p \in Procs : pc[p] \in LockPcs /\ p \in {lock.by, lock.text}
LiveMarker == \E p \in Procs : pc[p] \in ReclaimPcs /\ p \in {marker.by, marker.text}

DeadLock   == Exists(lock) /\ ~LiveLock
DeadMarker == Exists(marker) /\ ~LiveMarker

Goto(p, l) == pc' = [pc EXCEPT ![p] = l]

\* reclaimIfStale returns: the module goes on to create the lock, the shell
\* function returns 1 and the caller gives up.
StandDown(p) == Goto(p, IF p \in Shell THEN "idle" ELSE "create")

Init ==
  /\ lock \in {Absent, [by |-> Ghost, text |-> Ghost, stale |-> TRUE]}
  /\ marker = Absent
  /\ parked = [p \in Procs |-> Absent]
  /\ pc = [p \in Procs |-> "idle"]
  /\ faults = 0
  /\ residual = FALSE

Start(p) ==
  /\ pc[p] = "idle"
  /\ Goto(p, "lockAge")
  /\ lock' = Disowned(lock, p)
  /\ marker' = Disowned(marker, p)
  /\ UNCHANGED <<parked, faults, residual>>

\* Mutant: a lock never expires.
NeverExpires(p) ==
  /\ pc[p] = "lockAge"
  /\ Goto(p, "create")
  /\ UNCHANGED <<lock, marker, parked, faults, residual>>

ReadLockAge(p) ==
  /\ pc[p] = "lockAge"
  /\ Goto(p, IF IsStale(lock) THEN "markerAge" ELSE "create")
  /\ UNCHANGED <<lock, marker, parked, faults, residual>>

ReadMarkerAge(p) ==
  /\ pc[p] = "markerAge"
  /\ Goto(p, IF IsStale(marker) THEN "park" ELSE "claim")
  /\ UNCHANGED <<lock, marker, parked, faults, residual>>

\* rename(marker, marker.dead.pid): takes whatever is at the path now.
ParkMarker(p) ==
  /\ pc[p] = "park"
  /\ IF Exists(marker)
       THEN /\ parked' = [parked EXCEPT ![p] = marker]
            /\ marker' = Absent
            /\ Goto(p, "parkedAge")
       ELSE /\ StandDown(p)
            /\ UNCHANGED <<marker, parked>>
  /\ UNCHANGED <<lock, faults, residual>>

\* The age of what was moved decides; the moved file is deleted either way.
CheckParked(p) ==
  /\ pc[p] = "parkedAge"
  /\ parked' = [parked EXCEPT ![p] = Absent]
  /\ IF IsStale(parked[p]) THEN Goto(p, "claim") ELSE StandDown(p)
  /\ UNCHANGED <<lock, marker, faults, residual>>

ClaimMarker(p) ==
  /\ pc[p] = "claim"
  /\ IF Exists(marker)
       THEN Goto(p, "create") /\ UNCHANGED marker
       ELSE Goto(p, "stampMarker") /\ marker' = Blank(p)
  /\ UNCHANGED <<lock, parked, faults, residual>>

\* A token goes through the descriptor in the module (a replaced file is not
\* touched) and through the path in the shell (which writes whatever is
\* there, or makes the file again).
Stamped(f, p) ==
  IF p \in Shell THEN [by    |-> IF Exists(f) THEN f.by ELSE p,
                       text  |-> p,
                       stale |-> FALSE]
  ELSE IF f.by = p THEN [f EXCEPT !.text = p, !.stale = FALSE]
  ELSE f

StampMarker(p) ==
  /\ pc[p] = "stampMarker"
  /\ marker' = Stamped(marker, p)
  /\ Goto(p, "recheck")
  /\ UNCHANGED <<lock, parked, faults, residual>>

\* A write that fails (full disk) takes the file at the path with it.
StampMarkerFails(p) ==
  /\ pc[p] = "stampMarker"
  /\ faults < MaxFaults
  /\ faults' = faults + 1
  /\ marker' = Absent
  /\ Goto(p, "create")
  /\ UNCHANGED <<lock, parked, residual>>

RecheckLockAge(p) ==
  /\ pc[p] = "recheck"
  /\ Goto(p, IF IsStale(lock) THEN "own" ELSE "leave")
  /\ UNCHANGED <<lock, marker, parked, faults, residual>>

CheckMarkerOurs(p) ==
  /\ pc[p] = "own"
  /\ Goto(p, IF StillOurs(marker, p) THEN "unlink" ELSE "leave")
  /\ UNCHANGED <<lock, marker, parked, faults, residual>>

UnlinkStaleLock(p) ==
  /\ pc[p] = "unlink"
  /\ lock' = Absent
  /\ Goto(p, "leave")
  /\ UNCHANGED <<marker, parked, faults, residual>>

LeaveReclaim(p) ==
  /\ pc[p] = "leave"
  /\ Goto(p, IF StillOurs(marker, p) THEN "drop" ELSE "create")
  /\ UNCHANGED <<lock, marker, parked, faults, residual>>

DropMarker(p) ==
  /\ pc[p] = "drop"
  /\ marker' = Absent
  /\ Goto(p, "create")
  /\ UNCHANGED <<lock, parked, faults, residual>>

\* Mutant: touch, which succeeds on a file that already exists.
TouchLock(p) ==
  /\ pc[p] = "create"
  /\ Goto(p, "stampLock")
  /\ lock' = IF Exists(lock) THEN lock ELSE Blank(p)
  /\ UNCHANGED <<marker, parked, faults, residual>>

\* lock_held when somebody else's file is at the path.
CreateLock(p) ==
  /\ pc[p] = "create"
  /\ IF Exists(lock)
       THEN Goto(p, "idle") /\ UNCHANGED lock
       ELSE Goto(p, "stampLock") /\ lock' = Blank(p)
  /\ UNCHANGED <<marker, parked, faults, residual>>

StampLock(p) ==
  /\ pc[p] = "stampLock"
  /\ lock' = Stamped(lock, p)
  /\ Goto(p, "verify")
  /\ UNCHANGED <<marker, parked, faults, residual>>

StampLockFails(p) ==
  /\ pc[p] = "stampLock"
  /\ faults < MaxFaults
  /\ faults' = faults + 1
  /\ lock' = Absent
  /\ Goto(p, "idle")
  /\ UNCHANGED <<marker, parked, residual>>

\* acquired, or displaced when the file at the path reads as another's.
VerifyLock(p) ==
  /\ pc[p] = "verify"
  /\ Goto(p, IF StillOurs(lock, p) THEN "hold" ELSE "idle")
  /\ UNCHANGED <<lock, marker, parked, faults, residual>>

\* keepAlive of an archive update: utimes on the path, whoever's file it is.
KeepAlive(p) ==
  /\ pc[p] = "hold"
  /\ p \notin Shell \cup Leavers
  /\ IsStale(lock)
  /\ lock' = [lock EXCEPT !.stale = FALSE]
  /\ UNCHANGED <<marker, parked, pc, faults, residual>>

\* The upgrade is over.  With a token the release first reads the file.  A
\* leaver takes this way out too, when its update script is missing.
FinishUpgrade(p) ==
  /\ pc[p] = "hold"
  /\ Goto(p, IF p \in Tokened THEN "releaseCheck" ELSE "release")
  /\ UNCHANGED <<lock, marker, parked, faults, residual>>

\* The Node hook's detached child ends and nobody removes the lock.
LeaveLockBehind(p) ==
  /\ pc[p] = "hold"
  /\ p \in Leavers
  /\ Goto(p, "idle")
  /\ UNCHANGED <<lock, marker, parked, faults, residual>>

CheckReleaseOurs(p) ==
  /\ pc[p] = "releaseCheck"
  /\ Goto(p, IF StillOurs(lock, p) THEN "release" ELSE "idle")
  /\ UNCHANGED <<lock, marker, parked, faults, residual>>

ReleaseLock(p) ==
  /\ pc[p] = "release"
  /\ lock' = Absent
  /\ Goto(p, "idle")
  /\ UNCHANGED <<marker, parked, faults, residual>>

\* The run is killed at any point; its files stay behind.
Crash(p) ==
  /\ pc[p] # "idle"
  /\ faults < MaxFaults
  /\ faults' = faults + 1
  /\ residual' = (residual \/ pc[p] \in ReclaimPcs)
  /\ parked' = [parked EXCEPT ![p] = Absent]
  /\ Goto(p, "idle")
  /\ UNCHANGED <<lock, marker>>

\* A live run is slow, or the machine sleeps: its file outlives STALE_MS.
Overrun == faults < MaxFaults /\ faults' = faults + 1 /\ residual' = TRUE

\* STALE_MS passes since the file was last written.
AgeLock ==
  /\ Exists(lock) /\ ~lock.stale
  /\ IF LiveLock THEN Overrun ELSE UNCHANGED <<faults, residual>>
  /\ lock' = [lock EXCEPT !.stale = TRUE]
  /\ UNCHANGED <<marker, parked, pc>>

AgeMarker ==
  /\ Exists(marker) /\ ~marker.stale
  /\ IF LiveMarker THEN Overrun ELSE UNCHANGED <<faults, residual>>
  /\ marker' = [marker EXCEPT !.stale = TRUE]
  /\ UNCHANGED <<lock, parked, pc>>

Reclaim(p) ==
  \/ ReadLockAge(p) \/ ReadMarkerAge(p) \/ ParkMarker(p) \/ CheckParked(p)
  \/ ClaimMarker(p) \/ StampMarker(p) \/ RecheckLockAge(p)
  \/ CheckMarkerOurs(p) \/ UnlinkStaleLock(p) \/ LeaveReclaim(p) \/ DropMarker(p)

Acquire(p) == CreateLock(p) \/ StampLock(p) \/ VerifyLock(p)

Release(p) ==
  FinishUpgrade(p) \/ LeaveLockBehind(p) \/ CheckReleaseOurs(p) \/ ReleaseLock(p)

Fault(p) == StampMarkerFails(p) \/ StampLockFails(p) \/ Crash(p)

Next ==
  \/ \E p \in Procs :
       Start(p) \/ Reclaim(p) \/ Acquire(p) \/ KeepAlive(p) \/ Release(p) \/ Fault(p)
  \/ AgeLock
  \/ AgeMarker

Spec == Init /\ [][Next]_vars

\* Programs run to completion, a contender always comes back (the scanner
\* every two hours, a hook every session), and files grow old.
Fairness ==
  /\ \A p \in Procs : WF_vars(Start(p) \/ Reclaim(p) \/ Acquire(p) \/ Release(p))
  /\ WF_vars(AgeLock)
  /\ WF_vars(AgeMarker)

FairSpec == Spec /\ Fairness

-----------------------------------------------------------------------------
\* Every variable stays in its domain.
TypeOK ==
  /\ lock \in File
  /\ marker \in File
  /\ parked \in [Procs -> File]
  /\ pc \in [Procs -> Pcs]
  /\ faults \in 0..MaxFaults
  /\ residual \in BOOLEAN

Holding == {p \in Procs : pc[p] \in HoldPcs}

\* At most one program upgrades the directory at a time: what the lock is
\* for.  Claimed until a live run outlasts STALE_MS or one is killed while it
\* holds the reclaim marker; update-lock.js says itself that a leaked marker
\* leaves a residual.
MutualExclusion == residual \/ \A p, q \in Holding : p = q

\* A program that believes it holds the lock finds its own token at the path:
\* nobody deleted or replaced the lock of a live run.
HolderOnDisk == residual \/ \A p \in Holding : StillOurs(lock, p)

\* At most one reclaimer is between the proof that it owns the marker and the
\* deletion it licenses (update-lock.js, "Only one process deletes at a time").
OneDeleter ==
  residual \/ \A p, q \in Procs : pc[p] = "unlink" /\ pc[q] = "unlink" => p = q

\* What a reclaimer is about to unlink is still a lock nobody uses: the age
\* it re-read has not gone out of date by the time it deletes.
DeletesOnlyDead ==
  residual \/ \A p \in Procs : pc[p] = "unlink" => IsStale(lock) /\ ~LiveLock

\* The lock implements the mutual exclusion its header promises, as long as
\* there is no residual (then the mapping shows an abstract lock nobody holds).
Holders == IF residual THEN {} ELSE Holding
Mutex == INSTANCE UpgradeMutex WITH holders <- Holders
ImplementsMutex == Mutex!Spec

\* A program that ends its upgrade never deletes the lock of another that holds
\* it (releaseUpdateLock: "an unconditional unlink deletes the *reclaimer's*
\* lock"; "With a token, a release that is no longer ours is a no-op").
ReleaseSparesOthers ==
  [][\A p \in Procs :
       pc[p] = "release" /\ pc'[p] = "idle" /\ lock' # lock => lock.by \notin Holding \ {p}]_vars

\* A dead run's lock does not block upgrades for ever: some program removes it.
DeadLockReclaimed == DeadLock ~> ~DeadLock
=============================================================================
