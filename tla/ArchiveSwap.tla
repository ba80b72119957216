----------------------------- MODULE ArchiveSwap -----------------------------
(***************************************************************************)
(* The update of a machine installed from a release archive:               *)
(* runArchiveUpdate in shared/archive-update.js.  A release is staged in   *)
(* .next, then swapped into the live tree entry by entry under a journal   *)
(* on disk, so a run that is blocked, fails or is killed is resumed by the *)
(* next one; then the host is reconfigured.                                *)
(*                                                                         *)
(* The top-level entries of a release are numbered in the order codeEntries *)
(* gives them: the imported folders 1..NFirst first, `.release` (N) last.  *)
(* Each rename, copy and journal write is a step; a run may be killed      *)
(* between any two.  Runs exclude one another by the update lock.          *)
(***************************************************************************)
EXTENDS Naturals

CONSTANTS
  N,            \* number of entries; entry N is the file .release
  NFirst,       \* entries 1..NFirst are shared, src and mcp
  MaxRelease,   \* the releases are 0..MaxRelease; 0 is the one installed first
  Ships,        \* Ships[v]: the entries release v has
  None,         \* no such entry in that folder
  MaxFaults     \* bound on failed renames, writes, downloads, kills, roll-backs

Entries  == 1..N
Imports  == 1..NFirst
Releases == 0..MaxRelease

ASSUME SizeAssumption ==
  /\ N \in Nat \ {0} /\ NFirst \in 0..(N - 1)
  /\ MaxRelease \in Nat /\ MaxFaults \in Nat

\* isCompleteTree: what is staged has a .release.
ASSUME ShipsAssumption ==
  Ships \in [Releases -> SUBSET Entries] /\ \A v \in Releases : N \in Ships[v]

ASSUME NoneAssumption == None \notin Releases

VARIABLES
  live,       \* live[e]: the release of entry e in ~/.ownmind
  next,       \* next[e]: the same in .next
  prev,       \* prev[e]: the same in .prev
  journal,    \* .swap-journal.json
  mem,        \* the journal object of the run in progress
  pc,         \* the next step of the run
  pending,    \* .reconfigure-pending exists
  configured, \* the release the host was last reconfigured from
  server,     \* the release the server ships
  faults,
  disturbed   \* which of Disturbances have happened so far (history only)

vars == <<live, next, prev, journal, mem, pc, pending, configured, server, faults, disturbed>>

\* What the code has no answer to: an entry taken out of .next by something
\* else, an older release on the server, and a run that is killed or whose
\* installer fails when the journal is gone and there is no pending note, yet
\* or because it could not be written.
Disturbances == {"lost", "rolledBack", "unnoted"}

Tree      == [Entries -> Releases \cup {None}]
EmptyTree == [e \in Entries |-> None]
Journals  == [on : BOOLEAN, to : Releases, done : SUBSET Entries]
NoJournal == [on |-> FALSE, to |-> 0, done |-> {}]
Pcs == {"idle", "check", "download", "prepare", "entry", "place", "mark",
        "unlinkJournal", "removeNext", "notePending", "install", "clearPending"}

InstalledRelease == live[N]

Remaining == Ships[mem.to] \ mem.done
\* Mutant: the order of the directory listing, whatever it is.
Unordered(e) == e \in Remaining

Current(e) == e \in Remaining /\ \A f \in Remaining : e <= f

Fault == faults < MaxFaults /\ faults' = faults + 1

Init ==
  /\ live = [e \in Entries |-> IF e \in Ships[0] THEN 0 ELSE None]
  /\ next = EmptyTree
  /\ prev = EmptyTree
  /\ journal = NoJournal
  /\ mem = NoJournal
  /\ pc = "idle"
  /\ pending = FALSE
  /\ configured = 0
  /\ server = 0
  /\ faults = 0
  /\ disturbed = {}

\* A release goes out on the server, at any time.
Publish ==
  /\ server < MaxRelease
  /\ server' = server + 1
  /\ UNCHANGED <<live, next, prev, journal, mem, pc, pending, configured, faults, disturbed>>

\* A bad release is withdrawn: the server ships an older one again.
RollBack ==
  /\ Fault
  /\ disturbed' = disturbed \cup {"rolledBack"}
  /\ server' \in 0..(server - 1)
  /\ UNCHANGED <<live, next, prev, journal, mem, pc, pending, configured>>

-----------------------------------------------------------------------------
\* Mutant: a journal on disk is not looked for.
BeginAnew ==
  /\ pc = "idle"
  /\ mem' = journal
  /\ pc' = "check"
  /\ UNCHANGED <<live, next, prev, journal, pending, configured, server, faults, disturbed>>

\* A journal on disk is resumed before anything is asked of the server.
Begin ==
  /\ pc = "idle"
  /\ mem' = journal
  /\ pc' = IF journal.on THEN "entry" ELSE "check"
  /\ UNCHANGED <<live, next, prev, journal, pending, configured, server, faults, disturbed>>

UpToDate == server <= InstalledRelease

\* The installer that failed after an earlier swap is run again.
RetryReconfigure ==
  /\ pc = "check"
  /\ UpToDate /\ pending
  /\ mem' = [mem EXCEPT !.to = InstalledRelease]
  /\ pc' = "notePending"
  /\ UNCHANGED <<live, next, prev, journal, pending, configured, server, faults, disturbed>>

\* Mutant: the pending file is not looked for.
CurrentAnyway ==
  /\ pc = "check"
  /\ UpToDate
  /\ next' = EmptyTree
  /\ pc' = "idle"
  /\ UNCHANGED <<live, prev, journal, mem, pending, configured, server, faults, disturbed>>

\* CLEAN; without a journal, what is in .next is a crashed staging.
AlreadyCurrent ==
  /\ pc = "check"
  /\ UpToDate /\ ~pending
  /\ next' = EmptyTree
  /\ pc' = "idle"
  /\ UNCHANGED <<live, prev, journal, mem, pending, configured, server, faults, disturbed>>

StartStaging ==
  /\ pc = "check"
  /\ ~UpToDate
  /\ next' = EmptyTree
  /\ pc' = "download"
  /\ UNCHANGED <<live, prev, journal, mem, pending, configured, server, faults, disturbed>>

CheckFails ==
  /\ pc = "check"
  /\ Fault
  /\ pc' = "idle"
  /\ UNCHANGED <<live, next, prev, journal, mem, pending, configured, server, disturbed>>

\* Download, unpack and npm, all inside .next; the release staged is the one
\* the archive names, which need not be the one the check saw.
Stage ==
  /\ pc = "download"
  /\ next' = [e \in Entries |-> IF e \in Ships[server] THEN server ELSE None]
  /\ mem' = [on |-> TRUE, to |-> server, done |-> {}]
  /\ pc' = "prepare"
  /\ UNCHANGED <<live, prev, journal, pending, configured, server, faults, disturbed>>

\* Any failure before the first rename removes the staging.
StagingFails ==
  /\ pc \in {"download", "prepare"}
  /\ Fault
  /\ next' = EmptyTree
  /\ prev' \in IF pc = "prepare" THEN {prev, EmptyTree} ELSE {prev}
  /\ pc' = "idle"
  /\ UNCHANGED <<live, journal, mem, pending, configured, server, disturbed>>

OpenJournal ==
  /\ pc = "prepare"
  /\ prev' = EmptyTree
  /\ journal' = mem
  /\ pc' = "entry"
  /\ UNCHANGED <<live, next, mem, pending, configured, server, faults, disturbed>>

-----------------------------------------------------------------------------
\* Mutant: the old copy is deleted.
DeleteOld(e) ==
  /\ pc = "entry" /\ Current(e)
  /\ next[e] # None
  /\ live' = IF e = N THEN live ELSE [live EXCEPT ![e] = None]
  /\ pc' = "place"
  /\ UNCHANGED <<next, prev, journal, mem, pending, configured, server, faults, disturbed>>

\* runJournal, one entry.  The live copy is moved to .prev; .release is only
\* copied there, so a live one is never missing.
Park(e) ==
  /\ pc = "entry" /\ Current(e)
  /\ next[e] # None
  /\ prev' = IF live[e] # None THEN [prev EXCEPT ![e] = live[e]] ELSE prev
  /\ live' = IF e = N THEN live ELSE [live EXCEPT ![e] = None]
  /\ pc' = "place"
  /\ UNCHANGED <<next, journal, mem, pending, configured, server, faults, disturbed>>

\* Mutant: a blocked rename is swallowed and the entry counts as done.
SkipBlocked(e) ==
  /\ pc = "entry" /\ Current(e)
  /\ next[e] # None
  /\ Fault
  /\ pc' = "mark"
  /\ UNCHANGED <<live, next, prev, journal, mem, pending, configured, server, disturbed>>

\* EBUSY on the first rename: swap_pending, the journal stays.  What was parked
\* before may have been removed for it.
ParkFails(e) ==
  /\ pc = "entry" /\ Current(e)
  /\ next[e] # None
  /\ Fault
  /\ \/ UNCHANGED prev
     \/ e # N /\ live[e] # None /\ prev' = [prev EXCEPT ![e] = None]
  /\ pc' = "idle"
  /\ UNCHANGED <<live, next, journal, mem, pending, configured, server, disturbed>>

Place(e) ==
  /\ pc = "place" /\ Current(e)
  /\ live' = [live EXCEPT ![e] = next[e]]
  /\ next' = [next EXCEPT ![e] = None]
  /\ pc' = "mark"
  /\ UNCHANGED <<prev, journal, mem, pending, configured, server, faults, disturbed>>

\* The second rename fails: the old copy goes back, unless that fails too.
PlaceFails(e) ==
  /\ pc = "place" /\ Current(e)
  /\ Fault
  /\ \/ /\ live[e] = None /\ prev[e] # None
        /\ live' = [live EXCEPT ![e] = prev[e]]
        /\ prev' = [prev EXCEPT ![e] = None]
     \/ UNCHANGED <<live, prev>>
  /\ pc' = "idle"
  /\ UNCHANGED <<next, journal, mem, pending, configured, server, disturbed>>

\* The staged copy is not there: either both renames of this entry happened
\* before the journal could say so, or it is lost and the old one goes back.
AlreadyPlaced(e) ==
  /\ pc = "entry" /\ Current(e)
  /\ next[e] = None
  /\ live[e] # None \/ prev[e] = None
  /\ pc' = "mark"
  /\ UNCHANGED <<live, next, prev, journal, mem, pending, configured, server, faults, disturbed>>

RestoreParked(e) ==
  /\ pc = "entry" /\ Current(e)
  /\ next[e] = None /\ live[e] = None /\ prev[e] # None
  /\ live' = [live EXCEPT ![e] = prev[e]]
  /\ prev' = [prev EXCEPT ![e] = None]
  /\ pc' = "mark"
  /\ UNCHANGED <<next, journal, mem, pending, configured, server, faults, disturbed>>

\* swap_restore.
RestoreFails(e) ==
  /\ pc = "entry" /\ Current(e)
  /\ next[e] = None /\ live[e] = None /\ prev[e] # None
  /\ Fault
  /\ pc' = "idle"
  /\ UNCHANGED <<live, next, prev, journal, mem, pending, configured, server, disturbed>>

\* A journal write that fails is ignored: the run goes on.
MarkDone(e) ==
  /\ pc = "mark" /\ Current(e)
  /\ mem' = [mem EXCEPT !.done = @ \cup {e}]
  /\ \/ journal' = mem' /\ UNCHANGED faults
     \/ UNCHANGED journal /\ Fault
  /\ pc' = "entry"
  /\ UNCHANGED <<live, next, prev, pending, configured, server, disturbed>>

AllDone ==
  /\ pc = "entry"
  /\ Remaining = {}
  /\ pc' = "unlinkJournal"
  /\ UNCHANGED <<live, next, prev, journal, mem, pending, configured, server, faults, disturbed>>

\* A failure of either removal is ignored.
UnlinkJournal ==
  /\ pc = "unlinkJournal"
  /\ \/ journal' = NoJournal /\ UNCHANGED faults
     \/ UNCHANGED journal /\ Fault
  /\ pc' = "removeNext"
  /\ UNCHANGED <<live, next, prev, mem, pending, configured, server, disturbed>>

RemoveNext ==
  /\ pc = "removeNext"
  /\ \/ next' = EmptyTree /\ UNCHANGED faults
     \/ UNCHANGED next /\ Fault
  /\ pc' = "notePending"
  /\ UNCHANGED <<live, prev, journal, mem, pending, configured, server, disturbed>>

-----------------------------------------------------------------------------
\* runInstaller: the pending file is there from before the installer starts
\* until it has succeeded, unless it cannot be written: "best effort".
NotePending ==
  /\ pc = "notePending"
  /\ \/ pending' = TRUE /\ UNCHANGED faults
     \/ UNCHANGED pending /\ Fault
  /\ pc' = "install"
  /\ UNCHANGED <<live, next, prev, journal, mem, configured, server, disturbed>>

\* The run stops with nothing on the disk that says it was to reconfigure.
Unnoted == pc \in {"removeNext", "notePending", "install"} /\ ~journal.on /\ ~pending
StopsHere == disturbed' = IF Unnoted THEN disturbed \cup {"unnoted"} ELSE disturbed

RunInstaller ==
  /\ pc = "install"
  /\ configured' = mem.to
  /\ pc' = "clearPending"
  /\ UNCHANGED <<live, next, prev, journal, mem, pending, server, faults, disturbed>>

\* Mutant: the pending file is removed in a finally.
ForgetPending ==
  /\ pc = "install"
  /\ Fault
  /\ pending' = FALSE
  /\ pc' = "idle"
  /\ UNCHANGED <<live, next, prev, journal, mem, configured, server, disturbed>>

InstallerFails ==
  /\ pc = "install"
  /\ Fault /\ StopsHere
  /\ pc' = "idle"
  /\ UNCHANGED <<live, next, prev, journal, mem, pending, configured, server>>

\* A note that cannot be removed has the installer run once more.
ClearPending ==
  /\ pc = "clearPending"
  /\ \/ pending' = FALSE /\ UNCHANGED faults
     \/ UNCHANGED pending /\ Fault
  /\ pc' = "idle"
  /\ UNCHANGED <<live, next, prev, journal, mem, configured, server, disturbed>>

-----------------------------------------------------------------------------
Crash ==
  /\ pc # "idle"
  /\ Fault /\ StopsHere
  /\ pc' = "idle"
  /\ UNCHANGED <<live, next, prev, journal, mem, pending, configured, server>>

\* Something else removes an entry of .next (a quarantine, a person).
LoseStaged(e) ==
  /\ pc = "idle"
  /\ next[e] # None
  /\ Fault
  /\ disturbed' = disturbed \cup {"lost"}
  /\ next' = [next EXCEPT ![e] = None]
  /\ UNCHANGED <<live, prev, journal, mem, pc, pending, configured, server>>

SwapEntry(e) ==
  \/ Park(e) \/ Place(e) \/ AlreadyPlaced(e) \/ RestoreParked(e) \/ MarkDone(e)

Run ==
  \/ Begin \/ RetryReconfigure \/ AlreadyCurrent \/ StartStaging \/ Stage
  \/ OpenJournal
  \/ \E e \in Entries : SwapEntry(e)
  \/ AllDone \/ UnlinkJournal \/ RemoveNext
  \/ NotePending \/ RunInstaller \/ ClearPending

Failure ==
  \/ CheckFails \/ StagingFails \/ InstallerFails \/ Crash \/ RollBack
  \/ \E e \in Entries : ParkFails(e) \/ PlaceFails(e) \/ RestoreFails(e) \/ LoseStaged(e)

Next == Run \/ Failure \/ Publish

Spec == Init /\ [][Next]_vars

\* The scanner starts a run every two hours and a run goes on until it ends.
FairSpec == Spec /\ WF_vars(Run)
=============================================================================
