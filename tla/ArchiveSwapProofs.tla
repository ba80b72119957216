-------------------------- MODULE ArchiveSwapProofs --------------------------
(***************************************************************************)
(* For every number of entries and releases, and any number of kills and   *)
(* failed renames: the live tree always has a .release, .release tells the *)
(* truth about the other entries, and an interrupted swap can be finished  *)
(* from what is on the disk, until something else removes files from .next *)
(* or a release is withdrawn; and no entry is lost even then.  Until then  *)
(* it implements ReleaseInstall.                                           *)
(***************************************************************************)
EXTENDS ArchiveSwapProps, TLAPS

Whole(v) == \A e \in Ships[v] : live[e] = v

(* The journal on the disk: each of its entries is staged and not yet live,
   or live and no longer staged; what it calls done is live; .prev holds
   older copies only. *)
JournalInv ==
  journal.on =>
    /\ \A e \in Ships[journal.to] :
         \/ next[e] = journal.to /\ live[e] # journal.to
         \/ next[e] = None /\ live[e] = journal.to
    /\ \A e \in journal.done : live[e] = journal.to
    /\ \A e \in Entries : prev[e] # None => prev[e] < journal.to
    /\ live[N] = journal.to => Whole(journal.to)

(* Without a journal the tree is the release it names. *)
BaseInv == ~journal.on => Whole(live[N])

(* No live entry is newer than what the journal, or .release, names. *)
LiveBound ==
  \A e \in Entries : live[e] # None =>
    /\ journal.on => live[e] <= journal.to
    /\ ~journal.on => live[e] <= live[N]

(* What the run in progress knows. *)
RunInv ==
  /\ pc \in {"check", "download", "prepare"} => ~journal.on
  /\ pc = "download" => server > live[N]
  /\ pc = "prepare" =>
       /\ mem.on /\ mem.to > live[N] /\ mem.done = {}
       /\ \A e \in Entries : next[e] = IF e \in Ships[mem.to] THEN mem.to ELSE None
  /\ pc \in {"entry", "place", "mark", "unlinkJournal"} =>
       /\ mem.on /\ journal.on /\ journal.to = mem.to
       /\ \A e \in mem.done : live[e] = mem.to
  /\ pc = "mark" => \A e \in Entries : Current(e) => live[e] = mem.to
  /\ pc = "unlinkJournal" => Remaining = {}
  /\ pc = "removeNext" /\ journal.on => Whole(journal.to)

(* What is renamed into the live tree is there. *)
PlaceStaged == pc = "place" => \A e \in Entries : Current(e) => next[e] # None

BasicInv == TypeOK /\ ReleaseAlwaysLive /\ PlaceStaged
IInv     == BasicInv /\ JournalInv /\ BaseInv /\ LiveBound /\ RunInv

-----------------------------------------------------------------------------
LEMMA NInEntries ==
  /\ N \in Entries
  /\ \A e \in Entries : e \in Nat
  /\ \A v \in Releases : v \in Nat
  BY SizeAssumption DEF Entries, Releases

LEMMA NoJournalType == NoJournal \in Journals /\ ~NoJournal.on
  BY SizeAssumption DEF NoJournal, Journals, Releases

LEMMA InitInv == Init => IInv
<1> SUFFICES ASSUME Init PROVE IInv
  OBVIOUS
<1> USE SizeAssumption, ShipsAssumption, NoneAssumption, NInEntries, NoJournalType
<1>1. 0 \in Releases /\ N \in Ships[0] /\ Ships[0] \subseteq Entries
  BY DEF Releases
<1>2. live \in Tree /\ \A e \in Entries : live[e] = IF e \in Ships[0] THEN 0 ELSE None
  <2>1. live = [e \in Entries |-> IF e \in Ships[0] THEN 0 ELSE None]
    BY DEF Init
  <2>2. \A e \in Entries : (IF e \in Ships[0] THEN 0 ELSE None) \in Releases \cup {None}
    BY <1>1
  <2> QED BY <2>1, <2>2 DEF Tree
<1>3. EmptyTree \in Tree
  BY DEF EmptyTree, Tree
<1>4. TypeOK
  <2>1. live \in Tree /\ next \in Tree /\ prev \in Tree
    BY <1>2, <1>3 DEF Init
  <2>2. journal \in Journals /\ mem \in Journals
    BY DEF Init
  <2>3. pc \in Pcs /\ pending \in BOOLEAN
    BY DEF Init, Pcs
  <2>4. configured \in Releases /\ server \in Releases /\ faults \in 0..MaxFaults
    BY <1>1 DEF Init
  <2>5. disturbed \subseteq Disturbances
    BY DEF Init
  <2> QED BY <2>1, <2>2, <2>3, <2>4, <2>5 DEF TypeOK
<1>5. live[N] = 0
  BY <1>1, <1>2
<1>6. ReleaseAlwaysLive /\ PlaceStaged
  BY <1>1, <1>5 DEF Init, ReleaseAlwaysLive, PlaceStaged
<1>7. BaseInv
  BY <1>1, <1>2, <1>5 DEF BaseInv, Whole
<1>8. LiveBound
  <2>1. ~journal.on
    BY DEF Init
  <2>2. ASSUME NEW e \in Entries, live[e] # None PROVE live[e] <= live[N]
    BY <1>2, <1>5, <2>2
  <2> QED BY <2>1, <2>2 DEF LiveBound
<1>9. JournalInv /\ RunInv
  <2>1. ~journal.on /\ pc = "idle"
    BY DEF Init
  <2> QED BY <2>1 DEF JournalInv, RunInv
<1> QED BY <1>4, <1>6, <1>7, <1>8, <1>9 DEF IInv, BasicInv

(* Whatever fails and whatever is removed from .next, the domains hold and the
   live tree has a .release: inductive by itself. *)
LEMMA BasicStep == BasicInv /\ [Next]_vars => BasicInv'
<1> SUFFICES ASSUME BasicInv, [Next]_vars PROVE BasicInv'
  OBVIOUS
<1> USE SizeAssumption, ShipsAssumption, NoneAssumption, NInEntries, NoJournalType
    DEF BasicInv, TypeOK, ReleaseAlwaysLive, PlaceStaged, Tree, EmptyTree, Pcs
<1>0. ASSUME Fault PROVE faults' \in 0..MaxFaults
  BY <1>0 DEF Fault
<1> USE DEF Disturbances
<1>1. ASSUME Publish PROVE BasicInv'
  BY <1>1 DEF Publish, Releases, Current, Remaining
<1>2. ASSUME Begin \/ RetryReconfigure \/ AlreadyCurrent \/ StartStaging PROVE BasicInv'
  <2>1. CASE Begin BY <2>1 DEF Begin
  <2>2. CASE RetryReconfigure
    <3>1. mem' \in Journals
      BY <2>2 DEF RetryReconfigure, InstalledRelease, Journals
    <3> QED BY <2>2, <3>1 DEF RetryReconfigure
  <2>3. CASE AlreadyCurrent BY <2>3 DEF AlreadyCurrent
  <2>4. CASE StartStaging BY <2>4 DEF StartStaging
  <2> QED BY <1>2, <2>1, <2>2, <2>3, <2>4
<1>3. ASSUME Stage \/ OpenJournal PROVE BasicInv'
  <2>1. CASE Stage
    <3>1. mem' \in Journals
      BY <2>1 DEF Stage, Journals
    <3> QED BY <2>1, <3>1 DEF Stage
  <2>2. CASE OpenJournal BY <2>2 DEF OpenJournal
  <2> QED BY <1>3, <2>1, <2>2
<1>4. ASSUME NEW e \in Entries, SwapEntry(e) PROVE BasicInv'
  <2>0. ASSUME NEW f \in Entries, Current(e), Current(f) PROVE e = f
    BY <2>0 DEF Current
  <2>1. CASE Park(e)
    <3>1. PlaceStaged'
      BY <2>1, <2>0 DEF Park, Current, Remaining
    <3> QED BY <2>1, <3>1 DEF Park
  <2>2. CASE Place(e) BY <2>2 DEF Place
  <2>3. CASE AlreadyPlaced(e) BY <2>3 DEF AlreadyPlaced
  <2>4. CASE RestoreParked(e) BY <2>4 DEF RestoreParked
  <2>5. CASE MarkDone(e)
    <3>1. mem' \in Journals
      BY <2>5 DEF MarkDone, Journals
    <3>2. journal' \in Journals /\ faults' \in 0..MaxFaults
      BY <2>5, <3>1, <1>0 DEF MarkDone
    <3> QED BY <2>5, <3>1, <3>2 DEF MarkDone
  <2> QED BY <1>4, <2>1, <2>2, <2>3, <2>4, <2>5 DEF SwapEntry
<1>5. ASSUME AllDone \/ UnlinkJournal \/ RemoveNext PROVE BasicInv'
  <2>1. CASE AllDone BY <2>1 DEF AllDone
  <2>2. CASE UnlinkJournal BY <2>2, <1>0 DEF UnlinkJournal
  <2>3. CASE RemoveNext BY <2>3, <1>0 DEF RemoveNext
  <2> QED BY <1>5, <2>1, <2>2, <2>3
<1>6. ASSUME NotePending \/ RunInstaller \/ ClearPending PROVE BasicInv'
  <2>1. CASE NotePending BY <2>1, <1>0 DEF NotePending
  <2>2. CASE RunInstaller BY <2>2 DEF RunInstaller, Journals
  <2>3. CASE ClearPending BY <2>3, <1>0 DEF ClearPending
  <2> QED BY <1>6, <2>1, <2>2, <2>3
<1>7. ASSUME CheckFails \/ StagingFails \/ InstallerFails \/ Crash PROVE BasicInv'
  BY <1>7, <1>0 DEF CheckFails, StagingFails, InstallerFails, Crash, StopsHere
<1>8. ASSUME NEW e \in Entries,
             ParkFails(e) \/ PlaceFails(e) \/ RestoreFails(e) \/ LoseStaged(e)
      PROVE  BasicInv'
  BY <1>8, <1>0 DEF ParkFails, PlaceFails, RestoreFails, LoseStaged
<1>9. ASSUME RollBack PROVE BasicInv'
  <2>1. server' \in Releases
    BY <1>9 DEF RollBack, Releases
  <2>2. UNCHANGED PlaceStaged
    BY <1>9 DEF RollBack, Current, Remaining
  <2> QED BY <1>9, <1>0, <2>1, <2>2 DEF RollBack
<1>10. CASE UNCHANGED vars
  BY <1>10 DEF vars, Current, Remaining
<1> QED BY <1>1, <1>2, <1>3, <1>4, <1>5, <1>6, <1>7, <1>8, <1>9, <1>10
        DEF Next, Run, Failure

LEMMA BasicInvariant == Spec => []BasicInv
<1>1. Init => BasicInv
  BY InitInv DEF IInv
<1> QED BY <1>1, BasicStep, PTL DEF Spec

(* Every variable stays in its domain, whatever fails and whatever is removed
   from .next (shared/archive-update.js). *)
THEOREM TypeCorrect == Spec => []TypeOK
<1>1. BasicInv => TypeOK
  BY DEF BasicInv
<1> QED BY <1>1, BasicInvariant, PTL

(* There is never a moment without a live .release, so a machine is always
   recognised as an archive install and updated again. *)
THEOREM ReleaseAlwaysLiveHolds == Spec => []ReleaseAlwaysLive
<1>1. BasicInv => ReleaseAlwaysLive
  BY DEF BasicInv
<1> QED BY <1>1, BasicInvariant, PTL

-----------------------------------------------------------------------------
(* A step that moves no file and ends in a state of the run where nothing
   about the journal is assumed keeps the invariant. *)
LEMMA UnmovedStep ==
  ASSUME IInv, UNCHANGED <<live, next, prev, journal>>,
         pc' \in {"idle", "notePending", "install", "clearPending"}
  PROVE  JournalInv' /\ BaseInv' /\ LiveBound' /\ RunInv'
<1>1. JournalInv'
  BY DEF IInv, JournalInv, Whole
<1>2. BaseInv' /\ LiveBound'
  BY DEF IInv, BaseInv, LiveBound, Whole
<1>3. RunInv'
  BY DEF RunInv
<1> QED BY <1>1, <1>2, <1>3

(* The steps of one entry (runJournal): the part of the invariant that needs
   .next to be left alone. *)
Swap == JournalInv /\ BaseInv /\ LiveBound /\ RunInv

LEMMA EntryStep ==
  ASSUME IInv, NEW e \in Entries, SwapEntry(e)
  PROVE  Swap'
<1> USE ShipsAssumption, NoneAssumption, NInEntries
    DEF IInv, BasicInv, TypeOK, ReleaseAlwaysLive, PlaceStaged, Tree, Journals
<1>1. mem.to \in Releases /\ journal.to \in Releases /\ live[N] \in Releases
      /\ mem.done \subseteq Entries /\ Ships[mem.to] \subseteq Entries /\ N \in Ships[mem.to]
  OBVIOUS
<1>2. pc \in {"entry", "place", "mark"} =>
        mem.on /\ journal.on /\ journal.to = mem.to /\ \A f \in mem.done : live[f] = mem.to
  BY DEF RunInv
<1>3. ASSUME NEW f \in Entries, Current(e), Current(f) PROVE e = f
  BY <1>3 DEF Current
<1>4. Current(e) => e \in Ships[mem.to] /\ e \notin mem.done
  BY DEF Current, Remaining
<1>5. ASSUME Current(N), NEW f \in Ships[mem.to], f # N PROVE f \in mem.done
  <2>1. f \in Entries
    BY <1>1
  <2>2. f \in 1..N /\ N \in Nat
    BY <2>1, SizeAssumption DEF Entries
  <2>3. ~(N <= f)
    BY <1>5, <2>2
  <2> QED BY <1>5, <2>3 DEF Current, Remaining
<1>6. CASE Park(e)
  <2>1. next[e] = mem.to /\ live[e] # mem.to
    BY <1>6, <1>1, <1>2, <1>4 DEF Park, JournalInv
  <2>2. JournalInv'
    <3>1. e # N => live[N] # journal.to
      BY <1>6, <1>1, <1>2, <1>4, <2>1 DEF Park, JournalInv, Whole
    <3>2. live'[N] # journal.to
      BY <1>6, <1>1, <1>2, <2>1, <3>1 DEF Park
    <3>3. \A f \in Entries : prev'[f] # None => prev'[f] < journal.to
      <4>1. live[e] # None => live[e] < journal.to
        <5>1. ASSUME live[e] # None PROVE live[e] <= journal.to /\ live[e] \in Releases
          BY <1>6, <1>2, <5>1 DEF Park, LiveBound
        <5>2. ASSUME live[e] # None PROVE live[e] \in Nat /\ journal.to \in Nat
          BY <5>1, <5>2
        <5> QED BY <5>1, <5>2, <1>2, <1>6, <2>1 DEF Park
      <4>2. \A f \in Entries : prev[f] # None => prev[f] < journal.to
        BY <1>6, <1>2 DEF Park, JournalInv
      <4> QED BY <1>6, <4>1, <4>2 DEF Park
    <3>4. \A f \in Ships[journal.to] :
            \/ next'[f] = journal.to /\ live'[f] # journal.to
            \/ next'[f] = None /\ live'[f] = journal.to
      BY <1>6, <1>1, <1>2, <2>1 DEF Park, JournalInv
    <3>5. \A f \in journal.done : live'[f] = journal.to
      BY <1>6, <1>1, <1>2, <2>1 DEF Park, JournalInv
    <3> QED BY <1>6, <3>2, <3>3, <3>4, <3>5 DEF Park, JournalInv
  <2>3. BaseInv' /\ LiveBound'
    BY <1>6, <1>1, <1>2, <1>4, <2>1 DEF Park, BaseInv, LiveBound
  <2>4. RunInv'
    BY <1>6, <1>1, <1>2, <1>4, <2>1 DEF Park, RunInv
  <2> QED BY <2>2, <2>3, <2>4 DEF Swap
<1>7. CASE Place(e)
  <2>1. next[e] = mem.to
    BY <1>7, <1>1, <1>2, <1>4 DEF Place, JournalInv
  <2>2. JournalInv'
    BY <1>7, <1>1, <1>2, <1>4, <1>5, <2>1 DEF Place, JournalInv, Whole
  <2>3. BaseInv' /\ LiveBound'
    <3>1. journal.on /\ live' = [live EXCEPT ![e] = journal.to] /\ UNCHANGED journal
      BY <1>7, <1>2, <2>1 DEF Place
    <3>2. journal.to \in Nat /\ journal.to <= journal.to
      BY <1>1
    <3> QED BY <3>1, <3>2 DEF BaseInv, LiveBound
  <2>4. RunInv'
    BY <1>7, <1>1, <1>2, <1>3, <1>4, <2>1 DEF Place, RunInv, Current, Remaining
  <2> QED BY <2>2, <2>3, <2>4 DEF Swap
<1>8. CASE AlreadyPlaced(e)
  <2>1. live[e] = mem.to
    BY <1>8, <1>1, <1>2, <1>4 DEF AlreadyPlaced, JournalInv
  <2>2. JournalInv' /\ BaseInv' /\ LiveBound'
    BY <1>8 DEF AlreadyPlaced, JournalInv, BaseInv, LiveBound, Whole
  <2>3. RunInv'
    BY <1>8, <1>1, <1>2, <1>3, <1>4, <2>1 DEF AlreadyPlaced, RunInv, Current, Remaining
  <2> QED BY <2>2, <2>3 DEF Swap
<1>9. ~RestoreParked(e)
  BY <1>1, <1>2, <1>4 DEF RestoreParked, JournalInv
<1>10. CASE MarkDone(e)
  <2>1. live[e] = mem.to
    BY <1>10 DEF MarkDone, RunInv
  <2>2. mem'.to = mem.to /\ mem'.done = mem.done \cup {e} /\ mem'.on = mem.on
    BY <1>10 DEF MarkDone
  <2>3. journal'.on /\ journal'.to = journal.to
        /\ \A f \in journal'.done : live[f] = journal.to
    BY <1>10, <1>2, <2>1, <2>2 DEF MarkDone, JournalInv
  <2>4. JournalInv' /\ BaseInv' /\ LiveBound'
    BY <1>10, <1>2, <2>3 DEF MarkDone, JournalInv, BaseInv, LiveBound, Whole
  <2>5. RunInv'
    BY <1>10, <1>2, <2>1, <2>2, <2>3 DEF MarkDone, RunInv
  <2> QED BY <2>4, <2>5 DEF Swap
<1> QED BY <1>6, <1>7, <1>8, <1>9, <1>10 DEF SwapEntry

(* The steps of a run before the journal is open (staging). *)
LEMMA StagingStep ==
  ASSUME IInv,
         Begin \/ RetryReconfigure \/ AlreadyCurrent \/ StartStaging \/ Stage \/ OpenJournal
  PROVE  Swap'
<1> USE ShipsAssumption, NoneAssumption, NInEntries
    DEF IInv, BasicInv, TypeOK, ReleaseAlwaysLive, Tree, Journals, EmptyTree
<1>1. CASE Begin
  BY <1>1 DEF Begin, Swap, JournalInv, BaseInv, LiveBound, RunInv, Whole
<1>2. CASE RetryReconfigure
  BY <1>2, UnmovedStep DEF RetryReconfigure, Swap
<1>3. CASE AlreadyCurrent
  BY <1>3 DEF AlreadyCurrent, Swap, JournalInv, BaseInv, LiveBound, RunInv, Whole
<1>4. CASE StartStaging
  <2>1. ~journal.on
    BY <1>4 DEF StartStaging, RunInv
  <2>2. server > live[N]
    <3>1. server \in Nat /\ live[N] \in Nat
      OBVIOUS
    <3> QED BY <1>4, <3>1 DEF StartStaging, UpToDate, InstalledRelease
  <2>3. JournalInv' /\ BaseInv' /\ LiveBound'
    BY <1>4, <2>1 DEF StartStaging, JournalInv, BaseInv, LiveBound, Whole
  <2>4. RunInv'
    BY <1>4, <2>1, <2>2 DEF StartStaging, RunInv
  <2> QED BY <2>3, <2>4 DEF Swap
<1>5. CASE Stage
  <2>1. ~journal.on /\ server > live[N]
    BY <1>5 DEF Stage, RunInv
  <2>2. mem' = [on |-> TRUE, to |-> server, done |-> {}]
    BY <1>5 DEF Stage
  <2>3. JournalInv' /\ BaseInv' /\ LiveBound'
    BY <1>5, <2>1 DEF Stage, JournalInv, BaseInv, LiveBound, Whole
  <2>4. RunInv'
    BY <1>5, <2>1, <2>2 DEF Stage, RunInv
  <2> QED BY <2>3, <2>4 DEF Swap
<1>6. CASE OpenJournal
  <2>1. /\ ~journal.on /\ mem.on /\ mem.to > live[N] /\ mem.done = {}
        /\ \A e \in Entries : next[e] = IF e \in Ships[mem.to] THEN mem.to ELSE None
    BY <1>6 DEF OpenJournal, RunInv
  <2>2. \A e \in Entries : live[e] # None => live[e] <= live[N]
    BY <2>1 DEF LiveBound
  <2>3. \A e \in Entries : live[e] # None => live[e] < mem.to
    <3>1. mem.to \in Nat /\ live[N] \in Nat
      OBVIOUS
    <3>2. ASSUME NEW e \in Entries, live[e] # None
          PROVE  live[e] \in Nat /\ live[e] <= live[N]
      BY <2>2, <3>2
    <3> QED BY <2>1, <3>1, <3>2
  <2>7. \A e \in Entries : live[e] # mem.to
    <3>1. mem.to \in Nat /\ mem.to # None
      OBVIOUS
    <3> QED BY <2>3, <3>1
  <2>8. \A e \in Entries : live[e] # None => live[e] <= mem.to
    <3>1. ASSUME NEW e \in Entries, live[e] # None PROVE live[e] \in Nat /\ mem.to \in Nat
      BY <3>1
    <3> QED BY <2>3, <3>1
  <2>4. JournalInv'
    BY <1>6, <2>1, <2>3, <2>7 DEF OpenJournal, JournalInv, Whole
  <2>5. BaseInv' /\ LiveBound'
    BY <1>6, <2>1, <2>8 DEF OpenJournal, BaseInv, LiveBound
  <2>6. RunInv'
    BY <1>6, <2>1 DEF OpenJournal, RunInv
  <2> QED BY <2>4, <2>5, <2>6 DEF Swap
<1> QED BY <1>1, <1>2, <1>3, <1>4, <1>5, <1>6

(* The steps after the last entry (journal and .next removed, installer). *)
LEMMA ClosingStep ==
  ASSUME IInv,
         AllDone \/ UnlinkJournal \/ RemoveNext \/ NotePending \/ RunInstaller \/ ClearPending
  PROVE  Swap'
<1> USE ShipsAssumption, NoneAssumption, NInEntries, NoJournalType
    DEF IInv, BasicInv, TypeOK, ReleaseAlwaysLive, Tree, Journals, EmptyTree
<1>1. CASE AllDone
  BY <1>1 DEF AllDone, Remaining, Swap, JournalInv, BaseInv, LiveBound, RunInv, Whole
<1>2. CASE UnlinkJournal
  <2>1. /\ journal.on /\ journal.to = mem.to /\ Remaining = {}
        /\ \A e \in mem.done : live[e] = mem.to
    BY <1>2 DEF UnlinkJournal, RunInv
  <2>2. Whole(journal.to) /\ live[N] = journal.to
    BY <2>1 DEF Remaining, Whole
  <2>3. journal' = NoJournal \/ journal' = journal
    BY <1>2 DEF UnlinkJournal
  <2>4. JournalInv' /\ BaseInv'
    BY <1>2, <2>2, <2>3 DEF UnlinkJournal, JournalInv, BaseInv, Whole
  <2>5. LiveBound'
    BY <1>2, <2>1, <2>2, <2>3 DEF UnlinkJournal, LiveBound
  <2>6. RunInv'
    BY <1>2, <2>2, <2>3 DEF UnlinkJournal, RunInv, Whole
  <2> QED BY <2>4, <2>5, <2>6 DEF Swap
<1>3. CASE RemoveNext
  <2>1. journal.on => Whole(journal.to)
    BY <1>3 DEF RemoveNext, RunInv
  <2>2. next' = EmptyTree \/ next' = next
    BY <1>3 DEF RemoveNext
  <2>3. JournalInv'
    BY <1>3, <2>1, <2>2 DEF RemoveNext, JournalInv, Whole
  <2>4. BaseInv' /\ LiveBound' /\ RunInv'
    BY <1>3 DEF RemoveNext, BaseInv, LiveBound, RunInv, Whole
  <2> QED BY <2>3, <2>4 DEF Swap
<1>4. CASE NotePending \/ RunInstaller \/ ClearPending
  BY <1>4, UnmovedStep DEF NotePending, RunInstaller, ClearPending, Swap
<1> QED BY <1>1, <1>2, <1>3, <1>4

(* Failed renames, downloads and installers, and kills. *)
LEMMA FailureStep ==
  ASSUME Quiet', IInv, Failure
  PROVE  Swap'
<1> USE ShipsAssumption, NoneAssumption, NInEntries
    DEF IInv, BasicInv, TypeOK, ReleaseAlwaysLive, Tree, Journals, EmptyTree
<1>1. CASE CheckFails \/ InstallerFails \/ Crash
  BY <1>1, UnmovedStep DEF CheckFails, InstallerFails, Crash, Swap
<1>2. CASE StagingFails
  BY <1>2 DEF StagingFails, Swap, JournalInv, BaseInv, LiveBound, RunInv, Whole
<1>3. ASSUME NEW e \in Entries, ParkFails(e) PROVE Swap'
  <2>1. CASE UNCHANGED prev
    BY <1>3, <2>1, UnmovedStep DEF ParkFails, Swap
  <2>2. CASE prev' = [prev EXCEPT ![e] = None]
    <3>1. JournalInv'
      BY <1>3, <2>2 DEF ParkFails, JournalInv, Whole
    <3>2. BaseInv' /\ LiveBound' /\ RunInv'
      BY <1>3, <2>2 DEF ParkFails, BaseInv, LiveBound, RunInv, Whole
    <3> QED BY <3>1, <3>2 DEF Swap
  <2> QED BY <1>3, <2>1, <2>2 DEF ParkFails
<1>4. ASSUME NEW e \in Entries, PlaceFails(e) PROVE Swap'
  <2>1. journal.on /\ journal.to = mem.to /\ e \in Ships[journal.to]
        /\ \A f \in journal.done : live[f] = journal.to
    BY <1>4 DEF PlaceFails, RunInv, JournalInv, Current, Remaining
  <2>2. CASE UNCHANGED <<live, prev>>
    BY <1>4, <2>2, UnmovedStep DEF PlaceFails, Swap
  <2>3. CASE /\ live[e] = None /\ prev[e] # None
             /\ live' = [live EXCEPT ![e] = prev[e]]
             /\ prev' = [prev EXCEPT ![e] = None]
    <3>1. e # N /\ prev[e] < journal.to /\ next[e] = journal.to
          /\ ~ (live[N] = journal.to)
      BY <2>1, <2>3 DEF JournalInv, Whole
    <3>2. prev[e] \in Nat /\ journal.to \in Nat
      BY <2>3
    <3>3. prev[e] # journal.to /\ prev[e] <= journal.to
      BY <3>1, <3>2
    <3>4. JournalInv'
      BY <1>4, <2>1, <2>3, <3>1, <3>3 DEF PlaceFails, JournalInv
    <3>5. BaseInv' /\ LiveBound'
      BY <1>4, <2>1, <2>3, <3>1, <3>3 DEF PlaceFails, BaseInv, LiveBound
    <3>6. RunInv'
      BY <1>4 DEF PlaceFails, RunInv
    <3> QED BY <3>4, <3>5, <3>6 DEF Swap
  <2> QED BY <1>4, <2>2, <2>3 DEF PlaceFails
<1>5. ASSUME NEW e \in Entries, RestoreFails(e) PROVE Swap'
  BY <1>5, UnmovedStep DEF RestoreFails, Swap
<1>6. ~RollBack /\ \A e \in Entries : ~LoseStaged(e)
  BY DEF LoseStaged, RollBack, Quiet
<1> QED BY <1>1, <1>2, <1>3, <1>4, <1>5, <1>6 DEF Failure

LEMMA SwapStep ==
  ASSUME Quiet', IInv, [Next]_vars
  PROVE  IInv'
<1>1. BasicInv'
  BY BasicStep DEF IInv
<1>2. ASSUME Run PROVE Swap'
  BY <1>2, EntryStep, StagingStep, ClosingStep DEF Run
<1>3. ASSUME Failure PROVE Swap'
  BY <1>3, FailureStep
<1>4. ASSUME Publish \/ UNCHANGED vars PROVE Swap'
  <2>1. UNCHANGED <<live, next, prev, journal, mem, pc>>
    BY <1>4 DEF Publish, vars
  <2>2. server' \in Nat /\ server' >= server /\ server \in Nat /\ live[N] \in Nat
    <3>1. server \in Nat /\ live[N] \in Nat
      BY NInEntries DEF IInv, BasicInv, TypeOK, Tree, ReleaseAlwaysLive
    <3> QED BY <1>4, <3>1 DEF Publish, vars
  <2>3. JournalInv' /\ BaseInv' /\ LiveBound'
    BY <2>1 DEF IInv, JournalInv, BaseInv, LiveBound, Whole
  <2>4. RunInv'
    <3>1. \A e \in Entries : Current(e)' <=> Current(e)
      BY <2>1 DEF Current, Remaining
    <3>2. Remaining' = Remaining
      BY <2>1 DEF Remaining
    <3>3. Whole(journal.to)' <=> Whole(journal.to)
      BY <2>1 DEF Whole
    <3> QED BY <2>1, <2>2, <3>1, <3>2, <3>3 DEF IInv, RunInv
  <2> QED BY <2>3, <2>4 DEF Swap
<1> QED BY <1>1, <1>2, <1>3, <1>4 DEF Next, IInv, Swap

(* A disturbance is never forgotten. *)
LEMMA DisturbedGrows == [Next]_vars => disturbed \subseteq disturbed'
<1> SUFFICES ASSUME [Next]_vars PROVE disturbed \subseteq disturbed'
  OBVIOUS
<1>1. ASSUME NEW e \in Entries,
             SwapEntry(e) \/ ParkFails(e) \/ PlaceFails(e) \/ RestoreFails(e) \/ LoseStaged(e)
      PROVE  disturbed \subseteq disturbed'
  BY <1>1 DEF SwapEntry, Park, Place, AlreadyPlaced, RestoreParked, MarkDone, ParkFails,
              PlaceFails, RestoreFails, LoseStaged
<1> QED BY <1>1 DEF Next, Run, Failure, Publish, RollBack, Begin, RetryReconfigure, AlreadyCurrent,
     StartStaging, CheckFails, Stage, StagingFails, OpenJournal, AllDone, UnlinkJournal, RemoveNext,
     NotePending, RunInstaller, InstallerFails, ClearPending, Crash, StopsHere, vars

LEMMA QuietBefore == Quiet' /\ [Next]_vars => Quiet
  BY DisturbedGrows DEF Quiet

Inv == BasicInv /\ (Quiet => Swap)

LEMMA Inductive == Spec => []Inv
<1>1. Init => Inv
  BY InitInv DEF Inv, IInv, Swap
<1>2. Inv /\ [Next]_vars => Inv'
  <2> SUFFICES ASSUME Inv, [Next]_vars PROVE Inv'
    OBVIOUS
  <2>1. BasicInv'
    BY BasicStep DEF Inv
  <2>2. ASSUME Quiet' PROVE Swap'
    BY <2>2, QuietBefore, SwapStep DEF Inv, IInv, Swap
  <2> QED BY <2>1, <2>2 DEF Inv
<1> QED BY <1>1, <1>2, PTL DEF Spec

(* .release names a release only once everything else of it is in. *)
THEOREM ReleaseIsWholeHolds == Spec => []ReleaseIsWhole
<1>1. Inv => ReleaseIsWhole
  BY DEF Inv, Swap, ReleaseIsWhole, JournalInv, BaseInv, Whole
<1> QED BY <1>1, Inductive, PTL

(* An interrupted swap can always be finished from what is on the disk. *)
THEOREM ResumableHolds == Spec => []Resumable
<1>1. Inv => Resumable
  BY DEF Inv, Swap, Resumable, JournalInv
<1> QED BY <1>1, Inductive, PTL

(* An update leaves the release number as it is or raises it. *)
THEOREM NeverDowngradesHolds == Spec => NeverDowngrades
<1>1. ASSUME Inv, [Next]_vars, Quiet' PROVE live'[N] >= live[N]
  <2> USE NInEntries, NoneAssumption
      DEF Inv, Swap, BasicInv, TypeOK, ReleaseAlwaysLive, PlaceStaged, Tree, Journals
  <2>1. Quiet /\ Swap
    BY <1>1, QuietBefore
  <2>2. live[N] \in Nat /\ journal.to \in Nat
    BY <1>1
  <2>3. CASE live'[N] = live[N]
    BY <2>2, <2>3
  <2>4. ASSUME NEW e \in Entries, Place(e), e = N PROVE live'[N] >= live[N]
    <3>1. live'[N] = next[N] /\ next[N] # None /\ Current(N) /\ journal.on /\ journal.to = mem.to
      BY <1>1, <2>1, <2>4 DEF Place, RunInv
    <3>2. next[N] = journal.to
      BY <1>1, <2>1, <3>1, ShipsAssumption DEF JournalInv, Current, Remaining
    <3>3. live[N] <= journal.to
      BY <1>1, <2>1, <3>1 DEF LiveBound
    <3> QED BY <2>2, <3>1, <3>2, <3>3
  <2>5. ASSUME NEW e \in Entries, SwapEntry(e), live'[N] # live[N] PROVE Place(e) /\ e = N
    BY <1>1, <2>5 DEF SwapEntry, Park, Place, AlreadyPlaced, RestoreParked, MarkDone
  <2>6. ASSUME NEW e \in Entries, ParkFails(e) \/ PlaceFails(e) \/ RestoreFails(e) \/ LoseStaged(e)
        PROVE  live'[N] = live[N]
    BY <1>1, <2>6 DEF ParkFails, PlaceFails, RestoreFails, LoseStaged
  <2>7. CASE Publish \/ RollBack \/ Begin \/ RetryReconfigure \/ AlreadyCurrent \/ StartStaging
             \/ CheckFails \/ Stage \/ StagingFails \/ OpenJournal \/ AllDone \/ UnlinkJournal
             \/ RemoveNext \/ NotePending \/ RunInstaller \/ InstallerFails \/ ClearPending
             \/ Crash \/ UNCHANGED vars
    BY <2>3, <2>7 DEF Publish, RollBack, Begin, RetryReconfigure, AlreadyCurrent, StartStaging,
       CheckFails, Stage, StagingFails, OpenJournal, AllDone, UnlinkJournal, RemoveNext, NotePending,
       RunInstaller, InstallerFails, ClearPending, Crash, vars
  <2> QED BY <1>1, <2>3, <2>4, <2>5, <2>6, <2>7 DEF Next, Run, Failure
<1> QED BY <1>1, Inductive, PTL DEF Spec, NeverDowngrades

-----------------------------------------------------------------------------
(* What a run may assume of the entries it has dealt with: the strengthening
   of NothingLost, whatever else removes files from .next. *)
LossInv ==
  /\ pc \in {"check", "download", "prepare"} => ~journal.on
  /\ pc \in {"prepare", "entry", "place", "mark", "unlinkJournal"} => mem.on
  /\ pc \in {"entry", "place", "mark", "unlinkJournal"} =>
       journal.on /\ journal.done \subseteq mem.done /\ \A e \in mem.done \cap CommonEntries : live[e] # None
  /\ pc = "mark" => \A e \in CommonEntries : Current(e) => live[e] # None
  /\ pc = "unlinkJournal" => Remaining = {}
  /\ \A e \in journal.done \cap CommonEntries : live[e] # None
  /\ ~journal.on => \A e \in CommonEntries : live[e] # None
  /\ NothingLost

LEMMA LossInit == Init => LossInv
<1> SUFFICES ASSUME Init PROVE LossInv
  OBVIOUS
<1>1. 0 \in Releases /\ None # 0
  BY SizeAssumption, NoneAssumption DEF Releases
<1>2. \A e \in CommonEntries : live[e] # None
  BY <1>1 DEF Init, CommonEntries
<1> QED BY <1>2 DEF Init, LossInv, NothingLost, NoJournal

LEMMA LossStep ==
  ASSUME BasicInv, LossInv, [Next]_vars
  PROVE  LossInv'
<1> USE NoneAssumption, NInEntries, NoJournalType
    DEF BasicInv, TypeOK, PlaceStaged, Tree, Journals, EmptyTree, LossInv, NothingLost
<1>0. CommonEntries \subseteq Entries /\ \A v \in Releases : CommonEntries \subseteq Ships[v]
  BY DEF CommonEntries
<1>1. ASSUME NEW e \in Entries, SwapEntry(e) PROVE LossInv'
  <2>1. CASE Park(e)
    <3>1. e \notin mem.done /\ e \notin journal.done /\ journal.done \subseteq mem.done
      BY <2>1 DEF Park, Current, Remaining
    <3>2. \A f \in Entries : live[f] # None => live'[f] # None \/ prev'[f] # None
      BY <2>1 DEF Park
    <3>3. \A f \in Entries : prev[f] # None => prev'[f] # None
      BY <2>1 DEF Park
    <3>4. \A f \in Entries \ {e} : live'[f] = live[f]
      BY <2>1 DEF Park
    <3>5. journal.on
      BY <2>1 DEF Park
    <3> QED BY <1>0, <2>1, <3>1, <3>2, <3>3, <3>4, <3>5 DEF Park
  <2>2. CASE Place(e)
    BY <1>0, <2>2 DEF Place, Current, Remaining
  <2>3. CASE AlreadyPlaced(e)
    BY <1>0, <2>3 DEF AlreadyPlaced, Current, Remaining
  <2>4. CASE RestoreParked(e)
    BY <1>0, <2>4 DEF RestoreParked, Current, Remaining
  <2>5. CASE MarkDone(e)
    <3>1. mem'.done = mem.done \cup {e} /\ (journal' = mem' \/ journal' = journal) /\ pc' = "entry"
      BY <2>5 DEF MarkDone
    <3>2. e \in CommonEntries => live[e] # None
      BY <2>5 DEF MarkDone
    <3>3. mem'.on /\ journal.on => journal'.on
      BY <2>5, <3>1 DEF MarkDone
    <3> QED BY <1>0, <2>5, <3>1, <3>2 DEF MarkDone
  <2> QED BY <1>1, <2>1, <2>2, <2>3, <2>4, <2>5 DEF SwapEntry
<1>2. ASSUME NEW e \in Entries, ParkFails(e) \/ PlaceFails(e) \/ RestoreFails(e) \/ LoseStaged(e)
      PROVE  LossInv'
  BY <1>0, <1>2 DEF ParkFails, PlaceFails, RestoreFails, LoseStaged
<1>3. CASE Begin \/ RetryReconfigure \/ AlreadyCurrent \/ StartStaging \/ CheckFails
  BY <1>3 DEF Begin, RetryReconfigure, AlreadyCurrent, StartStaging, CheckFails
<1>4. CASE Stage \/ StagingFails \/ OpenJournal
  BY <1>4 DEF Stage, StagingFails, OpenJournal
<1>5. CASE AllDone \/ UnlinkJournal \/ RemoveNext
  <2>1. CASE AllDone
    BY <2>1 DEF AllDone, Remaining
  <2>2. CASE UnlinkJournal
    <3>1. CommonEntries \subseteq mem.done
      BY <1>0, <2>2 DEF UnlinkJournal, Remaining
    <3> QED BY <2>2, <3>1 DEF UnlinkJournal, NoJournal
  <2>3. CASE RemoveNext
    BY <2>3 DEF RemoveNext
  <2> QED BY <1>5, <2>1, <2>2, <2>3
<1>6. CASE NotePending \/ RunInstaller \/ InstallerFails \/ ClearPending \/ Crash
  BY <1>6 DEF NotePending, RunInstaller, InstallerFails, ClearPending, Crash
<1>7. CASE Publish \/ RollBack \/ UNCHANGED vars
  BY <1>7 DEF Publish, RollBack, vars, Current, Remaining
<1> QED BY <1>1, <1>2, <1>3, <1>4, <1>5, <1>6, <1>7 DEF Next, Run, Failure

(* No entry that every release has is lost from both the live tree and .prev,
   whatever fails, is killed or is removed from .next. *)
THEOREM NothingLostHolds == Spec => []NothingLost
<1>1. LossInv => NothingLost
  BY DEF LossInv
<1>2. LossInv /\ BasicInv /\ [Next]_vars => LossInv'
  BY LossStep
<1> QED BY <1>1, <1>2, LossInit, BasicInvariant, PTL DEF Spec

-----------------------------------------------------------------------------
(* The order of the swap, between any two steps of a run as well. *)
OrderInv ==
  journal.on =>
    \A e \in Ships[journal.to] \ Imports, i \in Imports \cap Ships[journal.to] :
      live[e] = journal.to => live[i] = journal.to

LEMMA OrderStep ==
  ASSUME Quiet', IInv, OrderInv, [Next]_vars
  PROVE  OrderInv'
<1> USE ShipsAssumption, NoneAssumption, NInEntries, NoJournalType
    DEF IInv, BasicInv, TypeOK, ReleaseAlwaysLive, PlaceStaged, Tree, Journals, EmptyTree
<1>0. ASSUME UNCHANGED <<live, journal>> PROVE OrderInv'
  BY <1>0 DEF OrderInv
<1>1. ASSUME NEW e \in Entries, Park(e) PROVE OrderInv'
  <2>1. journal.on /\ journal.to = mem.to /\ e \in Ships[journal.to] /\ live[e] # journal.to
    BY <1>1 DEF Park, RunInv, JournalInv, Current, Remaining
  <2> QED BY <1>1, <2>1 DEF Park, OrderInv
<1>2. ASSUME NEW e \in Entries, Place(e) PROVE OrderInv'
  <2>1. /\ journal.on /\ journal.to = mem.to /\ e \in Ships[mem.to]
        /\ \A f \in mem.done : live[f] = mem.to
        /\ next[e] = mem.to
    BY <1>2 DEF Place, RunInv, JournalInv, Current, Remaining
  <2>2. \A i \in Imports \cap Ships[mem.to] : e \notin Imports => i \in mem.done
    <3> SUFFICES ASSUME NEW i \in Imports, i \in Ships[mem.to], e \notin Imports, i \notin mem.done
                 PROVE  FALSE
      OBVIOUS
    <3>1. e <= i
      BY <1>2 DEF Place, Current, Remaining
    <3>2. NFirst \in Nat /\ i <= NFirst /\ ~(e <= NFirst) /\ i \in Nat /\ e \in Nat
      BY SizeAssumption DEF Imports, Entries
    <3> QED BY <3>1, <3>2
  <2> QED BY <1>2, <2>1, <2>2 DEF Place, OrderInv
<1>3. ASSUME NEW e \in Entries, AlreadyPlaced(e) PROVE OrderInv'
  BY <1>0, <1>3 DEF AlreadyPlaced
<1>4. ASSUME NEW e \in Entries PROVE ~RestoreParked(e)
  BY DEF RestoreParked, RunInv, JournalInv, Current, Remaining
<1>5. ASSUME NEW e \in Entries, MarkDone(e) PROVE OrderInv'
  BY <1>5 DEF MarkDone, RunInv, OrderInv
<1>6. ASSUME NEW e \in Entries, PlaceFails(e) PROVE OrderInv'
  <2>1. CASE UNCHANGED live
    BY <1>0, <1>6, <2>1 DEF PlaceFails
  <2>2. CASE /\ live[e] = None /\ prev[e] # None
             /\ live' = [live EXCEPT ![e] = prev[e]]
    <3>1. journal.on /\ prev[e] < journal.to /\ prev[e] \in Nat /\ journal.to \in Nat
      BY <1>6, <2>2 DEF PlaceFails, RunInv, JournalInv
    <3>2. prev[e] # journal.to /\ live[e] # journal.to
      BY <2>2, <3>1
    <3> QED BY <1>6, <2>2, <3>2 DEF PlaceFails, OrderInv
  <2> QED BY <1>6, <2>1, <2>2 DEF PlaceFails
<1>7. ASSUME NEW e \in Entries, ParkFails(e) \/ RestoreFails(e) \/ LoseStaged(e) PROVE OrderInv'
  BY <1>0, <1>7 DEF ParkFails, RestoreFails, LoseStaged
<1>8. CASE OpenJournal
  <2>1. \A e \in Entries : live[e] # mem.to
    <3>1. ~journal.on /\ mem.to > live[N] /\ mem.to \in Nat /\ live[N] \in Nat
      BY <1>8 DEF OpenJournal, RunInv
    <3>2. ASSUME NEW e \in Entries, live[e] = mem.to PROVE FALSE
      <4>1. live[e] <= live[N]
        BY <3>1, <3>2 DEF LiveBound
      <4> QED BY <3>1, <3>2, <4>1
    <3> QED BY <3>2
  <2> QED BY <1>8, <2>1 DEF OpenJournal, OrderInv
<1>9. CASE UnlinkJournal
  BY <1>9 DEF UnlinkJournal, OrderInv
<1>10. ASSUME Run \/ Failure \/ Publish \/ UNCHANGED vars,
              ~OpenJournal, ~UnlinkJournal,
              \A e \in Entries : ~SwapEntry(e) /\ ~PlaceFails(e)
       PROVE  OrderInv'
  BY <1>0, <1>10, <1>7 DEF Run, Failure, Publish, RollBack, Begin, RetryReconfigure, AlreadyCurrent,
     StartStaging, CheckFails, Stage, StagingFails, AllDone, RemoveNext, NotePending, RunInstaller,
     InstallerFails, ClearPending, Crash, vars
<1> QED BY <1>1, <1>2, <1>3, <1>4, <1>5, <1>6, <1>8, <1>9, <1>10 DEF Next, SwapEntry

(* The folders the hooks import from are swapped before anything else. *)
THEOREM ImportsFirstHolds == Spec => []ImportsFirst
<1>1. Init => OrderInv
  BY DEF Init, OrderInv, NoJournal
<1>2. Inv /\ (Quiet => OrderInv) /\ [Next]_vars => (Quiet' => OrderInv')
  BY QuietBefore, OrderStep DEF Inv, IInv, Swap
<1>3. (Quiet => OrderInv) => ImportsFirst
  BY DEF ImportsFirst, OrderInv
<1> QED BY <1>1, <1>2, <1>3, Inductive, PTL DEF Spec

-----------------------------------------------------------------------------
(* What is on the disk for a release the host is not configured from yet. *)
ConfigInv ==
  /\ pc \in {"removeNext", "notePending", "install", "clearPending"} => live[N] = mem.to
  /\ pc = "clearPending" => configured = live[N]
  /\ configured # live[N] => journal.on \/ pending \/ pc \in {"removeNext", "notePending", "install"}

ConfigKept == disturbed = {} => ConfigInv

LEMMA ConfigStep ==
  ASSUME disturbed' = {}, IInv, ConfigInv, [Next]_vars
  PROVE  ConfigInv'
<1> USE ShipsAssumption, NoneAssumption, NInEntries, NoJournalType
    DEF IInv, BasicInv, TypeOK, ReleaseAlwaysLive, PlaceStaged, Tree, Journals, EmptyTree, ConfigInv
<1>1. ASSUME NEW e \in Entries, SwapEntry(e) PROVE ConfigInv'
  <2>1. pc \in {"entry", "place", "mark"} /\ journal.on /\ mem.on
    BY <1>1 DEF SwapEntry, Park, Place, AlreadyPlaced, RestoreParked, MarkDone, RunInv
  <2> QED BY <1>1, <2>1 DEF SwapEntry, Park, Place, AlreadyPlaced, RestoreParked, MarkDone
<1>2. ASSUME NEW e \in Entries, ParkFails(e) \/ PlaceFails(e) \/ RestoreFails(e) \/ LoseStaged(e)
      PROVE  ConfigInv'
  BY <1>2 DEF ParkFails, PlaceFails, RestoreFails, LoseStaged, RunInv
<1>3. CASE Begin \/ RetryReconfigure \/ AlreadyCurrent \/ StartStaging \/ CheckFails
  BY <1>3 DEF Begin, RetryReconfigure, AlreadyCurrent, StartStaging, CheckFails, InstalledRelease
<1>4. CASE Stage \/ StagingFails \/ OpenJournal
  BY <1>4 DEF Stage, StagingFails, OpenJournal, RunInv
<1>5. CASE AllDone \/ RemoveNext
  BY <1>5 DEF AllDone, RemoveNext
<1>6. CASE UnlinkJournal
  <2>1. live[N] = mem.to
    BY <1>6 DEF UnlinkJournal, RunInv, Remaining
  <2> QED BY <1>6, <2>1 DEF UnlinkJournal
<1>7. CASE NotePending \/ RunInstaller \/ InstallerFails \/ ClearPending
  BY <1>7 DEF NotePending, RunInstaller, InstallerFails, ClearPending, StopsHere, Unnoted
<1>8. CASE Crash
  BY <1>8 DEF Crash, StopsHere, Unnoted
<1>9. CASE Publish \/ RollBack \/ UNCHANGED vars
  BY <1>9 DEF Publish, RollBack, vars
<1> QED BY <1>1, <1>2, <1>3, <1>4, <1>5, <1>6, <1>7, <1>8, <1>9 DEF Next, Run, Failure

(* Between runs, a release that was swapped in and that the host has not been
   reconfigured from is remembered on the disk. *)
THEOREM ReconfigureRememberedHolds == Spec => []ReconfigureRemembered
<1>1. Init => ConfigKept
  <2>1. Init => configured = live[N] /\ pc = "idle"
    BY ShipsAssumption, SizeAssumption, NInEntries DEF Init, Releases
  <2> QED BY <2>1 DEF ConfigInv, ConfigKept
<1>2. Inv /\ ConfigKept /\ [Next]_vars => ConfigKept'
  <2> SUFFICES ASSUME Inv, ConfigKept, [Next]_vars, disturbed' = {}
               PROVE  ConfigInv'
    BY DEF ConfigKept
  <2>1. disturbed = {} /\ Quiet
    BY DisturbedGrows DEF Quiet
  <2> QED BY <2>1, ConfigStep DEF Inv, IInv, Swap, ConfigKept
<1>3. ConfigKept => ReconfigureRemembered
  BY DEF ReconfigureRemembered, ConfigInv, ConfigKept
<1> QED BY <1>1, <1>2, <1>3, Inductive, PTL DEF Spec

-----------------------------------------------------------------------------
(* The promise of ReleaseInstall                                             *)

InstallStep == Install!Next \/ UNCHANGED <<live, Swapping>>

(* A step that moves no live entry and leaves the journal alone does nothing. *)
LEMMA StillSwapping == UNCHANGED <<live, journal>> => InstallStep
  BY DEF InstallStep, Swapping

LEMMA InstallInit == Init => Install!Init
<1> SUFFICES ASSUME Init PROVE Install!Init
  OBVIOUS
<1>1. IInv
  BY InitInv
<1>2. Swapping = None /\ ~journal.on
  BY DEF Init, NoJournal, Swapping
<1> QED BY <1>1, <1>2 DEF Install!Init, Install!Installed, IInv, BaseInv, Whole

(* While the entry of a run is not yet in, its swap is open. *)
LEMMA SwapIsOpen ==
  ASSUME IInv, NEW e \in Entries, Current(e), pc \in {"entry", "place"}, next[e] # None
  PROVE  /\ journal.on /\ journal.to = mem.to /\ journal.to \in Releases
         /\ live[N] # journal.to /\ Swapping = journal.to /\ Swapping # None
         /\ e \in Ships[journal.to] /\ next[e] = journal.to
<1> USE ShipsAssumption, NoneAssumption, NInEntries
    DEF IInv, BasicInv, TypeOK, ReleaseAlwaysLive, PlaceStaged, Tree, Journals
<1>1. journal.on /\ journal.to = mem.to /\ journal.to \in Releases
  BY DEF RunInv
<1>2. e \in Ships[journal.to]
  BY <1>1 DEF Current, Remaining
<1>3. next[e] = journal.to /\ live[e] # journal.to
  BY <1>1, <1>2 DEF JournalInv
<1>4. live[N] # journal.to
  BY <1>1, <1>2, <1>3 DEF JournalInv, Whole
<1> QED BY <1>1, <1>2, <1>3, <1>4 DEF Swapping

(* What moves an entry other than .release, to no release above the target. *)
LEMMA MovesEntry ==
  ASSUME IInv, NEW e \in Entries, e # N, Current(e), pc \in {"entry", "place"}, next[e] # None,
         NEW v \in Releases \cup {None}, v # None => v <= journal.to,
         live' = [live EXCEPT ![e] = v], UNCHANGED journal
  PROVE  InstallStep
<1>1. /\ Swapping = journal.to /\ Swapping # None /\ journal.on /\ live[N] # journal.to
      /\ e \in Ships[journal.to] /\ journal.to \in Releases
  BY SwapIsOpen
<1>2. live'[N] = live[N]
  BY NInEntries DEF IInv, BasicInv, TypeOK, Tree
<1>3. Swapping' = Swapping
  BY <1>1, <1>2 DEF Swapping
<1>4. Install!Move(e)
  BY <1>1, <1>3 DEF Install!Move
<1> QED BY <1>1, <1>4 DEF InstallStep, Install!Next

LEMMA EntryInstalls ==
  ASSUME IInv, NEW e \in Entries, SwapEntry(e) \/ PlaceFails(e)
  PROVE  InstallStep
<1> USE ShipsAssumption, NoneAssumption, NInEntries
    DEF IInv, BasicInv, TypeOK, ReleaseAlwaysLive, PlaceStaged, Tree, Journals
<1>1. CASE Park(e)
  <2>1. CASE e = N
    BY <1>1, <2>1, StillSwapping DEF Park
  <2>2. CASE e # N
    BY <1>1, <2>2, MovesEntry DEF Park
  <2> QED BY <2>1, <2>2
<1>2. CASE Place(e)
  <2>1. pc = "place" /\ Current(e) /\ next[e] # None /\ UNCHANGED journal
    BY <1>2 DEF Place
  <2>2. /\ journal.on /\ journal.to = mem.to /\ journal.to \in Releases
        /\ Swapping = journal.to /\ Swapping # None
        /\ e \in Ships[journal.to] /\ next[e] = journal.to
    BY <2>1, SwapIsOpen
  <2>3. live' = [live EXCEPT ![e] = journal.to] /\ journal.to \in Nat /\ journal.to <= journal.to
    BY <1>2, <2>2 DEF Place
  <2>4. CASE e # N
    BY <2>1, <2>2, <2>3, <2>4, MovesEntry
  <2>5. CASE e = N
    <3>1. live'[N] = journal.to
      BY <2>3, <2>5
    <3>2. Swapping' = None
      BY <2>1, <3>1 DEF Swapping
    <3>3. \A f \in Ships[journal.to] \ {N} : live[f] = journal.to
      <4>1. ASSUME NEW f \in Ships[journal.to] \ {N} PROVE f \in mem.done
        <5>1. f \in Entries /\ f \in 1..N /\ N \in Nat
          BY <2>2, SizeAssumption DEF Entries
        <5>2. ~(N <= f)
          BY <5>1
        <5> QED BY <2>1, <2>2, <2>5, <5>1, <5>2 DEF Current, Remaining
      <4> QED BY <2>1, <2>2, <4>1 DEF RunInv
    <3> QED BY <2>2, <2>3, <2>5, <3>2, <3>3 DEF InstallStep, Install!Next, Install!Finish
  <2> QED BY <2>4, <2>5
<1>3. CASE PlaceFails(e)
  <2>1. CASE live' = live
    BY <1>3, <2>1, StillSwapping DEF PlaceFails
  <2>2. CASE live' # live
    <3>1. /\ pc = "place" /\ Current(e) /\ next[e] # None /\ UNCHANGED journal
          /\ live[e] = None /\ prev[e] # None /\ live' = [live EXCEPT ![e] = prev[e]]
      BY <1>3, <2>2 DEF PlaceFails
    <3>2. journal.on /\ journal.to \in Releases /\ e # N
      BY <3>1, SwapIsOpen
    <3>3. prev[e] \in Releases /\ prev[e] < journal.to
      BY <3>1, <3>2 DEF JournalInv
    <3>4. prev[e] <= journal.to
      BY <3>2, <3>3
    <3> QED BY <3>1, <3>2, <3>3, <3>4, MovesEntry
  <2> QED BY <2>1, <2>2
<1>4. CASE AlreadyPlaced(e)
  BY <1>4, StillSwapping DEF AlreadyPlaced
<1>5. ~RestoreParked(e)
  <2>1. SUFFICES ASSUME RestoreParked(e) PROVE FALSE
    OBVIOUS
  <2>2. journal.on /\ journal.to = mem.to /\ journal.to \in Releases /\ live[e] = None /\ next[e] = None
    BY <2>1 DEF RestoreParked, RunInv
  <2>3. e \in Ships[journal.to]
    BY <2>1, <2>2 DEF RestoreParked, Current, Remaining
  <2> QED BY <2>2, <2>3 DEF JournalInv
<1>6. CASE MarkDone(e)
  <2>1. /\ journal.on /\ journal.to = mem.to /\ mem.on
        /\ mem' = [mem EXCEPT !.done = @ \cup {e}] /\ journal' \in {mem', journal} /\ UNCHANGED live
    BY <1>6 DEF MarkDone, RunInv
  <2>2. mem'.on = mem.on /\ mem'.to = mem.to
    BY <2>1
  <2>3. journal'.on /\ journal'.to = journal.to
    BY <2>1, <2>2
  <2> QED BY <2>1, <2>3 DEF InstallStep, Swapping
<1> QED BY <1>1, <1>2, <1>3, <1>4, <1>5, <1>6 DEF SwapEntry

LEMMA QuietInstalls == IInv /\ Quiet' /\ [Next]_vars => InstallStep
<1> SUFFICES ASSUME IInv, Quiet', [Next]_vars PROVE InstallStep
  OBVIOUS
<1> USE ShipsAssumption, NoneAssumption, NInEntries
    DEF IInv, BasicInv, TypeOK, ReleaseAlwaysLive, PlaceStaged, Tree, Journals
<1>1. ASSUME NEW e \in Entries, SwapEntry(e) \/ PlaceFails(e) PROVE InstallStep
  BY <1>1, EntryInstalls
<1>2. CASE OpenJournal
  <2>1. /\ ~journal.on /\ journal' = mem /\ UNCHANGED live
        /\ mem.on /\ mem.to > live[N] /\ mem.to \in Releases /\ live[N] \in Releases
    BY <1>2 DEF OpenJournal, RunInv
  <2>2. mem.to # live[N] /\ mem.to # None
    BY <2>1
  <2>3. Swapping = None /\ Swapping' = mem.to
    BY <2>1, <2>2 DEF Swapping
  <2> QED BY <2>1, <2>3 DEF InstallStep, Install!Next, Install!Open, Install!Installed
<1>3. CASE UnlinkJournal
  <2>1. journal.on /\ journal.to = mem.to /\ Remaining = {} /\ mem.to \in Releases
        /\ \A e \in mem.done : live[e] = mem.to
    BY <1>3 DEF UnlinkJournal, RunInv
  <2>2. live[N] = journal.to
    BY <2>1 DEF Remaining
  <2>3. UNCHANGED live /\ (journal' = journal \/ ~journal'.on)
    BY <1>3, NoJournalType DEF UnlinkJournal
  <2> QED BY <2>2, <2>3 DEF InstallStep, Swapping
<1>4. ASSUME NEW e \in Entries, ParkFails(e) \/ RestoreFails(e) \/ LoseStaged(e) PROVE InstallStep
  BY <1>4, StillSwapping DEF ParkFails, RestoreFails, LoseStaged
<1>5. CASE Publish \/ RollBack \/ Begin \/ RetryReconfigure \/ AlreadyCurrent \/ StartStaging
           \/ CheckFails \/ Stage \/ StagingFails \/ AllDone \/ RemoveNext \/ NotePending
           \/ RunInstaller \/ InstallerFails \/ ClearPending \/ Crash \/ UNCHANGED vars
  BY <1>5, StillSwapping DEF Publish, RollBack, Begin, RetryReconfigure, AlreadyCurrent, StartStaging,
     CheckFails, Stage, StagingFails, AllDone, RemoveNext, NotePending, RunInstaller, InstallerFails,
     ClearPending, Crash, vars
<1> QED BY <1>1, <1>2, <1>3, <1>4, <1>5 DEF Next, Run, Failure

(* For any number of entries and releases, and whatever fails or is killed: the
   journalled swap implements ReleaseInstall, until a staged entry is lost or
   the server goes back. *)
THEOREM Refinement == Spec => ImplementsInstall
<1>1. Inv /\ [Next]_vars => (Quiet' => InstallStep)
  BY QuietInstalls, QuietBefore DEF Inv, IInv, Swap
<1>2. Inv /\ [Next]_vars => (Quiet' => Install!Next \/ UNCHANGED <<live, Swapping>>)
  BY <1>1 DEF InstallStep
<1> QED BY <1>2, InstallInit, Inductive, PTL DEF Spec, ImplementsInstall
=============================================================================
