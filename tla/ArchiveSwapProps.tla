-------------------------- MODULE ArchiveSwapProps --------------------------
(* What the archive update promises (shared/archive-update.js, the header).  *)
EXTENDS ArchiveSwap

\* Every variable stays in its domain.
TypeOK ==
  /\ live \in Tree /\ next \in Tree /\ prev \in Tree
  /\ journal \in Journals /\ mem \in Journals
  /\ pc \in Pcs
  /\ pending \in BOOLEAN
  /\ configured \in Releases /\ server \in Releases
  /\ faults \in 0..MaxFaults
  /\ disturbed \subseteq Disturbances

\* Nobody but the program has touched .next, and no release was withdrawn.
Quiet == disturbed \cap {"lost", "rolledBack"} = {}

\* Whatever failed, the live tree has a .release ("there is never a moment
\* without a live .release"), or the install would not be recognised as one.
ReleaseAlwaysLive == live[N] # None

\* .release names a release only when every entry of it is in ("it names the
\* new release only once everything else is in"); without a journal the tree
\* is that release and nothing else is left to do.
ReleaseIsWhole ==
  Quiet =>
    /\ ~journal.on => \A e \in Ships[live[N]] : live[e] = live[N]
    /\ journal.on /\ live[N] = journal.to =>
         \A e \in Ships[journal.to] : live[e] = journal.to

\* An interrupted swap can be finished without a download: each entry of the
\* new release is in the live tree or still staged.
Resumable ==
  Quiet /\ journal.on =>
    \A e \in Ships[journal.to] : journal.to \in {live[e], next[e]}

\* No failure destroys an entry every release has, whatever else
\* removes files from .next: it is live, or in .prev to fall back on.
CommonEntries == {e \in Entries : \A v \in Releases : e \in Ships[v]}
NothingLost == \A e \in CommonEntries : live[e] # None \/ prev[e] # None

\* The folders the hooks import from move first: between runs no other entry
\* is newer than an imported one.
ImportsFirst ==
  Quiet /\ journal.on /\ pc = "idle" =>
    \A e \in Ships[journal.to] \ Imports, i \in Imports \cap Ships[journal.to] :
      live[e] = journal.to => live[i] = journal.to

\* Between runs, a swapped release the host has not been reconfigured from is
\* remembered on the disk ("An installer run that failed after an earlier swap
\* is retried here"), unless the run stopped while neither file that says so was
\* there, one gone and the other not written, or Quiet does not hold.
ReconfigureRemembered ==
  disturbed = {} /\ pc = "idle" /\ configured # live[N] => journal.on \/ pending

\* An update never takes a machine back to an older release ("or the server is
\* behind this machine: nothing to download").
NeverDowngrades == [][Quiet' => live'[N] >= live[N]]_vars

\* The swaps, failed, killed and resumed, do to the tree what ReleaseInstall
\* promises ("leaves the live tree exactly as it was", "RESUMED, never rolled
\* back"): one is open from the first write of its journal until .release is
\* renamed, however long the journal stays after that.
Swapping == IF journal.on /\ live[N] # journal.to THEN journal.to ELSE None
Install == INSTANCE ReleaseInstall WITH Marker <- N, tree <- live, target <- Swapping
ImplementsInstall ==
  Install!Init /\ [][Quiet' => Install!Next \/ UNCHANGED <<live, Swapping>>]_vars

\* Once failures stop, the machine ends up whole, on the server's release, and
\* configured from it, unless one of the disturbances happened on the way.
Converges ==
  <>[](disturbed = {} =>
       live[N] = server /\ ~journal.on /\ ReleaseIsWhole /\ configured = server /\ ~pending)
=============================================================================
