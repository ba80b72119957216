--------------------------- MODULE AutoUpdateProps ---------------------------
(* What the daily upgrade promises.                                          *)
EXTENDS AutoUpdate

\* Every variable stays in its domain.
UpgradeTypeOK ==
  /\ holders \subseteq Programs
  /\ newest \in Releases /\ tags \in Releases /\ head \in Releases 
  /\ deps \in Releases /\ synced \in Releases
  /\ stepsLeft \in BOOLEAN /\ sharedMark \in BOOLEAN /\ hookMark \in BOOLEAN
  /\ doing \in [Programs -> Doings]
  /\ startedToday \in [Programs -> BOOLEAN]
  /\ upgradeFaults \in 0..MaxUpgradeFaults
  /\ forgotten \in BOOLEAN

\* Only the lock's holder is past taking it, so no two programs work in the
\* directory at once, across all three implementations.
WorkUnderLock ==
  \A p \in Programs : doing[p] \notin {"idle", "lock"} <=> p \in holders

\* When nobody is upgrading, a checkout whose dependencies or hooks are behind
\* is marked as having steps left, so it is not taken for clean ("the
\* post-pull steps have their own marker ... redo them regardless of git").
\* Only a run that stopped between its pull and the note can have left another.
StepsRemembered == holders = {} => Healthy \/ stepsLeft \/ forgotten

\* A shared program calls the day done only on a checkout whose steps are done
\* (what the v1.26.142 comment is about: "a machine that reports a healthy
\* upgrade every day and is quietly broken").
StampsDay(p) == doing[p] = "stamp" /\ doing'[p] = "release"
StampedHealthy == [][forgotten \/ \A p \in Shared : StampsDay(p) => Healthy]_upgradeVars

\* The same with no run excepted, as the comment has it.
StampMeansHealthy == [][\A p \in Shared : StampsDay(p) => Healthy]_upgradeVars

\* The note that steps are left is only taken away when none are.
NoteKeptUntilDone == [][stepsLeft /\ ~stepsLeft' => Healthy]_upgradeVars

\* Once failures stop, the machine is on the newest release, steps included
\* (unless a run that stopped before its note left it half done).
Converges == <>[](head = newest /\ (Healthy \/ forgotten))
=============================================================================
