--------------------------- MODULE AutoUpdateProofs ---------------------------
(***************************************************************************)
(* The update of a checkout, for every set of programs: they work in the   *)
(* directory one at a time and the note that steps are left goes only when *)
(* none are.  Until a run stops between its pull and its note, a checkout  *)
(* that is behind its own release is always known to be, and a shared      *)
(* program stamps the day on a healthy one only.  And the configurations   *)
(* an update rewrites, for any number of tools and runs: the key the       *)
(* server accepts is not lost.                                             *)
(***************************************************************************)
EXTENDS AutoUpdateProps, ClientConfig, TLAPS

(* One holder, who alone is past taking the lock. *)
LockInv ==
  /\ doing \in [Programs -> Doings]
  /\ holders \subseteq Programs
  /\ \A p, q \in holders : p = q
  /\ WorkUnderLock

(* How far the steps after the pull have come. *)
StepInv ==
  /\ \A p \in Programs : doing[p] = "sync" => deps = head
  /\ \A p \in Programs : doing[p] = "clear" => Healthy

Inv == LockInv /\ StepInv

(* A half-done checkout is noted, or about to be noted or finished by the run
   that made it so. *)
InHand == \E p \in Programs : Unnoted(p)

RememberInv ==
  /\ \A p \in NodeHooks : doing[p] \in {"idle", "lock", "stamp", "child", "left"}
  /\ \A p \in Programs \ Shared : doing[p] \notin {"note", "clear"}
  /\ Healthy \/ stepsLeft \/ InHand \/ forgotten
  /\ \A p \in Shared : doing[p] = "stamp" => Healthy \/ forgotten

-----------------------------------------------------------------------------
LEMMA InitInv == UpgradeInit => Inv /\ RememberInv
  BY ProgramKinds DEF UpgradeInit, Lock!Init, Inv, LockInv, StepInv, RememberInv, WorkUnderLock,
         Healthy, Doings, Programs

(* A step of one program leaves the others where they are. *)
LEMMA LockStep == LockInv /\ [UpgradeNext]_upgradeVars => LockInv'
<1> SUFFICES ASSUME LockInv, [UpgradeNext]_upgradeVars PROVE LockInv'
  OBVIOUS
<1> USE DEF LockInv, WorkUnderLock, GoesTo, Doings, UpgradeFault
<1>1. ASSUME NEW p \in Programs, StartUpgrade(p) PROVE LockInv'
  BY <1>1 DEF StartUpgrade
<1>2. ASSUME NEW p \in Programs, TakeLock(p) PROVE LockInv'
  BY <1>2 DEF TakeLock, FirstStep, Lock!Enter
<1>3. ASSUME NEW p \in Programs, LockHeld(p) PROVE LockInv'
  BY <1>3 DEF LockHeld
<1>4. ASSUME NEW p \in Programs,
             Fetch(p) \/ Decide(p) \/ Pull(p) \/ NoteSteps(p) \/ NpmInstall(p)
      PROVE  LockInv'
  BY <1>4 DEF Fetch, Decide, Pull, NoteSteps, NpmInstall
<1>5. ASSUME NEW p \in Programs,
             RunUpdateScript(p) \/ ClearSteps(p) \/ ChildSyncs(p) \/ ChildFails(p)
      PROVE  LockInv'
  BY <1>5 DEF RunUpdateScript, ClearSteps, ChildSyncs, ChildFails
<1>6. ASSUME NEW p \in Programs, Stamp(p) PROVE LockInv'
  BY <1>6 DEF Stamp
<1>7. ASSUME NEW p \in Programs, GiveBackLock(p) \/ LockGoesStale(p) \/ StepFails(p)
      PROVE  LockInv'
  BY <1>7 DEF GiveBackLock, LockGoesStale, StepFails, Lock!Exit
<1>8. ASSUME NEW p \in Programs, MarkFails(p) PROVE LockInv'
  BY <1>8 DEF MarkFails
<1>9. ASSUME NEW p \in Programs, UpgradeKilled(p) PROVE LockInv'
  BY <1>9 DEF UpgradeKilled
<1>10. CASE NewDay \/ Tag \/ UNCHANGED upgradeVars
  BY <1>10 DEF NewDay, Tag, upgradeVars
<1> QED BY <1>1, <1>2, <1>3, <1>4, <1>5, <1>6, <1>7, <1>8, <1>9, <1>10
        DEF UpgradeNext, Upgrade

(* Nobody else is past taking the lock while p is. *)
LEMMA Alone ==
  ASSUME LockInv, NEW p \in Programs, doing[p] \notin {"idle", "lock"}
  PROVE  \A q \in Programs : q # p => doing[q] \in {"idle", "lock"}
  BY DEF LockInv, WorkUnderLock

LEMMA StepStep == Inv /\ [UpgradeNext]_upgradeVars => StepInv'
<1> SUFFICES ASSUME Inv, [UpgradeNext]_upgradeVars PROVE StepInv'
  OBVIOUS
<1> USE DEF Inv, LockInv, StepInv, GoesTo, UpgradeFault, Healthy, tree, built
<1>1. ASSUME NEW p \in Programs, StartUpgrade(p) \/ LockHeld(p) \/ TakeLock(p) PROVE StepInv'
  BY <1>1 DEF StartUpgrade, LockHeld, TakeLock, FirstStep
<1>2. ASSUME NEW p \in Programs, Fetch(p) \/ Decide(p) \/ NoteSteps(p) PROVE StepInv'
  BY <1>2 DEF Fetch, Decide, NoteSteps
<1>3. ASSUME NEW p \in Programs, Pull(p) \/ NpmInstall(p) \/ RunUpdateScript(p) \/ ChildSyncs(p)
      PROVE  StepInv'
  BY <1>3, Alone DEF Pull, NpmInstall, RunUpdateScript, ChildSyncs
<1>4. ASSUME NEW p \in Programs, ClearSteps(p) \/ Stamp(p) \/ GiveBackLock(p) PROVE StepInv'
  BY <1>4 DEF ClearSteps, Stamp, GiveBackLock
<1>5. ASSUME NEW p \in Programs, LockGoesStale(p) \/ StepFails(p) \/ ChildFails(p) \/ UpgradeKilled(p)
      PROVE  StepInv'
  BY <1>5 DEF LockGoesStale, StepFails, ChildFails, UpgradeKilled
<1>6. ASSUME NEW p \in Programs, MarkFails(p) PROVE StepInv'
  BY <1>6 DEF MarkFails
<1>7. CASE NewDay \/ Tag \/ UNCHANGED upgradeVars
  BY <1>7 DEF NewDay, Tag, upgradeVars
<1> QED BY <1>1, <1>2, <1>3, <1>4, <1>5, <1>6, <1>7 DEF UpgradeNext, Upgrade

LEMMA Inductive == UpgradeSpec => []Inv
<1>1. Inv /\ [UpgradeNext]_upgradeVars => Inv'
  BY LockStep, StepStep DEF Inv
<1>2. UpgradeInit => Inv
  BY InitInv
<1> QED BY <1>1, <1>2, PTL DEF UpgradeSpec

(* Only the lock's holder works in the directory (shared/auto-update.js and
   both SessionStart hooks). *)
THEOREM WorkUnderLockHolds == UpgradeSpec => []WorkUnderLock
<1>1. Inv => WorkUnderLock
  BY DEF Inv, LockInv
<1> QED BY <1>1, Inductive, PTL

(* Every variable stays in its domain; the lock's part of it is in LockInv. *)
THEOREM TypeCorrect == UpgradeSpec => []UpgradeTypeOK
<1> DEFINE Numbers == /\ newest \in Releases /\ tags \in Releases /\ head \in Releases
                      /\ deps \in Releases /\ synced \in Releases /\ upgradeFaults \in 0..MaxUpgradeFaults
           Flags == stepsLeft \in BOOLEAN /\ sharedMark \in BOOLEAN /\ hookMark \in BOOLEAN
                    /\ startedToday \in [Programs -> BOOLEAN]
           History == forgotten \in BOOLEAN
<1>1. UpgradeInit => Numbers /\ Flags
  <2>1. UpgradeInit => Numbers
    BY UpgradeBounds DEF UpgradeInit, Releases
  <2>2. UpgradeInit => Flags
    BY DEF UpgradeInit
  <2> QED BY <2>1, <2>2
<1>2. Numbers /\ [UpgradeNext]_upgradeVars => Numbers'
  BY UpgradeBounds DEF Releases, UpgradeNext, Upgrade, UpgradeFault, tree, built, marks, env, upgradeVars, StartUpgrade,
     TakeLock, LockHeld, Fetch, Decide, Pull, NoteSteps, NpmInstall, RunUpdateScript, ClearSteps,
     Stamp, GiveBackLock, ChildSyncs, LockGoesStale, StepFails, ChildFails, MarkFails, UpgradeKilled,
     NewDay, Tag
<1>3. Flags /\ [UpgradeNext]_upgradeVars => Flags'
  <2> SUFFICES ASSUME Flags, [UpgradeNext]_upgradeVars PROVE Flags'
    OBVIOUS
  <2>1. ASSUME NEW p \in Programs, Stamp(p) PROVE Flags'
    BY <2>1 DEF Stamp
  <2>2. ASSUME NEW p \in Programs, StartUpgrade(p) PROVE Flags'
    BY <2>2 DEF StartUpgrade, marks
  <2>3. CASE NewDay
    BY <2>3 DEF NewDay
  <2>4. ASSUME UNCHANGED <<sharedMark, hookMark, startedToday>>, stepsLeft' \in {stepsLeft, TRUE, FALSE}
        PROVE  Flags'
    BY <2>4
  <2>5. ASSUME NEW p \in Programs, NoteSteps(p) \/ ClearSteps(p) PROVE Flags'
    BY <2>4, <2>5 DEF NoteSteps, ClearSteps
  <2>6. CASE UNCHANGED <<marks, startedToday>>
    BY <2>4, <2>6 DEF marks
  <2> QED BY <2>1, <2>2, <2>3, <2>5, <2>6 DEF UpgradeNext, Upgrade, upgradeVars, TakeLock, LockHeld, Fetch,
       Decide, Pull, NpmInstall, RunUpdateScript, GiveBackLock, ChildSyncs, LockGoesStale,
       StepFails, ChildFails, MarkFails, UpgradeKilled, Tag
<1>4. UpgradeInit => History
  BY DEF UpgradeInit
<1>5. History /\ [UpgradeNext]_upgradeVars => History'
  BY DEF UpgradeNext, Upgrade, StopsUnnoted, marks, env, upgradeVars, StartUpgrade, TakeLock, LockHeld, Fetch, Decide,
     Pull, NoteSteps, NpmInstall, RunUpdateScript, ClearSteps, Stamp, GiveBackLock, ChildSyncs,
     LockGoesStale, StepFails, ChildFails, MarkFails, UpgradeKilled, NewDay, Tag
<1>6. Inv /\ Numbers /\ Flags /\ History => UpgradeTypeOK
  BY DEF UpgradeTypeOK, Inv, LockInv
<1> HIDE DEF Numbers, Flags, History
<1> QED BY <1>1, <1>2, <1>3, <1>4, <1>5, <1>6, Inductive, PTL DEF UpgradeSpec

(* The steps marker goes only when the steps are done. *)
THEOREM NoteKept == UpgradeSpec => NoteKeptUntilDone
<1>1. Inv /\ [UpgradeNext]_upgradeVars => [stepsLeft /\ ~stepsLeft' => Healthy]_upgradeVars
  <2> SUFFICES ASSUME Inv, UpgradeNext, stepsLeft, ~stepsLeft' PROVE Healthy
    BY DEF upgradeVars, marks
  <2>1. PICK p \in Programs : ClearSteps(p)
    BY DEF UpgradeNext, Upgrade, StartUpgrade, TakeLock, LockHeld, Fetch, Decide, Pull, NoteSteps, NpmInstall,
           RunUpdateScript, Stamp, GiveBackLock, ChildSyncs, LockGoesStale, StepFails, ChildFails,
           MarkFails, UpgradeKilled, NewDay, Tag, marks
  <2> QED BY <2>1 DEF ClearSteps, Inv, StepInv
<1> QED BY <1>1, Inductive, PTL DEF UpgradeSpec, NoteKeptUntilDone

(* A checkout that is behind its own release is known to be. *)
LEMMA RememberStep ==
  ASSUME Inv, RememberInv, [UpgradeNext]_upgradeVars
  PROVE  RememberInv'
<1> USE ProgramKinds
        DEF Inv, LockInv, RememberInv, InHand, Unnoted, StopsUnnoted, GoesTo, UpgradeFault, Healthy, tree,
            built, marks, env
<1>1. ASSUME NEW p \in Programs, StartUpgrade(p) \/ LockHeld(p) \/ TakeLock(p) PROVE RememberInv'
  BY <1>1 DEF StartUpgrade, LockHeld, TakeLock, FirstStep, Programs
<1>2. ASSUME NEW p \in Programs, Fetch(p) PROVE RememberInv'
  BY <1>2 DEF Fetch, Programs
<1>3. ASSUME NEW p \in Programs, Decide(p) PROVE RememberInv'
  BY <1>3, Alone DEF Decide, Programs
<1>4. ASSUME NEW p \in Programs, Pull(p) PROVE RememberInv'
  <2>1. p \in Shared \cup ShellHooks
    BY <1>4 DEF Pull, Programs
  <2>2. \A q \in Programs : q # p => doing'[q] \in {"idle", "lock"}
    BY <1>4, Alone DEF Pull
  <2>3. doing'[p] = IF p \in Shared THEN "note" ELSE "npm"
    BY <1>4 DEF Pull
  <2> QED BY <1>4, <2>1, <2>2, <2>3 DEF Pull, Programs
<1>5. ASSUME NEW p \in Programs, NoteSteps(p) PROVE RememberInv'
  BY <1>5, Alone DEF NoteSteps, Programs
<1>6. ASSUME NEW p \in Programs, NpmInstall(p) PROVE RememberInv'
  BY <1>6, Alone DEF NpmInstall, Programs
<1>7. ASSUME NEW p \in Programs, RunUpdateScript(p) \/ ChildSyncs(p) PROVE RememberInv'
  BY <1>7, Alone DEF RunUpdateScript, ChildSyncs, StepInv, Programs
<1>8. ASSUME NEW p \in Programs, ClearSteps(p) PROVE RememberInv'
  BY <1>8, Alone DEF ClearSteps, StepInv, Programs
<1>9. ASSUME NEW p \in Programs, Stamp(p) \/ GiveBackLock(p) PROVE RememberInv'
  BY <1>9, Alone DEF Stamp, GiveBackLock, Programs
<1>10. ASSUME NEW p \in Programs, LockGoesStale(p) \/ ChildFails(p)
       PROVE  RememberInv'
  BY <1>10, Alone DEF LockGoesStale, ChildFails, Programs
<1>11. ASSUME NEW p \in Programs, StepFails(p) \/ UpgradeKilled(p) PROVE RememberInv'
  BY <1>11, Alone DEF StepFails, UpgradeKilled, Programs
<1>12. ASSUME NEW p \in Programs, MarkFails(p) PROVE RememberInv'
  BY <1>12, Alone DEF MarkFails, StepInv, Programs
<1>13. CASE NewDay \/ Tag \/ UNCHANGED upgradeVars
  BY <1>13 DEF NewDay, Tag, upgradeVars, Programs
<1> QED BY <1>1, <1>2, <1>3, <1>4, <1>5, <1>6, <1>7, <1>8, <1>9, <1>10, <1>11, <1>12, <1>13
        DEF UpgradeNext, Upgrade

LEMMA Remembers == UpgradeSpec => [](Inv /\ RememberInv)
<1>1. Inv /\ RememberInv /\ [UpgradeNext]_upgradeVars => Inv' /\ RememberInv'
  BY LockStep, StepStep, RememberStep DEF Inv
<1> QED BY <1>1, InitInv, PTL DEF UpgradeSpec

(* Between upgrades a checkout whose dependencies or hooks are behind carries
   the steps marker (shared/auto-update.js, "a failure has to be remembered"). *)
THEOREM StepsRememberedHolds == UpgradeSpec => []StepsRemembered
<1>1. Inv /\ RememberInv => StepsRemembered
  BY DEF Inv, LockInv, WorkUnderLock, RememberInv, InHand, Unnoted, StepsRemembered
<1> QED BY <1>1, Remembers, PTL

(* A shared program stamps the day on a healthy checkout only. *)
THEOREM StampedHealthyHolds == UpgradeSpec => StampedHealthy
<1>1. RememberInv => (forgotten \/ \A p \in Shared : StampsDay(p) => Healthy)
  BY DEF RememberInv, StampsDay
<1> QED BY <1>1, Remembers, PTL DEF UpgradeSpec, StampedHealthy

-----------------------------------------------------------------------------
(* The configurations of the tools *)

(* The accepted key is in a file, on a screen, or gone as the code accepts. *)
InFiles(k) == \E f \in Copies : config[f].key = k
Safe == InFiles(serverKey) \/ serverKey \in told \cup slipped

KnownText == [old : BOOLEAN, key : 0..serverKey]
RunStages == {"idle", "prepare", "issue", "ask", "keep", "swap", "write"}
Printed == {"no", "file", "steps"}

(* Keys are handed out in order, and nobody knows one from the future. *)
ConfigShape ==
  /\ serverKey \in Nat \ {0} /\ config \in [Copies -> KnownText]
  /\ change \in [Changes -> [at : RunStages, old : 0..serverKey, new : 0..serverKey, next : Nat \ {0},
                             text : KnownText, wrote : BOOLEAN, hurt : BOOLEAN, kept : Printed]]
  /\ mover \in [at : {"idle", "scan", "write"}, next : Nat \ {0}, text : KnownText]

(* A run that has not got its new key works with one that is in a file, if it
   is still accepted; one that has it replaces keys of the past only, and has
   written what it says it has. *)
Before(r) == change[r].at \in {"prepare", "issue", "ask"} =>
  change[r].new = NoKey /\ ~change[r].wrote /\ (change[r].old = serverKey => Safe)
After(r) ==
  /\ change[r].at \in {"keep", "swap", "write"} => change[r].old < serverKey
  /\ change[r].at = "write" => change[r].next \in DOMAIN Tools /\ change[r].text.key = change[r].old
  /\ change[r].wrote /\ change[r].new = serverKey => Safe
RunInv == \A r \in Changes : Before(r) /\ After(r)

(* A run may hold the only copy on its way from the server to the disk, or to
   the screen at its end. *)
Holds(r) == change[r].at = "keep" \/ (change[r].at \in {"swap", "write"} /\ change[r].kept = "steps")
OnItsWay == \E r \in Changes : (Holds(r) /\ change[r].new = serverKey) \/ change[r].at = "ask"
KeptInv == Safe \/ recovery = serverKey \/ OnItsWay

ConfigInv == ConfigShape /\ RunInv /\ KeptInv

LEMMA ConfigInitInv == ConfigInit => ConfigInv
<1> SUFFICES ASSUME ConfigInit PROVE ConfigInv
  OBVIOUS
<1>1. serverKey = 1 /\ change = [r \in Changes |-> NoChange] /\ mover = NoMove
  BY DEF ConfigInit
<1>2. config \in [Copies -> KnownText] /\ config[Claude].key = serverKey
  BY <1>1 DEF ConfigInit, KnownText, NoKey
<1>3. ConfigShape
  BY <1>1, <1>2 DEF ConfigShape, KnownText, NoChange, NoMove, NoText, NoKey, RunStages, Printed
<1>4. Safe
  BY <1>2, ConfigConstants DEF Safe, InFiles
<1>5. RunInv
  BY <1>1, <1>4 DEF RunInv, Before, After, NoChange
<1> QED
  BY <1>3, <1>4, <1>5 DEF ConfigInv, KeptInv

(* Writing a text over a file takes no accepted key away unseen. *)
LEMMA SafeOverwritten ==
  ASSUME ConfigShape, Safe, UNCHANGED <<serverKey, told>>,
         NEW f \in Copies, NEW old, NEW new \in KnownText, config' = [config EXCEPT ![f] = new],
         slipped' = slipped \cup Overwritten(f, old),
         old.key # serverKey \/ new.key = serverKey
  PROVE  Safe'
<1>1. CASE serverKey \in told \cup slipped
  BY <1>1 DEF Safe
<1>2. CASE InFiles(serverKey)
  <2>1. PICK g \in Copies : config[g].key = serverKey
    BY <1>2 DEF InFiles
  <2>2. CASE g # f
    BY <2>1, <2>2 DEF ConfigShape, Safe, InFiles
  <2>3. CASE g = f /\ new.key = serverKey
    BY <2>3 DEF ConfigShape, Safe, InFiles
  <2>4. CASE g = f /\ old.key # serverKey
    BY <2>1, <2>4 DEF ConfigShape, Safe, Overwritten, NoKey
  <2> QED
    BY <2>2, <2>3, <2>4
<1> QED
  BY <1>1, <1>2 DEF Safe

LEMMA SafeKept ==
  ASSUME Safe, UNCHANGED <<config, serverKey>>, told \subseteq told', slipped \subseteq slipped'
  PROVE  Safe'
  BY DEF Safe, InFiles

(* A step of a run r that leaves the key and the files as they are. *)
LEMMA RunMoves ==
  ASSUME ConfigInv, UNCHANGED <<config, serverKey, mover>>, told \subseteq told', slipped \subseteq slipped',
         NEW r \in Changes, change' = [change EXCEPT ![r] = change'[r]],
         change'[r] \in [at : RunStages, old : 0..serverKey, new : 0..serverKey, next : Nat \ {0},
                         text : KnownText, wrote : BOOLEAN, hurt : BOOLEAN, kept : Printed],
         (Before(r) /\ After(r))', KeptInv'
  PROVE  ConfigInv'
<1>1. ConfigShape /\ RunInv
  BY DEF ConfigInv
<1>2. ConfigShape'
  BY <1>1 DEF ConfigShape, KnownText
<1>3. RunInv'
  <2> SUFFICES ASSUME NEW q \in Changes, q # r PROVE (Before(q) /\ After(q))'
    BY DEF RunInv
  <2>1. change'[q] = change[q]
    BY <1>1 DEF ConfigShape
  <2>2. Safe => Safe'
    BY SafeKept
  <2> QED
    BY <1>1, <2>1, <2>2 DEF RunInv, Before, After
<1> QED
  BY <1>2, <1>3 DEF ConfigInv

(* A new key: nothing that is written down anywhere is it. *)
LEMMA KeyIssued ==
  ASSUME ConfigShape, RunInv, serverKey' = serverKey + 1, UNCHANGED <<config, mover>>
  PROVE  /\ serverKey' \in Nat \ {0} /\ KnownText \subseteq KnownText'
         /\ config \in [Copies -> KnownText'] /\ mover \in [at : {"idle", "scan", "write"}, next : Nat \ {0}, text : KnownText']
         /\ \A r \in Changes :
              /\ change[r] \in [at : RunStages, old : 0..serverKey', new : 0..serverKey', next : Nat \ {0},
                             text : KnownText', wrote : BOOLEAN, hurt : BOOLEAN, kept : Printed]
              /\ change[r].old < serverKey' /\ change[r].new < serverKey'
              /\ change'[r] = change[r] => (Before(r) /\ After(r))'
<1>1. serverKey' \in Nat \ {0} /\ 0..serverKey \subseteq 0..serverKey'
  BY DEF ConfigShape
<1>2. KnownText \subseteq KnownText'
  BY <1>1 DEF KnownText
<1>3. config \in [Copies -> KnownText'] /\ mover \in [at : {"idle", "scan", "write"}, next : Nat \ {0}, text : KnownText']
  BY <1>2 DEF ConfigShape
<1>4. ASSUME NEW r \in Changes
      PROVE  /\ change[r] \in [at : RunStages, old : 0..serverKey', new : 0..serverKey', next : Nat \ {0},
                             text : KnownText', wrote : BOOLEAN, hurt : BOOLEAN, kept : Printed]
             /\ change[r].old < serverKey' /\ change[r].new < serverKey'
             /\ change'[r] = change[r] => (Before(r) /\ After(r))'
  <2>1. change[r] \in [at : RunStages, old : 0..serverKey, new : 0..serverKey, next : Nat \ {0},
                       text : KnownText, wrote : BOOLEAN, hurt : BOOLEAN, kept : Printed]
    BY DEF ConfigShape
  <2>2. change[r] \in [at : RunStages, old : 0..serverKey', new : 0..serverKey', next : Nat \ {0},
                       text : KnownText', wrote : BOOLEAN, hurt : BOOLEAN, kept : Printed]
    BY <1>1, <1>2, <2>1
  <2>3. change[r].old < serverKey' /\ change[r].new < serverKey'
    BY <2>1 DEF ConfigShape
  <2>4. Before(r) /\ After(r)
    BY DEF RunInv
  <2> QED
    BY <2>2, <2>3, <2>4 DEF Before, After, ConfigShape
<1> QED
  BY <1>1, <1>2, <1>3, <1>4

(* What another run put into the recovery file slips when it is replaced. *)
LEMMA RecoveryReplaced ==
  ASSUME ConfigInv, NEW r \in Changes, UNCHANGED <<config, serverKey>>, told \subseteq told',
         slipped' = slipped \cup Another(r),
         change[r].old = serverKey => Safe, change[r].new = serverKey => Safe \/ recovery' = serverKey
  PROVE  Safe \/ recovery = serverKey => (Safe \/ recovery = serverKey)'
<1>1. CASE Safe
  BY <1>1, SafeKept
<1>2. CASE recovery = serverKey /\ change[r].old # serverKey /\ change[r].new # serverKey
  <2>1. serverKey \in Another(r)
    BY <1>2 DEF Another, NoKey, ConfigInv, ConfigShape
  <2> QED
    BY <2>1 DEF Safe
<1> QED
  BY <1>1, <1>2

LEMMA ConfigStepInv == ConfigInv /\ [ConfigNext]_configVars => ConfigInv'
<1> SUFFICES ASSUME ConfigInv, [ConfigNext]_configVars PROVE ConfigInv'
  OBVIOUS
<1> DEFINE Runs == [at : RunStages, old : 0..serverKey, new : 0..serverKey, next : Nat \ {0},
                    text : KnownText, wrote : BOOLEAN, hurt : BOOLEAN, kept : Printed]
<1>0. ConfigShape /\ RunInv /\ KeptInv
  BY DEF ConfigInv
<1>a. NoChange \in Runs /\ NoChange.at = "idle" /\ NoChange.new = NoKey /\ ~NoChange.wrote
  BY <1>0 DEF ConfigShape, NoChange, NoText, NoKey, KnownText, RunStages, Printed
<1>b. ASSUME NEW r \in Changes, NEW c, Goes(r, c)
      PROVE  change'[r] = c /\ change' = [change EXCEPT ![r] = change'[r]]
             /\ \A q \in Changes \ {r} : change'[q] = change[q]
  BY <1>0, <1>b DEF Goes, ConfigShape
<1>c. \A r \in Changes : change[r] \in Runs
  BY <1>0 DEF ConfigShape
<1>d. serverKey \in 0..serverKey
  BY <1>0 DEF ConfigShape
<1>1. CASE ConsoleRotates
  <2>1. /\ serverKey' = serverKey + 1 /\ serverKey' \in told'
        /\ UNCHANGED <<config, change, mover>>
    BY <1>1 DEF ConsoleRotates, IssueKey
  <2>2. ConfigShape'
    BY <1>0, <2>1, KeyIssued DEF ConfigShape
  <2>3. RunInv'
    BY <1>0, <2>1, KeyIssued DEF RunInv
  <2> QED
    BY <2>1, <2>2, <2>3 DEF ConfigInv, KeptInv, Safe
<1>2. ASSUME NEW r \in Changes, StartRotate(r) PROVE ConfigInv'
  <2> DEFINE c == [NoChange EXCEPT !.at = "prepare", !.old = serverKey, !.kept = "file"]
  <2>1. /\ change[r].at = "idle" /\ config[Claude].key = serverKey /\ Goes(r, c)
        /\ UNCHANGED <<config, serverKey, recovery, mover, told, slipped>>
    BY <1>2 DEF StartRotate
  <2>2. c \in Runs /\ c.at = "prepare" /\ c.new = NoKey /\ ~c.wrote
    BY <1>a, <1>d DEF RunStages, Printed
  <2> HIDE DEF c
  <2>3. Safe /\ Safe'
    BY <2>1, ConfigConstants DEF Safe, InFiles
  <2>4. (Before(r) /\ After(r))'
    BY <1>b, <2>1, <2>2, <2>3 DEF Before, After
  <2>5. KeptInv'
    BY <2>3 DEF KeptInv
  <2> QED
    BY <1>b, <2>1, <2>2, <2>4, <2>5, RunMoves
<1>3. ASSUME NEW r \in Changes, StartSet(r) PROVE ConfigInv'
  <2> DEFINE c == [NoChange EXCEPT !.at = "swap", !.old = config[Claude].key, !.new = serverKey]
  <2>1. /\ change[r].at = "idle" /\ config[Claude].key # serverKey /\ Goes(r, c)
        /\ UNCHANGED <<config, serverKey, recovery, mover, told, slipped>>
    BY <1>3 DEF StartSet
  <2>2. config[Claude].key \in 0..serverKey
    BY <1>0, ConfigConstants DEF ConfigShape, KnownText
  <2>3. c \in Runs /\ c.at = "swap" /\ c.old = config[Claude].key /\ ~c.wrote
    BY <1>a, <1>d, <2>2 DEF RunStages, Printed
  <2> HIDE DEF c
  <2>4. (Before(r) /\ After(r))'
    BY <1>0, <1>b, <2>1, <2>2, <2>3 DEF Before, After, ConfigShape
  <2>5. KeptInv'
    BY <1>0, <1>b, <1>c, <2>1, SafeKept DEF KeptInv, OnItsWay, Holds
  <2> QED
    BY <1>b, <2>1, <2>3, <2>4, <2>5, RunMoves
<1>4. ASSUME NEW r \in Changes, PrepareRecovery(r) PROVE ConfigInv'
  <2> DEFINE c == [change[r] EXCEPT !.at = "issue"]
  <2>1. /\ change[r].at = "prepare" /\ Goes(r, c) /\ slipped' = slipped \cup Another(r)
        /\ UNCHANGED <<config, serverKey, mover, told>>
    BY <1>4 DEF PrepareRecovery, RemoveRecovery
  <2>2. /\ c \in Runs /\ c.at = "issue" /\ c.old = change[r].old /\ c.new = change[r].new
        /\ c.wrote = change[r].wrote
    BY <1>c DEF RunStages, Printed
  <2> HIDE DEF c
  <2>3. Before(r) /\ After(r)
    BY <1>0 DEF RunInv
  <2>4. Safe => Safe'
    BY <2>1, SafeKept
  <2>5. (Before(r) /\ After(r))'
    BY <1>b, <2>1, <2>2, <2>3, <2>4 DEF Before, After
  <2>6. Safe \/ recovery = serverKey => (Safe \/ recovery = serverKey)'
    BY <1>0, <2>1, <2>3, RecoveryReplaced DEF Before, ConfigShape, NoKey
  <2>7. KeptInv'
    BY <1>0, <1>b, <2>1, <2>6 DEF KeptInv, OnItsWay, Holds
  <2> QED
    BY <1>b, <2>1, <2>2, <2>5, <2>7, RunMoves
<1>5. ASSUME NEW r \in Changes, RotateOnServer(r) PROVE ConfigInv'
  <2> DEFINE c == [change[r] EXCEPT !.at = "keep", !.new = serverKey']
  <2>1. /\ change[r].at = "issue" /\ serverKey = change[r].old /\ serverKey' = serverKey + 1 /\ Goes(r, c)
        /\ UNCHANGED <<config, mover>>
    BY <1>5 DEF RotateOnServer, IssueKey
  <2>2. /\ serverKey' \in Nat \ {0} /\ change[r] \in Runs /\ change[r].old < serverKey'
        /\ change[r] \in Runs' /\ serverKey' \in 0..serverKey'
    BY <1>0, <1>c, <2>1, KeyIssued
  <2>3. Before(r) /\ After(r)
    BY <1>0 DEF RunInv
  <2>4. /\ c \in Runs' /\ c.at = "keep" /\ c.new = serverKey' /\ c.old = change[r].old
        /\ c.wrote = change[r].wrote
    BY <2>2 DEF RunStages, Printed
  <2> HIDE DEF c
  <2>5. ConfigShape'
    BY <1>0, <1>b, <2>1, <2>2, <2>4, KeyIssued DEF ConfigShape
  <2>6. RunInv'
    <3>1. Before(r)' /\ After(r)'
      BY <1>b, <2>1, <2>2, <2>3, <2>4 DEF Before, After
    <3>2. ASSUME NEW q \in Changes \ {r} PROVE (Before(q) /\ After(q))'
      BY <1>0, <1>b, <2>1, KeyIssued
    <3> QED
      BY <3>1, <3>2 DEF RunInv
  <2>7. KeptInv'
    BY <1>b, <2>1, <2>4 DEF KeptInv, OnItsWay, Holds
  <2> QED
    BY <2>5, <2>6, <2>7 DEF ConfigInv
<1>6. ASSUME NEW r \in Changes, RotateUnanswered(r) PROVE ConfigInv'
  <2> DEFINE c == [change[r] EXCEPT !.at = "ask"]
  <2>1. /\ change[r].at = "issue" /\ Goes(r, c) /\ slipped' = slipped \cup Another(r)
        /\ serverKey' \in {serverKey, serverKey + 1}
        /\ UNCHANGED <<config, mover, told>>
    BY <1>6 DEF RotateUnanswered, RemoveRecovery, IssueKey
  <2>2. Before(r) /\ After(r)
    BY <1>0 DEF RunInv
  <2>3. /\ c.at = "ask" /\ c.old = change[r].old /\ c.new = change[r].new /\ c.wrote = change[r].wrote
        /\ c \in Runs /\ (change[r] \in Runs' => c \in Runs')
    BY <1>c DEF RunStages, Printed
  <2> HIDE DEF c
  <2>4. KeptInv'
    BY <1>b, <2>1, <2>3 DEF KeptInv, OnItsWay, Holds
  <2>5. CASE serverKey' = serverKey
    <3>1. Safe => Safe'
      BY <2>1, <2>5, SafeKept
    <3>2. (Before(r) /\ After(r))'
      BY <1>b, <2>1, <2>2, <2>3, <2>5, <3>1 DEF Before, After
    <3> QED
      BY <1>b, <2>1, <2>3, <2>4, <2>5, <3>2, RunMoves
  <2>6. CASE serverKey' = serverKey + 1
    <3>1. ConfigShape'
      BY <1>0, <1>b, <2>1, <2>3, <2>6, KeyIssued DEF ConfigShape
    <3>2. Before(r)' /\ After(r)'
      <4>1. change[r].old < serverKey'
        BY <1>0, <2>1, <2>6, KeyIssued
      <4> QED
        BY <1>b, <2>1, <2>2, <2>3, <3>1, <4>1 DEF Before, After, NoKey, ConfigShape
    <3>3. ASSUME NEW q \in Changes \ {r} PROVE (Before(q) /\ After(q))'
      BY <1>0, <1>b, <2>1, <2>6, KeyIssued
    <3> QED
      BY <2>4, <3>1, <3>2, <3>3 DEF ConfigInv, RunInv
  <2> QED
    BY <2>1, <2>5, <2>6
<1>7. ASSUME NEW r \in Changes, AskWithOldKey(r) PROVE ConfigInv'
  <2>1. /\ change[r].at = "ask" /\ Goes(r, NoChange)
        /\ UNCHANGED <<config, serverKey, recovery, mover>>
        /\ told \subseteq told' /\ slipped \subseteq slipped'
        /\ serverKey # change[r].old => serverKey \in told' \cup slipped'
    BY <1>7 DEF AskWithOldKey
  <2>2. Safe'
    <3>1. CASE serverKey = change[r].old
      BY <1>0, <2>1, <3>1, SafeKept DEF RunInv, Before
    <3>2. CASE serverKey # change[r].old
      BY <2>1, <3>2 DEF Safe
    <3> QED
      BY <3>1, <3>2
  <2>3. (Before(r) /\ After(r))' /\ KeptInv'
    BY <1>a, <1>b, <2>1, <2>2 DEF Before, After, KeptInv
  <2> QED
    BY <1>a, <1>b, <2>1, <2>3, RunMoves
<1>8. ASSUME NEW r \in Changes, KeepKey(r) PROVE ConfigInv'
  <2>1. /\ change[r].at = "keep" /\ UNCHANGED <<config, serverKey, mover, told>>
        /\ \/ /\ recovery' = change[r].new /\ slipped' = slipped \cup Another(r)
              /\ Goes(r, [change[r] EXCEPT !.at = "swap"])
           \/ /\ UNCHANGED <<recovery, slipped>> \/ RemoveRecovery(r)
              /\ Goes(r, [change[r] EXCEPT !.at = "swap", !.kept = "steps"])
    BY <1>8 DEF KeepKey
  <2>2. Before(r) /\ After(r)
    BY <1>0 DEF RunInv
  <2>3. PICK c \in Runs :
          /\ Goes(r, c) /\ c.at = "swap" /\ c.old = change[r].old /\ c.new = change[r].new
          /\ c.wrote = change[r].wrote /\ (c.kept = "steps" \/ recovery' = change[r].new)
    <3>1. [change[r] EXCEPT !.at = "swap"] \in Runs /\ [change[r] EXCEPT !.at = "swap", !.kept = "steps"] \in Runs
      BY <1>c DEF RunStages, Printed
    <3>2. CASE Goes(r, [change[r] EXCEPT !.at = "swap"]) /\ recovery' = change[r].new
      BY <1>c, <3>1, <3>2
    <3>3. CASE Goes(r, [change[r] EXCEPT !.at = "swap", !.kept = "steps"])
      BY <1>c, <3>1, <3>3
    <3> QED
      BY <2>1, <3>2, <3>3
  <2>4. slipped \subseteq slipped' /\ (Safe => Safe')
    BY <2>1, SafeKept DEF RemoveRecovery
  <2>5. (Before(r) /\ After(r))'
    BY <1>b, <2>1, <2>2, <2>3, <2>4 DEF Before, After
  \* The key this run brings is in the file, or in the run until it is printed.
  <2>6. CASE change[r].new = serverKey
    <3>1. KeptInv'
      BY <1>b, <2>1, <2>3, <2>6 DEF KeptInv, OnItsWay, Holds
    <3> QED
      BY <1>b, <2>1, <2>3, <2>4, <2>5, <3>1, RunMoves
  <2>7. CASE change[r].new # serverKey
    <3>1. Safe \/ recovery = serverKey => (Safe \/ recovery = serverKey)'
      <4>1. CASE slipped' = slipped \cup Another(r)
        BY <1>0, <2>1, <2>2, <2>7, <4>1, RecoveryReplaced DEF After, ConfigShape
      <4>2. CASE UNCHANGED recovery
        BY <2>4, <4>2, <2>1
      <4> QED
        BY <2>1, <4>1, <4>2 DEF RemoveRecovery
    <3>2. KeptInv'
      BY <1>0, <1>b, <2>1, <2>7, <3>1 DEF KeptInv, OnItsWay, Holds
    <3> QED
      BY <1>b, <2>1, <2>3, <2>4, <2>5, <3>2, RunMoves
  <2> QED
    BY <2>6, <2>7
<1>9. ASSUME NEW r \in Changes, LoadFile(r) PROVE ConfigInv'
  <2>1. PICK i \in StillOld(r) :
          /\ change[r].at = "swap" /\ UNCHANGED <<config, serverKey, recovery, mover, told, slipped>>
          /\ Goes(r, [change[r] EXCEPT !.at = "write", !.next = i, !.text = config[Tools[i]]])
    BY <1>9 DEF LoadFile
  <2> DEFINE c == [change[r] EXCEPT !.at = "write", !.next = i, !.text = config[Tools[i]]]
  <2>2. Before(r) /\ After(r)
    BY <1>0 DEF RunInv
  <2>3. i \in DOMAIN Tools /\ i \in Nat \ {0} /\ Tools[i] \in Copies /\ config[Tools[i]].key = change[r].old
    BY <1>c, <2>1, ConfigConstants DEF StillOld, Copies
  <2>4. config[Tools[i]] \in KnownText
    BY <1>0, <2>3 DEF ConfigShape
  <2>5. /\ c \in Runs /\ c.at = "write" /\ c.old = change[r].old /\ c.new = change[r].new /\ c.wrote = change[r].wrote
        /\ c.kept = change[r].kept /\ c.next = i /\ c.text = config[Tools[i]] /\ Goes(r, c)
    BY <1>c, <2>1, <2>3, <2>4 DEF RunStages, Printed
  <2> HIDE DEF c
  <2>6. (Before(r) /\ After(r))'
    <3>1. Safe => Safe'
      BY <2>1, SafeKept
    <3> QED
      BY <1>b, <2>1, <2>2, <2>3, <2>5, <3>1 DEF Before, After
  <2>7. KeptInv'
    BY <1>0, <1>b, <2>1, <2>5, SafeKept DEF KeptInv, OnItsWay, Holds
  <2> QED
    BY <1>b, <2>1, <2>5, <2>6, <2>7, RunMoves
<1>10. ASSUME NEW r \in Changes, WriteFile(r) PROVE ConfigInv'
  <2> DEFINE c == [PastFile(r) EXCEPT !.wrote = TRUE]
             new == [change[r].text EXCEPT !.key = change[r].new]
  <2>1. /\ change[r].at = "write" /\ config' = [config EXCEPT ![File(r)] = new]
        /\ slipped' = slipped \cup Overwritten(File(r), change[r].text)
        /\ Goes(r, c) /\ UNCHANGED <<serverKey, recovery, mover, told>>
    BY <1>10 DEF WriteFile
  <2>2. Before(r) /\ After(r)
    BY <1>0 DEF RunInv
  <2>3. File(r) \in Copies /\ change[r].text.key < serverKey
    BY <2>1, <2>2 DEF After, File, Copies
  <2>4. new \in KnownText /\ new.key = change[r].new
    BY <1>c DEF KnownText
  <2>5. /\ c \in Runs /\ c.at = "swap" /\ c.old = change[r].old /\ c.new = change[r].new
        /\ c.kept = change[r].kept
    <3>1. NoText \in KnownText /\ change[r].next + 1 \in Nat \ {0}
      BY <1>0, <1>c DEF NoText, NoKey, KnownText, ConfigShape
    <3>2. /\ PastFile(r) \in Runs /\ PastFile(r).at = "swap"
          /\ PastFile(r).old = change[r].old /\ PastFile(r).new = change[r].new /\ PastFile(r).kept = change[r].kept
      BY <1>c, <3>1 DEF PastFile, RunStages, Printed
    <3> QED
      BY <3>2
  <2> HIDE DEF c, new
  <2>6. serverKey # change[r].text.key
    BY <1>0, <2>3 DEF ConfigShape
  <2>7. Safe => Safe'
    BY <1>0, <2>1, <2>3, <2>4, <2>6, SafeOverwritten
  <2>8. change[r].new = serverKey => Safe'
    BY <1>0, <2>1, <2>3, <2>4 DEF ConfigShape, Safe, InFiles
  <2>9. ConfigShape'
    <3>1. change' \in [Changes -> Runs] /\ config' \in [Copies -> KnownText]
      BY <1>0, <2>1, <2>3, <2>4, <2>5 DEF Goes, ConfigShape
    <3> QED
      BY <1>0, <2>1, <3>1 DEF ConfigShape, KnownText
  <2>10. RunInv'
    <3>1. Before(r)' /\ After(r)'
      BY <1>b, <2>1, <2>2, <2>5, <2>8 DEF Before, After
    <3>2. ASSUME NEW q \in Changes \ {r} PROVE (Before(q) /\ After(q))'
      BY <1>0, <1>b, <2>1, <2>7 DEF RunInv, Before, After
    <3> QED
      BY <3>1, <3>2 DEF RunInv
  <2>11. KeptInv'
    <3>1. Holds(r)' <=> Holds(r)
      BY <1>b, <2>1, <2>5 DEF Holds
    <3> QED
      BY <1>0, <1>b, <2>1, <2>5, <2>7, <3>1 DEF KeptInv, OnItsWay, Holds
  <2> QED
    BY <2>9, <2>10, <2>11 DEF ConfigInv
<1>11. ASSUME NEW r \in Changes, WriteFails(r) PROVE ConfigInv'
  <2> DEFINE c == [PastFile(r) EXCEPT !.hurt = TRUE]
  <2>1. /\ change[r].at = "write" /\ Goes(r, c)
        /\ UNCHANGED <<config, serverKey, recovery, mover, told, slipped>>
    BY <1>11 DEF WriteFails
  <2>2. Before(r) /\ After(r)
    BY <1>0 DEF RunInv
  <2>3. /\ c \in Runs /\ c.at = "swap" /\ c.old = change[r].old /\ c.new = change[r].new
        /\ c.wrote = change[r].wrote /\ c.kept = change[r].kept
    <3>1. NoText \in KnownText /\ change[r].next + 1 \in Nat \ {0}
      BY <1>0, <1>c DEF NoText, NoKey, KnownText, ConfigShape
    <3>2. /\ PastFile(r) \in Runs /\ PastFile(r).at = "swap" /\ PastFile(r).wrote = change[r].wrote
          /\ PastFile(r).old = change[r].old /\ PastFile(r).new = change[r].new /\ PastFile(r).kept = change[r].kept
      BY <1>c, <3>1 DEF PastFile, RunStages, Printed
    <3> QED
      BY <3>2
  <2> HIDE DEF c
  <2>4. Safe => Safe'
    BY <2>1, SafeKept
  <2>5. (Before(r) /\ After(r))'
    BY <1>b, <2>1, <2>2, <2>3, <2>4 DEF Before, After
  <2>6. KeptInv'
    BY <1>0, <1>b, <2>1, <2>3, <2>4 DEF KeptInv, OnItsWay, Holds
  <2> QED
    BY <1>b, <2>1, <2>3, <2>5, <2>6, RunMoves
<1>12. ASSUME NEW r \in Changes, Confirm(r) PROVE ConfigInv'
  <2>1. /\ change[r].at = "swap" /\ Goes(r, NoChange) /\ UNCHANGED <<config, serverKey, mover>>
        /\ told \subseteq told' /\ (change[r].kept = "steps" => change[r].new \in told')
        /\ \/ Succeeded(r) /\ RemoveRecovery(r)
           \/ UNCHANGED <<recovery, slipped>>
    BY <1>12 DEF Confirm, Done, PrintSteps
  <2>2. After(r)
    BY <1>0 DEF RunInv
  <2>3. slipped \subseteq slipped'
    BY <2>1 DEF RemoveRecovery
  <2>4. Safe \/ recovery = serverKey => (Safe \/ recovery = serverKey)'
    <3>1. CASE Succeeded(r) /\ RemoveRecovery(r)
      BY <1>0, <2>1, <2>2, <3>1, RecoveryReplaced DEF After, Succeeded, RemoveRecovery, ConfigShape
    <3>2. CASE UNCHANGED <<recovery, slipped>>
      BY <2>1, <3>2, SafeKept
    <3> QED
      BY <2>1, <3>1, <3>2
  <2>5. (Before(r) /\ After(r))'
    BY <1>a, <1>b, <2>1 DEF Before, After
  \* What only this run held is printed.
  <2>6. KeptInv'
    BY <1>0, <1>b, <2>1, <2>4 DEF KeptInv, OnItsWay, Holds, Safe
  <2> QED
    BY <1>a, <1>b, <2>1, <2>3, <2>5, <2>6, RunMoves
<1>13. ASSUME NEW r \in Changes, ChangeKilled(r) PROVE ConfigInv'
  <2>1. /\ Goes(r, NoChange) /\ UNCHANGED <<config, serverKey, recovery, mover, told>>
        /\ slipped \subseteq slipped'
        /\ (Holds(r) /\ change[r].new = serverKey) \/ change[r].at = "ask" => Safe'
    BY <1>13 DEF ChangeKilled, OnlyHere, Holds, Safe, InFiles
  <2>2. Safe => Safe'
    BY <2>1, SafeKept
  <2>3. (Before(r) /\ After(r))'
    BY <1>a, <1>b, <2>1 DEF Before, After
  <2>4. KeptInv'
    BY <1>0, <1>b, <2>1, <2>2 DEF KeptInv, OnItsWay, Holds
  <2> QED
    BY <1>a, <1>b, <2>1, <2>3, <2>4, RunMoves
<1>14. CASE RewriteAddress
  <2> DEFINE new == [mover.text EXCEPT !.old = FALSE]
             f == Tools[mover.next]
  <2>1. /\ config' = [config EXCEPT ![f] = new] /\ slipped' = slipped \cup Overwritten(f, mover.text)
        /\ mover' = [NoMove EXCEPT !.at = "scan", !.next = mover.next + 1]
        /\ UNCHANGED <<serverKey, recovery, change, told>>
    BY <1>14 DEF RewriteAddress, PastRewrite
  <2>2. mover.text \in KnownText /\ mover.next + 1 \in Nat \ {0} /\ NoMove \in [at : {"idle", "scan", "write"}, next : Nat \ {0}, text : KnownText]
    BY <1>0 DEF ConfigShape, NoMove, NoText, NoKey, KnownText
  <2>3. new \in KnownText /\ new.key = mover.text.key
    BY <2>2 DEF KnownText
  <2>4. mover' \in [at : {"idle", "scan", "write"}, next : Nat \ {0}, text : KnownText]
    BY <2>1, <2>2
  <2> HIDE DEF new, f
  <2>5. ConfigShape'
    BY <1>0, <2>1, <2>3, <2>4 DEF ConfigShape, KnownText
  <2>6. Safe => Safe'
    <3>1. CASE f \in Copies
      BY <1>0, <2>1, <2>3, <3>1, SafeOverwritten
    <3>2. CASE f \notin Copies
      <4>1. config' = config
        BY <1>0, <2>1, <3>2 DEF ConfigShape
      <4> QED
        BY <2>1, <4>1, SafeKept
    <3> QED
      BY <3>1, <3>2
  <2> QED
    BY <1>0, <2>1, <2>5, <2>6 DEF ConfigInv, RunInv, Before, After, KeptInv, OnItsWay, Holds
<1>15. CASE AskForAddress \/ ScanFile \/ RewriteFails \/ MoveEnds
  <2>1. UNCHANGED <<config, serverKey, recovery, change, told, slipped>>
    BY <1>15 DEF AskForAddress, ScanFile, RewriteFails, MoveEnds
  <2>2. mover' \in [at : {"idle", "scan", "write"}, next : Nat \ {0}, text : KnownText]
    <3>1. NoMove \in [at : {"idle", "scan", "write"}, next : Nat \ {0}, text : KnownText]
      BY <1>0 DEF ConfigShape, NoMove, NoText, NoKey, KnownText
    <3>2. CASE ScanFile
      <4>1. PICK i \in Left : mover' = [at |-> "write", next |-> i, text |-> config[Tools[i]]]
        BY <3>2 DEF ScanFile
      <4>2. i \in Nat \ {0} /\ Tools[i] \in Copies
        BY <4>1, ConfigConstants DEF Left, Copies
      <4>3. config[Tools[i]] \in KnownText
        BY <1>0, <4>2 DEF ConfigShape
      <4> QED
        BY <4>1, <4>2, <4>3
    <3>3. CASE RewriteFails
      <4>1. mover.next + 1 \in Nat \ {0}
        BY <1>0 DEF ConfigShape
      <4> QED
        BY <3>1, <3>3, <4>1 DEF RewriteFails, PastRewrite
    <3>4. CASE AskForAddress \/ MoveEnds
      BY <3>1, <3>4 DEF AskForAddress, MoveEnds
    <3> QED
      BY <1>15, <3>2, <3>3, <3>4
  <2>3. ConfigShape'
    BY <1>0, <2>1, <2>2 DEF ConfigShape, KnownText
  <2> QED
    BY <1>0, <2>1, <2>3, SafeKept DEF ConfigInv, RunInv, Before, After, KeptInv, OnItsWay, Holds
<1>16. CASE UNCHANGED configVars
  <2>1. UNCHANGED <<config, serverKey, recovery, change, mover, told, slipped>>
    BY <1>16 DEF configVars
  <2>2. ConfigShape'
    BY <1>0, <2>1 DEF ConfigShape, KnownText
  <2> QED
    BY <1>0, <2>1, <2>2, SafeKept DEF ConfigInv, RunInv, Before, After, KeptInv, OnItsWay, Holds
<1> QED
  BY <1>1, <1>2, <1>3, <1>4, <1>5, <1>6, <1>7, <1>8, <1>9, <1>10, <1>11, <1>12, <1>13, <1>14, <1>15, <1>16
  DEF ConfigNext, ChangeStep, MoveStep

(* Whichever step of a change of the key fails or is killed, the key the server
   accepts is in a file, in the recovery file, in a run that is not over or on a
   screen, but for the losses the code accepts (slipped). *)
THEOREM KeyKeptHolds == ConfigSpec => []KeyKept
<1>1. ConfigInv => KeyKept
  BY DEF ConfigInv, KeptInv, Safe, InFiles, OnItsWay, Holds, KeyKept
<1> QED
  BY <1>1, ConfigInitInv, ConfigStepInv, PTL DEF ConfigSpec
=============================================================================
