----------------------------- MODULE AutoUpdate -----------------------------
(***************************************************************************)
(* The daily upgrade of a git checkout in ~/.ownmind, as three kinds of    *)
(* programs run it: runAutoUpdate in shared/auto-update.js (the MCP and    *)
(* the scanner), the background block of hooks/ownmind-session-start.sh,   *)
(* and maybeAutoUpdate of hooks/ownmind-session-start.js.  They share the  *)
(* update lock, here UpgradeMutex (which UpdateLock implements), and two   *)
(* daily markers, one for the shared programs and one for the hooks.       *)
(*                                                                         *)
(* A day marker is abstracted to "is today's date"; a program carries the  *)
(* day it started on, so what it stamps after midnight is yesterday's.     *)
(***************************************************************************)
EXTENDS Naturals

CONSTANTS
  Shared,       \* MCP and scanner processes
  ShellHooks,   \* shell SessionStart hooks
  NodeHooks,    \* Node SessionStart hooks
  MaxRelease,   \* bound on the releases tagged
  MaxUpgradeFaults     \* bound on failed steps and kills

Programs == Shared \cup ShellHooks \cup NodeHooks

ASSUME ProgramKinds ==
  /\ Shared \cap ShellHooks = {}
  /\ Shared \cap NodeHooks = {}
  /\ ShellHooks \cap NodeHooks = {}

ASSUME UpgradeBounds == MaxRelease \in Nat /\ MaxUpgradeFaults \in Nat

VARIABLES
  holders,     \* who holds .update-lock
  newest,      \* the newest release tag of the remote
  tags,        \* the newest release tag the checkout has fetched
  head,        \* the release the checkout is at
  deps,        \* the release npm last installed the dependencies of
  synced,      \* the release update.sh last synced hooks and skills from
  stepsLeft,   \* .last-mcp-update-check.steps-pending exists
  sharedMark,  \* .last-mcp-update-check is today's
  hookMark,    \* .last-update-check is today's
  doing,          \* doing[p]: the next step of p
  startedToday,\* startedToday[p]: the date p computed is still today's
  upgradeFaults,
  forgotten    \* a run stopped after its pull with no note of it (history only)

built == <<deps, synced>>
tree  == <<tags, head, built>>
marks == <<stepsLeft, sharedMark, hookMark>>
env   == <<newest, upgradeFaults, forgotten>>
upgradeVars  == <<holders, tree, marks, doing, startedToday, env>>

Lock == INSTANCE UpgradeMutex WITH Procs <- Programs

Doings == {"idle", "lock", "fetch", "decide", "pull", "note", "npm", "sync",
        "clear", "stamp", "release", "child", "left"}
Releases == 0..MaxRelease

GoesTo(p, l) == doing' = [doing EXCEPT ![p] = l]
UpgradeFault == upgradeFaults < MaxUpgradeFaults /\ upgradeFaults' = upgradeFaults + 1 /\ UNCHANGED newest

\* The pull is done and nothing on the disk says that steps are left: a shared
\* program is about to write the note, the shell twin never does.
Unnoted(p) == doing[p] = "note" \/ (p \in ShellHooks /\ doing[p] \in {"npm", "sync"})
StopsUnnoted(p) == forgotten' = (forgotten \/ Unnoted(p))

Healthy == deps = head /\ synced = head

UpgradeInit ==
  /\ Lock!Init
  /\ newest = 0 /\ tags = 0 /\ head = 0 /\ deps = 0 /\ synced = 0
  /\ stepsLeft = FALSE /\ sharedMark = FALSE /\ hookMark = FALSE
  /\ doing = [p \in Programs |-> "idle"]
  /\ startedToday = [p \in Programs |-> FALSE]
  /\ upgradeFaults = 0 /\ forgotten = FALSE

\* Midnight: neither marker, nor a date computed before, is today's any more.
NewDay ==
  /\ sharedMark \/ hookMark \/ \E p \in Programs : startedToday[p]
  /\ sharedMark' = FALSE /\ hookMark' = FALSE
  /\ startedToday' = [p \in Programs |-> FALSE]
  /\ UNCHANGED <<holders, tree, stepsLeft, doing, env>>

Tag ==
  /\ newest < MaxRelease
  /\ newest' = newest + 1
  /\ UNCHANGED <<holders, tree, marks, doing, startedToday, upgradeFaults, forgotten>>

-----------------------------------------------------------------------------
\* The daily marker is read first, without the lock.
Marked(p) == IF p \in Shared THEN sharedMark ELSE hookMark

StartUpgrade(p) ==
  /\ doing[p] = "idle"
  /\ ~Marked(p)
  /\ startedToday' = [startedToday EXCEPT ![p] = TRUE]
  /\ GoesTo(p, "lock")
  /\ UNCHANGED <<holders, tree, marks, env>>

\* Where a program goes once it has the lock.
FirstStep(p) == IF p \in NodeHooks THEN "stamp" ELSE "fetch"

TakeLock(p) ==
  /\ doing[p] = "lock"
  /\ Lock!Enter(p)
  /\ GoesTo(p, FirstStep(p))
  /\ UNCHANGED <<tree, marks, startedToday, env>>

LockHeld(p) ==
  /\ doing[p] = "lock"
  /\ holders # {}
  /\ GoesTo(p, "idle")
  /\ UNCHANGED <<holders, tree, marks, startedToday, env>>

\* Mutant: the tags already here are used.
NoFetch(p) ==
  /\ doing[p] = "fetch"
  /\ GoesTo(p, "decide")
  /\ UNCHANGED <<holders, tree, marks, startedToday, env>>

Fetch(p) ==
  /\ doing[p] = "fetch"
  /\ tags' = newest
  /\ GoesTo(p, "decide")
  /\ UNCHANGED <<holders, head, built, marks, startedToday, env>>

\* Commits HEAD..tag, or steps an earlier run left: otherwise clean.  The
\* shell twin looks at the commits only.
Pending == head < tags

Decide(p) ==
  /\ doing[p] = "decide"
  /\ GoesTo(p, IF Pending THEN "pull"
             ELSE IF p \in Shared /\ stepsLeft THEN "note"
             ELSE "stamp")
  /\ UNCHANGED <<holders, tree, marks, startedToday, env>>

\* The rebase, the --ff-only fallback or the realignment moved the checkout.
Pull(p) ==
  /\ doing[p] = "pull"
  /\ head' = tags
  /\ GoesTo(p, IF p \in Shared THEN "note" ELSE "npm")
  /\ UNCHANGED <<holders, tags, built, marks, startedToday, env>>

\* Mutant: the steps marker is not written.
NoteNothing(p) ==
  /\ doing[p] = "note"
  /\ GoesTo(p, "npm")
  /\ UNCHANGED <<holders, tree, marks, startedToday, env>>

\* "From here on, a failure has to be remembered."
NoteSteps(p) ==
  /\ doing[p] = "note"
  /\ stepsLeft' = TRUE
  /\ GoesTo(p, "npm")
  /\ UNCHANGED <<holders, tree, sharedMark, hookMark, startedToday, env>>

NpmInstall(p) ==
  /\ doing[p] = "npm"
  /\ deps' = head
  /\ GoesTo(p, "sync")
  /\ UNCHANGED <<holders, tags, head, synced, marks, startedToday, env>>

RunUpdateScript(p) ==
  /\ doing[p] = "sync"
  /\ synced' = head
  /\ GoesTo(p, IF p \in Shared THEN "clear" ELSE "stamp")
  /\ UNCHANGED <<holders, tags, head, deps, marks, startedToday, env>>

ClearSteps(p) ==
  /\ doing[p] = "clear"
  /\ stepsLeft' = FALSE
  /\ GoesTo(p, "stamp")
  /\ UNCHANGED <<holders, tree, sharedMark, hookMark, startedToday, env>>

\* markToday writes the date the run started on.
Stamp(p) ==
  /\ doing[p] = "stamp"
  /\ IF p \in Shared
       THEN sharedMark' = startedToday[p] /\ UNCHANGED hookMark
       ELSE hookMark' = startedToday[p] /\ UNCHANGED sharedMark
  /\ GoesTo(p, IF p \in NodeHooks THEN "child" ELSE "release")
  /\ UNCHANGED <<holders, tree, stepsLeft, startedToday, env>>

GiveBackLock(p) ==
  /\ doing[p] = "release"
  /\ Lock!Exit(p)
  /\ GoesTo(p, "idle")
  /\ UNCHANGED <<tree, marks, startedToday, env>>

\* The Node hook's detached update script.  Nobody releases its lock.
ChildSyncs(p) ==
  /\ doing[p] = "child"
  /\ synced' = head
  /\ GoesTo(p, "left")
  /\ UNCHANGED <<holders, tags, head, deps, marks, startedToday, env>>

ChildFails(p) ==
  /\ doing[p] = "child"
  /\ UpgradeFault
  /\ UNCHANGED forgotten
  /\ GoesTo(p, "left")
  /\ UNCHANGED <<holders, tree, marks, startedToday>>

\* A lock left behind grows stale and is reclaimed.
LockGoesStale(p) ==
  /\ doing[p] = "left"
  /\ Lock!Exit(p)
  /\ GoesTo(p, "idle")
  /\ UNCHANGED <<tree, marks, startedToday, env>>

\* A step fails: the lock goes back, the day is not stamped.
StepFails(p) ==
  /\ doing[p] \in {"fetch", "decide", "pull", "npm", "sync"}
  /\ UpgradeFault
  /\ StopsUnnoted(p)
  /\ Lock!Exit(p)
  /\ GoesTo(p, "idle")
  /\ UNCHANGED <<tree, marks, startedToday>>

\* Writing or removing a marker is best effort: the run goes on without it.
MarkFails(p) ==
  /\ doing[p] \in {"note", "clear", "stamp"}
  /\ UpgradeFault
  /\ StopsUnnoted(p)
  /\ GoesTo(p, CASE doing[p] = "note"  -> "npm"
               [] doing[p] = "clear" -> "stamp"
               [] OTHER           -> IF p \in NodeHooks THEN "child" ELSE "release")
  /\ UNCHANGED <<holders, tree, marks, startedToday>>

\* Killed, with or without the lock.
UpgradeKilled(p) ==
  /\ doing[p] \notin {"idle", "left"}
  /\ UpgradeFault
  /\ StopsUnnoted(p)
  /\ GoesTo(p, IF p \in holders THEN "left" ELSE "idle")
  /\ UNCHANGED <<holders, tree, marks, startedToday>>

Upgrade(p) ==
  \/ TakeLock(p) \/ LockHeld(p) \/ Fetch(p) \/ Decide(p) \/ Pull(p)
  \/ NoteSteps(p) \/ NpmInstall(p) \/ RunUpdateScript(p) \/ ClearSteps(p)
  \/ Stamp(p) \/ GiveBackLock(p) \/ ChildSyncs(p) \/ LockGoesStale(p)

UpgradeNext ==
  \/ \E p \in Programs :
       \/ StartUpgrade(p) \/ Upgrade(p)
       \/ StepFails(p) \/ ChildFails(p) \/ MarkFails(p) \/ UpgradeKilled(p)
  \/ NewDay \/ Tag

UpgradeSpec == UpgradeInit /\ [][UpgradeNext]_upgradeVars

\* Days pass and a run goes on.  The scanner comes every two hours and the lock
\* is held for minutes, so a shared program does not find it taken every time.
UpgradeFairSpec ==
  /\ UpgradeSpec
  /\ WF_upgradeVars(NewDay)
  /\ \A p \in Programs : WF_upgradeVars(Upgrade(p))
  /\ \A p \in Shared : SF_upgradeVars(holders = {} /\ StartUpgrade(p)) /\ SF_upgradeVars(TakeLock(p))
=============================================================================
