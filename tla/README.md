# OwnMind in TLA+

OwnMind (v1.33.3) keeps a person's AI memories and "iron rules" on a server and hands them to
every AI tool on every machine that person uses. This directory holds TLA+ models of the parts
of it where the order of steps decides whether it is correct, the TLC instances that check
them, and proofs, checked by TLAPS, of what they show for every instance.

Paths below are relative to the root of the repository. The server's own code is in its
directory `src/`.

- [Inventory](#inventory)
- [Modules](#modules)
- [How the models correspond to the code](#how-the-models-correspond-to-the-code)
- [Runs](#runs)
- [Fairness](#fairness)
- [Proofs](#proofs)
- [What was found](#what-was-found)
- [Windows](#windows)
- [What is not modelled](#what-is-not-modelled)
- [Plan](#plan)

## Inventory

### On a user's machine

| Component | State | Operations | What is hard | Module |
|---|---|---|---|---|
| Update lock (`shared/update-lock.js`; shell twin in `hooks/ownmind-session-start.sh`) | files `.update-lock`, `.update-lock.reclaim`, `….dead.<pid>` | acquire, reclaim a stale lock, release, touch | no atomic "delete if still the one I looked at"; kills leave both files behind; two implementations; the age of a file is all that tells dead from alive | `UpdateLock` |
| Archive update (`shared/archive-update.js`) | the live tree, `.next`, `.prev`, `.swap-journal.json`, `.reconfigure-pending`, `.release` | check, stage, swap entry by entry, resume, reconfigure the host | a kill or a locked file between any two renames | `ArchiveSwap` |
| Git auto-update (`shared/auto-update.js`, both SessionStart hooks) | the checkout, `node_modules`, two daily markers, the `.steps-pending` marker | fetch, pull, npm, `update.sh`, stamp the day | three implementations of one job; a failure after the pull must be remembered; dates computed before midnight | `AutoUpdate` |
| Update notices (`shared/update-banner.js`) | `logs/update-pending.jsonl` | queue, show, drop by position | the Stop hooks of all sessions drain one file | `UpdateNotices` |
| Client configuration (`scripts/install-helpers/swap-api-key.cjs`, `migrate-api-url.cjs`) | the file of each AI tool, `new-api-key.txt` | change the key, follow a server that moved | each file is read and written whole; a lost answer leaves the server ahead of the machine | `ClientConfig` |
| Memory cache (`hooks/lib/conditional-sync.js`) | `~/.ownmind/cache/memories.json`: payload, sync token, age | compare tokens, download, fall back | the payload and the token come from different SQL statements | `MemoryCache` |
| Local memory files (`hooks/lib/sync-memory-files.js`) | `MEMORY.md` of a project, its backups | write the index, mark it as failed, set a person's own text aside | the file may be a person's; a file is emptied before it is written | `MemoryFiles` |
| Offline queue (`mcp/offline.js`) | `queue.jsonl` | append, replay, rewrite | several MCP processes on one file, a kill in a replay | `OfflineQueue` |
| Session counter (`hooks/lib/session-counter.js`, `ownmind-reply-lint.js`) | one JSON file of all sessions | count violations and blocks, send a reply back | read whole, written whole, no lock | `SessionCounter` |
| Reply judge (`hooks/lib/start-local-judge.js`, `run-local-judge.js`, `verdict-*.js`) | a marker and a verdict per turn | start a detached judge, land by rename, collect, write off | a late verdict against the collector's deadline | `Verdicts` |
| Spools (`hooks/lib/flush-*.js`, `pending-banners.js`) | pending and `.processing-*` files | append, rename, POST, delete or put back | a lost answer, a kill in between | `ReportSpool` |
| Action gate (`hooks/lib/action-gate.js`, `gate-receipt.js`, `approve-action.js`) | receipts, blocks in a row, asks | read, block, ask, approve, consume | one approval must open the gate once, and the gate must open | `ActionGate` |
| Scanners (`shared/scanners/`) | `scanner-offsets.json` | read on, post in batches, move the cursor | scans overlap; answers are lost | `UsagePipeline` |
| Git hooks, edit reports, self-check, lint and detection | counters | parse, report | mostly data | |

### On the server (`src/`, Express and Postgres)

| Component | State | Operations | What is hard | Module |
|---|---|---|---|---|
| Memory store (`src/routes/memory.js`) | `memories`, `memory_history`, `users.settings` | create, update, disable, enable, merge, archive, restore, decide, revert, locale | no transactions: check token, read, write, record are separate statements | `MemoryStore` |
| Sync token (`src/utils/syncToken.js`, retry in `mcp/index.js`) | derived from the rows | generate, validate, retry on 409 | a maximum over *active* rows stands for "anything changed" | `MemoryStore` |
| Monthly consolidation (`src/routes/memory-consolidation.js`, `src/jobs/memory-consolidation.js`) | `consolidation_questions`, the monthly card | park, show, answer, archive after two showings and 14 days | the job decides from a list read earlier | `Consolidation` |
| Session lessons (`src/lib/session-lessons-store.js`) | `session_lessons` | store, find repeats, promote, dismiss, bring back | promotion is three statements | `SessionLessons` |
| Session log (`src/routes/session.js`) | `session_logs` | record, compress a month | a transaction whose statements take any connection of the pool | `SessionLog` |
| Task board (`src/routes/tasks.js`, `src/jobs/task-claim-expiry.js`) | `tasks` | create, claim, done, drop, review, reopen, expire | a review reads first and writes later | `TaskBoard` |
| Usage (`src/routes/usage/events.js`, `src/jobs/usage-aggregation.js`, `nightly-recompute.js`) | `token_events`, `token_usage_daily` | ingest, recompute, repair | a recompute that read earlier writes later | `UsagePipeline` |
| Alerts (`src/jobs/collector-silence-alerts.js`, `install-check-alerts.js`) | two alert tables, their notices | find, wait, announce, resolve | sweeps overlap and announce, or end, the same thing | `CollectorAlerts`, `InstallAlerts` |
| Broadcasts (`src/routes/broadcast.js`, `src/jobs/nightly-upgrade-reminder.js`) | `broadcast_messages`, `user_broadcast_state` | put up, end, inject, turn off, put off | a call that read a notice as visible marks it later | `Broadcasts` |
| Migrations (`src/utils/run-migrations.js`, `scripts/run-migrations.sh`) | `schema_migrations` | apply, record | two statements, two runners | `Migrations` |
| Handoffs, accounts, secrets, members, reports, export, compliance, bug reports, the console | rows, views | single statements | see the notes in `PROJECT.json` | |

### How they interact

The scanner (every two hours), the MCP server (at start) and the SessionStart hooks all try to
upgrade `~/.ownmind`: they go through the **update lock**, then through the **archive update**
or the **git auto-update**, leave an **update notice** for the next reply, and follow the server
through the **client configuration**. A SessionStart hook then brings the **memory cache** and
the **local memory files** up to date with the **memory store** and flushes the **spools**; during the
session the MCP server writes to the store with the **sync token** it was given last, or to the
**offline queue** when the server cannot be reached. Each command of the session passes the
**action gate**; each reply passes the **session counter** and starts a **judge**. Jobs on the
server write to the same tables as the routes. Nothing on the client talks to
another process but through files, and nothing on the server holds a lock across statements,
apart from the transactions of the two alert jobs and of the setup wizard.

`PROJECT.json` lists the hazards the properties are for, at the line where each bites, and the
few no property covers, with the reason.

## Modules

| Module | What it is |
|---|---|
| `UpgradeMutex` | the abstract lock: a set of holders, `Enter` when it is empty, `Exit` |
| `ReleaseInstall` | the abstract update: a tree that goes, entry by entry, from the release it is to a newer one, whose name it takes last |
| `UpdateLock`, `UpdateLockProofs` | the file protocol of the update lock, one action per file access; its theorems |
| `ArchiveSwap`, `…Props`, `…Proofs` | `runArchiveUpdate`, one action per rename, copy, journal write and outside step |
| `AutoUpdate`, `…Props`, `…Proofs` | the three git upgraders, composed with the lock by `INSTANCE UpgradeMutex`; the theorems also of `ClientConfig` |
| `MemoryStore` | the write routes of the store, one action per SQL statement |
| `MemoryCache` | extends `MemoryStore` with the machines' session starts and caches |
| `MemoryProps`, `MemoryProofs` | the properties of both together; their theorems, and those of `SessionLessons` |
| `OfflineQueue`, `UpdateNotices`, `SessionCounter`, `ActionGate`, `MemoryFiles`, `Verdicts`, `ReportSpool` | what the hooks and MCP processes of one machine keep in shared files, one module a file or a group of files |
| `ClientConfig`, `Broadcasts` | the files that name server and key; the reminder that updates do not arrive |
| `SessionLessons`, `Consolidation`, `SessionLog` | how sessions become memories, how memories are put in question, how old sessions are compressed |
| `UsagePipeline`, `CollectorAlerts`, `InstallAlerts`, `TaskBoard`, `Migrations` | the other tables of the server |
| `MachineProofs` | theorems of `SessionCounter`, `MemoryFiles`, `ActionGate`, `OfflineQueue`, `ReportSpool` and `UpdateNotices` |
| `ServerProofs` | theorems of `TaskBoard`, `Broadcasts`, `CollectorAlerts`, `InstallAlerts`, `Consolidation` and `Migrations` |
| `VerdictsProofs`, `UsagePipelineProofs` | theorems of those two |
| `MCMemory`, `MCStore`, `MCUpdateLock`, `MCAutoUpdate`, `MCArchiveSwap`, `MCMachine`, `MCServer` | instances for TLC |

A module states its properties at its end, unless there is a `…Props` module for them.

**Refinement.** `AutoUpdate` does not repeat the lock protocol: it takes the lock as `UpgradeMutex`, and
`UpdateLock` is shown (property `ImplementsMutex` of run `upgrade`, theorem `Refinement`) to implement that under the
refinement mapping `holders <- Holding`, the programs between having verified their lock and
having removed it. It does so until `residual`: until a live run has outlasted the stale
threshold or one died holding the reclaim marker, the two holes the code's comments name. `AutoUpdate`
describes the upgrade up to then.

`ArchiveSwap` is shown in the same way (`ImplementsInstall` of run `archive`, theorem `Refinement` of `ArchiveSwapProofs`) to
implement `ReleaseInstall`, with `tree <- live` and `target <- Swapping`: the release a swap leads to, from the journal's first write to the rename of
`.release`, through any number of kills and resumptions. That says in one formula what `NeverDowngrades`, `Resumable` and the
rules in the header of `shared/archive-update.js` say one by one. It does so until a staged entry is lost or the server goes back a release.

**Composition by part.** Components that share no file and no table cannot disturb one another, so
a composing instance does not multiply their states. Its variable `part` says which of its components runs; the others stand
still in one initial state, and the states are the sum of the parts'. `MCMachine` has seven such
parts, `MCServer` six; `MCArchiveSwap` has the archive update, the configuration and the reminder; `MCStore`
the store and the lessons; `MCAutoUpdate` the lock's protocol beside the upgrade over its
abstraction. Where two actors *and* a fault are too many states, a part runs twice: with two actors
and no fault, and with one actor and a fault (`counter, killed`, `verdicts, a fault`, and `two
sessions` / `a fault` of the consolidation); or with one fault over two runs and two over one (`config`); or from another
state and with fewer kinds of step (`notices, half a line`, `a shared notice`). What needs more at once is then not checked by TLC; for the
counter, the notices, the keys and the verdicts the proofs have no such limit.
Components that do share state are composed for real: `MemoryCache` with `MemoryStore`, `AutoUpdate` with
the lock, the scanner with the server's sums in `UsagePipeline`, key change with address change in
`ClientConfig`, routes and job in `Consolidation`.

## How the models correspond to the code

`PROJECT.json` maps every definition to its lines. In short:

**`UpdateLock`.** `lock`, `marker` and `parked` are the three files. A file has a creator (`by`), a
content (`text`, the token) and one bit of age (`stale`: older than `STALE_MS`); the code
compares contents, while descriptor writes follow the creator, which is why both are kept.
`pc[p]` is the next file access of program `p`. Actions follow the code from `ReadLockAge` (`reclaimIfStale`)
through `ParkMarker`/`CheckParked` (moving a stale marker aside) and `ClaimMarker` …
`UnlinkStaleLock` to `CreateLock`, `StampLock`, `VerifyLock` (`tryAcquireUpdateLock`) and the
release. Programs differ as in the code: `Shell` programs stamp through the path and give up
where the module goes on, `Tokened` ones (the archive CLI) release with a token, `Leavers` (the Node
SessionStart hook) hand the lock to a detached child nobody releases it for.

**`ArchiveSwap`.** Trees are functions from entries to releases; entries are numbered in the order
`codeEntries` returns them, imported folders first and `.release` last. `journal` is the file,
`mem` the object of the run. `Park`, `Place`, `AlreadyPlaced`, `RestoreParked` and `MarkDone` are
the branches of `runJournal`, each with its failure. Outside steps: `Publish` and `RollBack` on the server,
`LoseStaged` by anything that removes a staged entry.

**`AutoUpdate`.** The checkout is four numbers: the release tags fetched, `HEAD`, the release npm last ran
for and the one `update.sh` last synced from. A daily marker is the bit "is today's";
`startedToday` is whether the date a run computed at its start is still the date. Shared programs
write the steps marker between pull and npm; the shell hook does not; the Node hook stamps the
day first and only runs `update.sh`, in a child.

**`MemoryStore`, `MemoryCache`.** A row has a status, a text, the previous text, the time of its last write and, for
a memory merged away, the one it went into. `req[s]` is the request of session `s` and how far
its handler has come; `req[s].old` is the row as the handler read it, so what a handler decides
from stale data stays visible. `saved` is what the next `INSERT INTO memory_history` will hold. A
token is the pair of maxima and the locale that `generateSyncToken` hashes. One SQL statement is one step.
`GET /init` is its statements in the order they run: memories, token, locale.
A cache holds the token it came with and one bit of age (over 24 hours).

**`OfflineQueue`.** A write is its number; `made` says which account's it is and whether the server
refuses it. A replay (`replay[c]`) is the read of the file, one step per entry, and the rewrite
with what is left. An answer that is lost leaves the write taken *and* queued. Only the handler of `ownmind_init` starts a
replay, and a process may live without ever being asked for it: starting one is not fair.

**`UpdateNotices`.** The file is a sequence; a hook is its read, its print and its rewrite without as many
lines as it read. A reply that was sent back (`stop_hook_active`) shows nothing. An append may be caught half way (`appending`): a hook
that reads then counts the half line, does not show it and drops it by position; one that is cut off for good makes the next line
unreadable too, unless a rewrite has been in between.

**`SessionCounter`.** `counts` is the file; `lint[s].file` the copy the hook of session `s` read and
writes back. A hook that reads while another is between emptying and writing sees an empty file. A write that fails is
swallowed and the reply is sent back all the same.

**`ActionGate`.** One guard of one command is one step; the three files of a guard are shared between
commands evaluated at once. An approval is by code or by word according to the owner's `askMode`. `grants` and `openings` count
approvals and the commands they let through.

**`MemoryFiles`.** A person's text is a number; `index` has the text in it and the two marks
(synced, failed). A session start is backup, emptying and filling, each a step.

**`Verdicts`.** `turn`, `verdict` and `judging` are the Stop hook, the file and the process of a
turn; `collector[w]` is a prompt hook half way through the entries it listed. A judge that cannot be started leaves a notice in the Stop
hook, which says it or, when it sends the reply back, drops it.

**`ReportSpool`.** A file is the set of events in it; a flush is rename, POST, and delete or one of the two
ways to put the file back. The server looks at `BatchCap` events of a batch.

**`ClientConfig`.** A file is the address and the key it names. A change of keys asks the server first and
writes the files one after another, through the recovery file. A key that the recovery file would not take is a step among those printed at the end (`kept = "steps"`), and
gone with a run killed before that. `MoveStep` reads an address with the key of
one file and rewrites those that name the old one.

**`Consolidation`.** A question has an age in days and a count of showings. `start[s]` is a session between reading
the open questions and reporting them; `expiry[j]` the job between reading its list and its end.

**`SessionLessons`.** `copies` are the memories made of lessons. A request is find, look, restore or insert, mark, as
`promoteLesson` and `saveSessionLessons` go through them.

**`SessionLog`.** Connections are released to the front of the pool, time out when idle, and each has a transaction
of its own; BEGIN, the lock, INSERT, DELETE and COMMIT of `compressOldSessions` take whichever is free.

**`TaskBoard`.** A card has a status, a holder, one bit of age, the number of its result and the
one its reviewer had read. Claim, done and drop are one guarded UPDATE; review and reopen read first.

**`UsagePipeline`.** A file is how many lines it has; a cursor how many of them were read. A daily row is the
set of events it sums, so that a sum written late is a smaller set. Events that are not valid (`Invalid`: the adapters look whether a field is
there, not what it holds) are left out of a batch whose answer is still 200, and a batch of nothing else is refused, so that its file stays where it is.

**`CollectorAlerts`, `InstallAlerts`.** Each table has one row a machine, or a check; a sweep is read, the
transaction of its claims, and the ends of notices, with what it found at its start in hand. `WeighNotice` is `END_BROADCAST_SQL`, which looks for
other machines of the notice as they are committed, `Resolve` is `RESOLVE_SQL` with the commit: between the two another sweep may resolve another of them.

**`Broadcasts`.** The rows of the reminder by threshold, and for one person what is off, put off and
cooling down by tool. A call reads, filters and marks in separate statements.

**`Migrations`.** `schema[f]` is nothing, part or all of a file. The server applies a file in one transaction,
`psql` statement by statement; both record it afterwards. `Bootstrap` is file 015, which makes the table of the record: every run applies it before
it asks what is recorded, and it records itself. A server listens on the schema of its release (`of`), which need not be the newest.

**History variables.** Where the code has a window its own comments accept, or that it does not close, the
property excepts it by name through a variable that only records that it was entered: `residual` (lock), `disturbed` (archive),
`forgotten` (git), `raced`, `misplaced`, `clobbered`, `shared`, `exposed`, `unsaid`, `overlaid`, `cut`, `slipped`, `torn`, `straddled`, `answered`, `refilled`,
`suppressed`, `missed`, `overtaken`, `stranded`. No action reads one, so that the behaviours the window makes possible are all checked, and
the property still has to hold for everything that did not go through it. The windows are listed [below](#windows).

## Runs

| Run | Instance | Asks | Distinct states |
|---|---|---|---|
| `memory_serial` | a person and an admin, two rules and a team standard, one machine, one request at a time; two lessons that repeat one another, two overlapping requests, one failure | `TextsKept`, `MergesLeaveOne`, `TokenCoversEdits`, `OneCopyPerLesson` | 2 152 987 |
| `memory_overlap` | two sessions of a person, a rule and a project memory, failures, reverts, a machine; overlapping | `ArchiveOnlyActive`, `CacheCatchesUp` | 431 543 |
| `archive` | 4 entries, 3 releases that add and drop one, 6 faults; two key changes and an address change over two files, 1 fault, or one change of keys and 2 faults; a reminder with two calls | `ReleaseIsWhole`, `ImportsFirst`, `ReconfigureRemembered`, `NothingLost`, `ImplementsInstall`, `Converges`; `KeyKept`, `AddressFollowed`; `TurnedOffStaysOff` | 821 190 |
| `upgrade` | the lock with a shell hook, the archive CLI and the Node hook, a dead lock or none, 1 fault; the upgrade with MCP, scanner, shell and Node hook, 3 releases, 1 fault | `ImplementsMutex`, `DeadLockReclaimed`; `StepsRemembered`, `Converges` | 297 491 |
| `machine` | two processes or sessions on each shared file, with kills, failed writes and lost answers | `QueuedKept`, `QueueDrains`, `NoticesShown`, `BlocksGiveWay`, `OneOpeningPerApproval`, `GateOpens`, `OwnTextKept`, `OnTimeNotWrittenOff`, `EveryTurnTold`, `ReportsArrive` | 119 265 |
| `server` | two scans, sweeps, evaluations, sessions; one card and three members; a server, a script and four files, the second the bootstrap | `ServerHoldsPrefix`, `EventsCounted`, `AnnouncedOnce`, `BreakAnnounced`, `RepairEndsNotice`, `ReviewedAsRead`, `CardsComeBack`, `FailuresAnnounced`, `ServerBoots`, `ArchivedUnanswered`, `QuestionsSettled` | 64 957 |
| `lock_release` | three programs that release without a token; 1 fault | `ReleaseSparesOthers`: violated | |
| `upgrade_shell` | MCP and shell hook; 1 fault | `StampMeansHealthy`: violated | |
| `memory_token` | as `memory_serial`, from an empty store | `WritesMoveToken`: violated | |
| `memory_lost` | two sessions updating one memory | `TextsKept`: violated | |
| `sessions_lost` | two compressions, one other INSERT, three connections | `SessionsKept`: violated | |
| `reminder` | two thresholds, deploys that go back and forth | `ReminderStands`: violated | |

Every property of a passing run has a mutant in `PROJECT.json`: a plausible mistake in one definition under which
TLC finds it violated. The type invariants are theorems where a `…Proofs` module says so; elsewhere they are stated for a reader
and no run spends a property on them. Neither does one on a property whose stronger form it checks: `NeverDowngrades` follows from `ImplementsInstall`, and
the safety half of a liveness property (`SpooledKept` of `ReportsArrive`, `NoticesKept` of `NoticesShown`, `TurnsKept` of `EveryTurnTold`,
`CountedToCursor` of `EventsCounted`, `OpenIsAnnounced` of `FailuresAnnounced`, `MigratedInOrder` and `ListensOnWhole` of `ServerBoots`) is a theorem instead.

**Bounds.** The constants `Max…` are guards of the actions they limit; no run has a state constraint. `Max…Faults` counts kills, failed writes and lost answers. Why they are enough:

- *Lock*: one fault and three programs: the worst sequence the code knows is one killed holder (the lock left by
  a dead run, given at the start) followed by one killed reclaimer. The theorems have no bound.
- *Archive*: six faults, two in each of three attempts. Four entries: two imported, one other, `.release`; the releases add
  one and drop one. Two later releases so that one is published while another is being installed.
- *Store*: `MaxNow` bounds the writes: four after the seeded rows are enough for edit, merge, re-enable
  and merge back, the shortest sequence that could disable both copies of a text. In `memory_overlap` two
  writes fit beside the overlap of requests with a download, which is what `ArchiveOnlyActive`
  needs (a read, somebody's write, the archiving).
- *Lessons*: two lessons that repeat one another, two memories and four verdicts: promote, repeat, archive, bring back.
- *Queue*: three writes, the first possibly of another account or one the server refuses, two processes; two faults are a lost answer and a kill in
  the replay that repeats it.
- *Notices, counter, mirror, spool*: two hooks and one or two faults: a file two processes read and write back is
  disturbed by one other. Three notices, so that one comes while two are drained; two where a line is left half written.
- *Keys*: two changes at once with one fault, or one with two: a recovery file that cannot be written and a kill after that.
- *Counter*: it stops once the counts of both sessions are `clobbered`, of which nothing more is asked.
- *Gate*: two guards, one command that falls under both and breaks one, one under one; two blocks to an ask (three in the code), one
  wrong code (five): the counts only delay the same transitions.
- *Verdicts*: two turns, because a session's queue of verdicts is collected in order; two windows.
- *Consolidation*: two questions and a showing of one (three in the code), one day to answer (fourteen): a question can be
  behind another, which is what the limit is about. Where two sessions run, both may park the first question but one of them
  the second, and their memory is neither disabled nor restored: with one session it is.
- *Usage*: two files, one of them of a day outside the nightly window, two scans, batches of one, two lines per scan, so
  that a file is read in several batches; the second event of the other file is not valid, and with batches of one its batch is refused
  (a batch of which a part is not valid is in the proofs only). Once an account is exempted one scan runs. *Alerts*: two machines, from nothing known with two changes of health and a fault, and from one notice about
  both with three changes and two sweeps, so that both can be repaired, together or with one breaking again; three notice numbers, so that
  one is used again. *Install alerts*: one check, because the claims of several are one transaction. *Board*: one card, three members with two reviewers, three results and
  four claims: claim, done, reopen, claim, done, between a review's read and its write. *Migrations*: four files, the second the one that makes the record, the first and the third such that they cannot be run twice.

`CHECK_DEADLOCK FALSE` is set in `memory_serial`, `machine`, `server` and `sessions_lost`: a bounded part may end where everything there is to do is done.

## Fairness

Weak fairness of a step says that a process that is not killed runs on; nothing is assumed about who wins a race, and
no fault is fair.

- *Lock*: each program's own steps, coming back to try (the scanner's schedule, a hook per session), and files growing old.
- *Archive update*: `Run`, i.e. the run in progress and the next one being
  started, which the scanner does every two hours.
- *Git auto-update*: midnights come, runs go on, and a shared program is strongly fair in
  starting while the lock is free and in taking it: it comes every two hours while the lock is
  held for minutes, so it does not find it taken each time. Without this the other programs
  could hold the lock whenever it looks.
- *Memory*: handlers run to an answer, days pass, people open sessions. Downloads are strongly
  fair in each step, because a session start may fail and be tried again any number of times;
  one that keeps being tried gets through. `CacheCatchesUp` is conditional on writing having stopped.
- *Machine*: the server can be reached again, a replay that was started goes on, an append that was started is finished or cut off, sessions open, replies end and hooks run to their exit; the AI
  tries its command again; the user, asked again and again, says yes in the end (strong, because an ask runs out
  and is issued anew). Two properties have a condition the code gives no warrant for: `QueueDrains` speaks of a process that calls `ownmind_init` again and again
  (`InitCalledAgain`), and `EveryTurnTold` of a session in which somebody goes on typing (`TypesAgain`): the last reply of a conversation is never
  collected, as `hooks/lib/verdict-collect.js` says of itself.
- *Client configuration*: a change that was started goes on and the update comes every day. `AddressFollowed` is
  conditional on the key beside the old address going on being accepted.
- *Server*: scans, sweeps, evaluations and boots run on and come again on their schedule; each scan gets to every file (`UsageFairness`, strong, because
  the file may have been read out by another; the run asks less); days pass. Strong fairness is assumed of the nightly
  job reading a day inside its window (it is at another day in between) and of the hours a finding is confirmed after
  (a sweep may be running each time one looks). Sessions need not finish a card, and nobody has to answer a question.

## Proofs

All theorems are for every value of the constants that satisfies the named assumptions, so for
any number of programs, entries, releases, memories, sessions, turns, cards and machines.

| Theorem | Shows |
|---|---|
| `UpdateLockProofs!TypeCorrect` | `TypeOK` |
| `MutualExclusionHolds`, `HolderOnDiskHolds`, `OneDeleterHolds`, `DeletesOnlyDeadHolds`, `Refinement` | until `residual`: the lock is exclusive, and implements `UpgradeMutex` |
| `ArchiveSwapProofs!TypeCorrect`, `ReleaseAlwaysLiveHolds` | `.release` is always there, whatever fails |
| `NothingLostHolds` | whatever fails, an entry every release has is live or in `.prev` |
| `ReleaseIsWholeHolds`, `ResumableHolds`, `NeverDowngradesHolds`, `ImportsFirstHolds` | until a staged entry is lost or the server goes back: `.release` tells the truth, a stopped swap can be finished from the disk, no step goes back, nothing is newer than what it imports |
| `Refinement` | until then: the journalled swap, killed and resumed anywhere, implements `ReleaseInstall` |
| `ReconfigureRememberedHolds` | unless a run stopped while the note was not on the disk, after a write of it that failed or before it: a release the host was not configured from is noted there |
| `AutoUpdateProofs!TypeCorrect`, `WorkUnderLockHolds`, `NoteKept` | programs work under the lock; the note goes only when the steps are done |
| `StepsRememberedHolds`, `StampedHealthyHolds` | until `forgotten`: no half-done upgrade is unmarked or called healthy |
| `KeyKeptHolds` | the key the server accepts is in a file, in the recovery file, in a run that goes on or on the screen, where a run prints it at its end, unless it slipped |
| `MemoryProofs!TypeCorrect`, `ArchiveOnlyActiveHolds` | only an active memory is archived, however requests overlap |
| `TokenCoversEditsHolds`, `MergesLeaveOneHolds` | with `~Overlap`: a current token means a complete cache; merging leaves a copy |
| `TextsKeptHolds` | with `~Overlap`, `~MayFail`, `~MayRevert`: no text is lost |
| `LessonsTypeCorrect`, `OneCopyPerLessonHolds` | no two active memories are made of one lesson, unless it was torn |
| `MachineProofs!TypeCorrect`, `BlocksGiveWayHolds` | for any number of sessions and any limit, replies are not sent back beyond it, unless a count was clobbered or did not reach the disk |
| `OwnTextKeptHolds` | a person's text in `MEMORY.md` is there, backed up or about to be put back |
| `OneOpeningPerApprovalHolds` | an approval lets one command through the gate, unless two shared it |
| `QueueTypeCorrect`, `QueuedKeptHolds` | a queued write is in the file until the server has taken it, unless it raced a replay |
| `SpoolTypeCorrect`, `SpooledKeptHolds` | an event is in a file of the spool until the server has it, but for those the windows name |
| `NoticesTypeCorrect`, `NoticesKeptHolds` | the outcome of an update is in its file until it is shown, unless it was misplaced |
| `VerdictsProofs!OnTimeNotWrittenOffHolds` | a verdict that landed in time is not written off |
| `TurnsKeptHolds` | a turn to be judged is on file until what came of it was taken up for the user |
| `UsagePipelineProofs!ServerHoldsPrefixHolds` | no cursor passes what the server does not have, but for what is not valid or was suppressed |
| `CountedToCursorHolds` | nor what is not in the sum of its day, unless that was missed, suppressed or not valid |
| `ServerProofs!TypeCorrect`, `ReviewedAsReadHolds` | a review lands on the result that was read |
| `TurnedOffStaysOffHolds` | a reminder turned off is not shown again |
| `BroadcastsTypeCorrect` | of one tool, no notice is turned off and put off at once |
| `AnnouncedOnceHolds` | a broken machine is told of once until it works again, however sweeps overlap |
| `InstallAlertsTypeCorrect`, `OpenIsAnnouncedHolds` | a failed check is marked as announced exactly when its notice was written |
| `ArchivedUnansweredHolds` | the job archives only what was asked about often enough and left unanswered |
| `MigrationsTypeCorrect`, `MigratedInOrderHolds`, `ListensOnWholeHolds` | what is recorded is applied whole, and no file but the bootstrap before the ones it follows; a server listens on the whole schema of its release |

**The lock.** `MutualExclusion` is not inductive: it does not say why nobody deletes the lock of a
holder. `IInv` adds that (`LockOwned`) whoever is past creating the lock made it, and it is fresh;
(`MarkerOwned`) whoever is in the reclaim section made the marker; (`MarkerLive`) a marker on disk
belongs to a program in that section, so it is never stale and never moved aside;
(`StaleTarget`) the lock somebody is about to unlink is still stale. A stale lock has no live owner, and it can
only be replaced after being unlinked, by the one owner of the marker. The refinement theorem
then follows, because a step into `Holding` happens while nobody else is in it.

**The archive update.** `JournalInv` says of each entry of the journalled release that it is staged or
live, not both and not neither, and that what `.prev` holds is older; `BaseInv` that
without a journal the tree is the release it names; `RunInv` what the run in progress knows of
both; `LiveBound` that nothing live is newer than the target. `ReleaseAlwaysLive` needs only
`PlaceStaged`: what is about to be renamed exists. `NothingLost` needs `LossInv`: what the run, or
the journal, has ticked off is live, so that only the entry in hand can be missing, and that one is in `.prev`.
For the refinement each action is shown to be a step of `ReleaseInstall` or a stutter: writing the journal opens the swap, the renames of
other entries move one entry, that of `.release` finishes it (`JournalInv` says the rest of the release is in), and
stopping, staging and resuming change neither `live` nor the release the swap leads to.

**The git auto-update.** `LockInv` ties `holders` to the programs past taking the lock;
`StepInv` says how far the steps after the pull have come; `RememberInv` that an unhealthy
checkout is marked, or its program is about to mark it.

**The keys.** `KeyKept` fails to be inductive where a run holds the only copy. `RunInv` says what such a run is: before it asks, it works with a key that
is safe already if the server still accepts it (`Before`); afterwards it replaces keys of the past only, and a run that reports success has really written the new
one (`After`). `ConfigShape` adds that nobody knows a key the server has not handed out.

**The store.** `RowStep` says in one formula what any step may do to the table; most results are about
it rather than about twenty actions. `CachesInv` relates a cache to the token it was stamped with: a
served row no newer than the stamp is in the cache as it is (`Held`), so an equal token leaves no
row out. `SerialInv` says that a request alone in flight still has the row it read, that what was merged away is
disabled, and that a merge never closes a cycle of `into`.
For the lessons, `Single(l)` follows the one request that has lesson `l` in hand: when it is to insert a copy there is none yet, when it
is to mark the lesson the only copy is the one it holds, and otherwise the only copy is the one the lesson's row names.

**The machine.** For the counter, `CoverInv` relates the blocks a session has really had in a row to what the file, or
the copy its hook is about to write, counts: the file never counts less unless somebody clobbered it. For `MEMORY.md`, `MirrorInv`
adds to the property that no older text is on its way to the disk (`NoOlderInv`) and that a session
start which is to rewrite the index has the last text in hand or knows it backed up (`InHandInv`).
For the gate, `OpeningsCovered` counts: an approval that lies in its file, or that a command is to use up, is room for one more opening, and only one
command is about to use up the approval of a guard; that a guard has not been `shared` says just this.
For the queue, `Held` says that every process between reading and writing the file has the write in one of the two lists it will write back. The lists are taken
from the file by position (`Entries`, with the lemmas on `Rank` that no entry is dropped or taken twice), so that no induction over sequences is needed.
For the spool, `SpoolInv` says that what is in the spool when a flush renames its file back came while it was about to. For the
notices, `Spared(n)` says that at most one hook is where it can drop line `n` (`Passing`), and that this one counts fewer lines than there are before it, or is
about to write it back.
For the verdicts, `Shapes` (what a collector's list looks like), `LandedInv` (a verdict that landed stays
until it is collected) and `LateInv` (who is about to write a turn off saw it pending after its deadline) make
`OnTimeNotWrittenOff` inductive; `KeptInv` adds that what a window has taken off the disk it still has to say.

**The server.** The cursor of a file never passes what is stored because a scan's position is bounded by the batches that were accepted, request by
request (the invariant of `UsagePipelineProofs`). `SumsInv` carries that on to the sums: what a scan has behind it was summed
before it moves the cursor, and a sum of a day, written by whoever and however late, leaves none of the day's events uncounted that is not in `missed`. `ReadInv` ties the verdict of a review in flight to the result it read, or to
`refilled`. `TurnedOffInv` says that where a notice was turned off for good a row says so, its tool's or the one for all tools: the mark of a call
that read it as visible before must not take that row's refusal away. `Told(m)` says that whoever was told of machine `m` has
a row that still refuses a second claim. `AskInv` bounds the count of showings, which the job decides by, by the days a question was really shown on (`CountInv`) and says
that nothing in a job's list has been answered since, where `answered` does not except it. `RunsInOrder` says that a runner's list
leaves out only what is recorded, and that what it is about to record is applied whole; the bootstrap is excepted from the order, not from being whole.

**Lemmas that are used again.** Facts about data the provers do not find by themselves are lemmas of their own: that a maximum or a minimum exists (from the well-foundedness of
`<` on the naturals), what `SubSeq`, `Append` and concatenation keep of a list, that `Rank` numbers a finite set of positions without gaps, and for the rows of each table
what a write of one field leaves of the row's type.

**Assumptions.** Besides bounds being natural numbers and constants having their types, the theorems assume what the code or its configuration
provides: numbers of entries with the imported ones first and `.release` last (`codeEntries`), a set of commands that is finite at any time,
the file of Claude among those that name the key, a queue that may hold at least one write, names for "none" that nothing else has.

**Model-checked only.** Every safety property a run checks is a theorem too. Liveness under fairness is out of the prover's reach, so the seventeen liveness
properties of the passing runs are checked by TLC only, on the instances above; so are the six violations. Some type
invariants are not theorems: those of `ActionGate` and `Verdicts` speak of lists made by `SetToSortSeq`, that of `UsagePipeline` bounds a sum made by a fold,
and all three would need induction over data (their proofs use weaker shapes: `GateShape`, `Shapes`, `RowsInv`); that of
`CollectorAlerts` holds only when there are enough numbers for notices; those of `ClientConfig` and
`Consolidation` are contained in `ConfigShape` and `AskTypes`, as far as the proofs need them.

## What was found

Six statements of the repository about itself are violated by its code; each has a run.

1. `lock_release`: the comment on `releaseUpdateLock` explains why a release must pass its token,
   and `shared/auto-update.js:234` and the shell hook release without one: a program that outlasts the stale threshold deletes the lock
   of the one that took it over.
2. `upgrade_shell`: the shell hook leaves no steps marker when npm or `update.sh` fails
   after its pull, so the other programs call the half-upgraded checkout clean.
3. `memory_token`: a write that takes a row out of the active set need not move the sync token,
   so machines keep a disabled rule until their cache is 24 hours old. The comment of the
   iron-rule token in the same file describes this very gap of `MAX`.
4. `memory_lost`: two updates of one memory that interleave lose the text of the first from
   both the row and the history.
5. `sessions_lost`: `compressOldSessions` sends BEGIN, INSERT, DELETE and COMMIT through the pool, so
   with any other statement in flight they are not one transaction: a month of sessions is
   deleted and its summary rolled back. A single compression on an idle server does not show it.
6. `reminder`: a reminder that was ended is never put up again, although the job's comment says it
   may be: the unique index covers ended rows too.

## Windows

What a property excepts, by the history variable or the constant that names it. Each is a
behaviour of the code, met while modelling, that its comments accept or no comment claims to exclude.

- *Lock* (`residual`): a live run that outlasts the stale threshold; one that dies holding the reclaim marker.
- *Archive* (`disturbed`): a kill, or an installer that fails, while the swap journal is gone and the note that the host is to be
  reconfigured is not on the disk, because it is not written yet or could not be; a staged entry that disappears; the server going back a release.
- *Git* (`forgotten`): a stop between the pull and the steps marker; any stop of the shell hook after its pull.
- *Store* (`Overlap`, `MayFail`, `MayRevert`): merging A into B and B into A at the same time; a failure between
  the write of a row and its history entry; reverting over a text that was never recorded; a write between the reads of `GET /init`.
- *Queue* (`raced`): a write appended while another process replays. Left open as well: a write is sent twice when two
  processes replay together or an answer is lost, since the server has no key to tell.
- *Notices* (`misplaced`): an outcome appended while two hooks hold the same lines, or while one writes the file back; a line read while it was half written, cut off
  for good, or appended to one that was.
- *Counter* (`clobbered`): a count another session's write took back; a file read while it is empty; a count that could not be written.
- *Gate* (`shared`): two commands evaluated at once on one approval; an ask file that cannot be removed.
- *MEMORY.md* (`exposed`): a backup that fails; a text written while a session start is under way; a file met or left empty.
- *Verdicts* (`unsaid`): a prompt hook that dies between taking the verdict and printing it; a Stop hook that sends the reply back before it has said that no judge was started.
- *Spool* (`overlaid`, `cut`, and what lies in `leftovers`): events appended just when a flush renames its file back; events beyond the 500 the server
  looks at, or that it cannot insert; the file of a flush that died.
- *Key* (`slipped`): a kill of the run that alone has the key, also of one whose recovery file could not be written and that has not yet printed its steps; two lost answers in a row; two runs on one file.
- *Lessons* (`torn`): two requests on one lesson; one that fails half way; a repeat that takes a lesson away from
  the memory it had; a user who brings back a memory that was replaced.
- *Questions* (`straddled`, `answered`): a showing reported after midnight; a question settled while the job holds its list.
- *Board* (`refilled`): a card reopened and finished anew between a review's read and its UPDATE, which its guard on the status does not see.
- *Usage* (`missed`, `suppressed`, `Invalid`): the events of days the nightly job no longer looks at; those of an exempted account; those that are not valid, and what follows them in their file (`Passable`) while their batch is refused.
- *Alerts* (`overtaken`): a notice written, under a number used before, while another sweep is about to resolve one of its machines;
  one with two machines that two sweeps resolve at once, each finding the other's still broken.
- *Migrations* (`stranded`): a file that stopped before its record and cannot be run twice stops every later boot (`Stuck`).

## What is not modelled

- *Data*: the content of memories, titles, tags, tiers, lint, the secret guard, iron-rule numbers (two created at once
  may get the same one),
  standards' detail rows, batch import, banners and logs; what a guard or a lint rule matches; what a verdict or a report says.
- *SQL statements are atomic.* Postgres at READ COMMITTED makes a single guarded `UPDATE` atomic;
  sub-statement effects are not modelled. `NOW()` is a clock that ticks at every write: two
  writes in one microsecond are not.
- *The installers*, `update.sh` and npm are one step that succeeds or fails.
- *Text files* are written whole or not at all, except where the code's own reader copes with an empty one (counter, `MEMORY.md`).
- *The rotation* of a spool that grows too large, the sweep of old sessions' records, throttles and listings.
- *Components* without a module, each with its reason in `PROJECT.json`: handoffs, accounts and web sessions,
  secrets, the administration of members (but for two super admins who demote one another at once, which one count and one `UPDATE`
  show without a model) and bug reports are single statements per request; the iron-rule editor is `PUT /:id`
  again; the switch-off and the edit reminders are marks of one session; git hooks, detection, lint and compliance events
  evaluate text; reports and the console read.

Most of the repository's lines are of those kinds: text, patterns, pages, installers. The share of its lines that `PROJECT.json`
maps is therefore small, although the parts whose order of steps matters are in it.

## Plan

The modules were written in this order: the lock and its abstraction, the archive update and the git
auto-update over the abstract lock; the store and the caches; the files of one machine; the tables of
the server; the configuration and the reminder; the session log. What would add most to them now:

1. One abstract outbox (each entry delivered at least once, or lost in a window that is named) that `OfflineQueue`, `ReportSpool` and `UpdateNotices`
   all implement: `QueuedKept`, `SpooledKept` and `NoticesKept` are the steps of these refinements already.
2. An abstract day (the sum of its events, late) for `UsagePipeline`; `CountedToCursor` is the larger part of it.
3. What would repair the violated statements, as theorems with the repair as hypothesis: a steps marker
   written by the shell hook, a token over all rows, one connection for the compression.
4. The store with titles and tiers, so that `PUT /:id`'s other branches tell apart what they now share.
5. Accounts and sessions, once they do more than one statement at a time.
