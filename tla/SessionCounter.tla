--------------------------- MODULE SessionCounter ---------------------------
(***************************************************************************)
(* When a reply that breaks the user's rules is sent back and when it is   *)
(* only warned about: the Stop hook (hooks/ownmind-reply-lint.js) counts a *)
(* session's violations and the blocks in a row in one JSON file that all  *)
(* sessions share (hooks/lib/session-counter.js).  The file is read whole  *)
(* and written whole; nothing locks it, and one that is read while it is   *)
(* being written counts as empty.  Records of sessions that ended long ago *)
(* are swept from it; they are left out.                                   *)
(***************************************************************************)
EXTENDS Naturals

CONSTANTS
  Talks,          \* open sessions
  Threshold,      \* BLOCK_THRESHOLD: the violation that is blocked (4 in the code)
  DowngradeLimit, \* BLOCK_DOWNGRADE_LIMIT: blocks in a row before a warning (3 in the code)
  MaxCounterKills \* bound: hooks killed half way, failed writes

ASSUME CounterConstants ==
  /\ Threshold \in Nat \ {0} /\ DowngradeLimit \in Nat \ {0} /\ MaxCounterKills \in Nat

VARIABLES
  counts,    \* reply-lint-session-counter.json
  lint,      \* each session's hook: where it is, and the copy of the file it writes back
  answering, \* stop_hook_active: is the reply to come the answer to a block?
  inRow,     \* blocked turns of a session since its last clean or warned one
  clobbered, \* history: the sessions whose count another session's write took back
             \*   or hid, or a failed write lost
  counterKills

counterVars == <<counts, lint, answering, inRow, clobbered, counterKills>>

Zero == [violations |-> 0, blocks |-> 0]
Idle == [at |-> "idle", file |-> [s \in Talks |-> Zero]]

CounterInit ==
  /\ counts = [s \in Talks |-> Zero]
  /\ lint = [s \in Talks |-> Idle]
  /\ answering = [s \in Talks |-> FALSE]
  /\ inRow = [s \in Talks |-> 0] /\ clobbered = {} /\ counterKills = 0

\* Counting on past a limit makes no difference.
UpTo(limit, n) == IF n < limit THEN n + 1 ELSE n

\* readAll: what is there, or nothing if another session is just writing.
Writing == {"reset", "count", "blockWrite"}
Seen(s) == {counts} \cup {Idle.file : t \in {u \in Talks \ {s} : lint[u].at \in Writing}}
Read(s, at) == \E file \in Seen(s) : lint' = [lint EXCEPT ![s] = [at |-> at, file |-> file]]
\* writeAll.  A failed write is swallowed: nothing is written, or the file has
\* been emptied already, and the hook goes on with what it counted.
Fails == counterKills < MaxCounterKills /\ counterKills' = counterKills + 1
Lost == counts' \in {counts, Idle.file}
BlocksLost == {t \in Talks : counts'[t].blocks < counts[t].blocks}
Write(s, entry) ==
  \/ /\ counts' = [lint[s].file EXCEPT ![s] = entry]
     /\ clobbered' = clobbered \cup {t \in Talks : lint[s].file[t] # counts[t]}
     /\ UNCHANGED counterKills
  \/ /\ Fails /\ Lost
     /\ clobbered' = clobbered \cup BlocksLost \cup {t \in {s} : lint[s].at = "blockWrite"}
Go(s, at) == lint' = [lint EXCEPT ![s] = [Idle EXCEPT !.at = at]]

\* The answer to a block is not looked at, so that blocking cannot loop.
AnswerPasses(s) ==
  /\ lint[s].at = "idle" /\ answering[s]
  /\ answering' = [answering EXCEPT ![s] = FALSE]
  /\ UNCHANGED <<counts, lint, inRow, clobbered, counterKills>>

\* resetBlockCount: a clean reply ends the row, and the file is written when
\* there is a row to end.
ReplyClean(s) ==
  /\ lint[s].at = "idle" /\ ~answering[s]
  /\ inRow' = [inRow EXCEPT ![s] = 0]
  /\ \/ Read(s, "reset") /\ lint'[s].file[s].blocks # 0
     \/ UNCHANGED lint /\ \E file \in Seen(s) : file[s].blocks = 0
  /\ UNCHANGED <<counts, answering, clobbered, counterKills>>
ResetBlocks(s) ==
  /\ lint[s].at = "reset"
  /\ Write(s, [lint[s].file[s] EXCEPT !.blocks = 0])
  /\ Go(s, "idle")
  /\ UNCHANGED <<answering, inRow>>

\* incrementCounter: below the threshold the reply is warned about.
ReplyBreaksRule(s) ==
  /\ lint[s].at = "idle" /\ ~answering[s]
  /\ Read(s, "count")
  /\ UNCHANGED <<counts, answering, inRow, clobbered, counterKills>>
IncrementCounter(s) ==
  LET mine == lint[s].file[s] IN
  /\ lint[s].at = "count"
  /\ Write(s, [mine EXCEPT !.violations = UpTo(Threshold - 1, @)])
  /\ Go(s, IF mine.violations + 1 >= Threshold THEN "decide" ELSE "idle")
  /\ UNCHANGED <<answering, inRow>>

\* readBlockCount: too many blocks in a row become a warning.
Downgrade(s) ==
  /\ lint[s].at = "decide" /\ counts[s].blocks >= DowngradeLimit
  /\ Go(s, "idle")
  /\ inRow' = [inRow EXCEPT ![s] = 0]
  /\ UNCHANGED <<counts, answering, clobbered, counterKills>>
\* Mutant: one block too many.
HardBlockOnceMore(s) ==
  /\ lint[s].at = "decide" /\ counts[s].blocks <= DowngradeLimit
  /\ Go(s, "block")
  /\ UNCHANGED <<counts, answering, inRow, clobbered, counterKills>>

HardBlock(s) ==
  /\ lint[s].at = "decide"
  /\ \E file \in Seen(s) :
       /\ file[s].blocks < DowngradeLimit
       /\ clobbered' = IF file = counts THEN clobbered ELSE clobbered \cup {s}
  /\ Go(s, "block")
  /\ UNCHANGED <<counts, answering, inRow, counterKills>>

\* incrementBlockCount, and then the reply goes back: exitWith(2).
StartBlock(s) ==
  /\ lint[s].at = "block" /\ Read(s, "blockWrite")
  /\ UNCHANGED <<counts, answering, inRow, clobbered, counterKills>>
IncrementBlockCount(s) ==
  /\ lint[s].at = "blockWrite"
  /\ Write(s, [lint[s].file[s] EXCEPT !.blocks = UpTo(DowngradeLimit, @)])
  /\ Go(s, "sendBack")
  /\ UNCHANGED <<answering, inRow>>
SendBackReply(s) ==
  /\ lint[s].at = "sendBack"
  /\ Go(s, "idle")
  /\ answering' = [answering EXCEPT ![s] = TRUE]
  /\ inRow' = [inRow EXCEPT ![s] = UpTo(DowngradeLimit + 1, @)]
  /\ UNCHANGED <<counts, clobbered, counterKills>>

LintKilled(s) ==
  /\ lint[s].at # "idle" /\ Fails /\ Go(s, "idle")
  /\ IF lint[s].at \in Writing THEN Lost ELSE UNCHANGED counts
  /\ clobbered' = clobbered \cup BlocksLost
  /\ UNCHANGED <<answering, inRow>>

CounterNext == \E s \in Talks :
  \/ AnswerPasses(s) \/ ReplyClean(s) \/ ResetBlocks(s) \/ ReplyBreaksRule(s)
  \/ IncrementCounter(s) \/ Downgrade(s) \/ HardBlock(s) \/ StartBlock(s)
  \/ IncrementBlockCount(s) \/ SendBackReply(s) \/ LintKilled(s)

CounterSpec == CounterInit /\ [][CounterNext]_counterVars

CounterTypeOK ==
  /\ counts \in [Talks -> [violations : 0..Threshold - 1, blocks : 0..DowngradeLimit]]
  /\ \A s \in Talks : lint[s].at \in {"idle", "reset", "count", "decide", "block", "blockWrite", "sendBack"}
  /\ answering \in [Talks -> BOOLEAN] /\ inRow \in [Talks -> 0..DowngradeLimit + 1]
  /\ clobbered \subseteq Talks /\ counterKills \in 0..MaxCounterKills

\* A session is never sent back more than DowngradeLimit turns in a row, kills
\* included, unless a write of another session took back or hid what it had
\* counted, or its own count of a block did not reach the disk.
BlocksGiveWay == \A s \in Talks : inRow[s] <= DowngradeLimit \/ s \in clobbered
=============================================================================
