----------------------------- MODULE Broadcasts -----------------------------
(***************************************************************************)
(* The upgrade reminder the server puts up every night                     *)
(* (src/jobs/nightly-upgrade-reminder.js), and what a person sees of it: a *)
(* notice is put in front of the answer of a tool call, and can be turned  *)
(* off or put off, in one tool or in all (src/routes/broadcast.js,         *)
(* src/lib/broadcast-filter.js).  A request reads and writes in separate   *)
(* statements, and the requests of one person overlap.                     *)
(*                                                                         *)
(* A reminder is known by its threshold, the max_version of its row.  What *)
(* a person has said is kept of the first.  There is a super admin, and    *)
(* the person's client lags behind every threshold.                        *)
(***************************************************************************)
EXTENDS Naturals

CONSTANTS
  Thresholds,   \* reminderThreshold of the releases the server may run
  AITools,      \* the tools the person works in
  Everywhere,   \* ALL_TOOLS
  Calls,        \* the person's requests that may be in flight
  MaxDeploys, MaxSayings   \* bounds: deploys and PATCHes; requests to turn off or put off

ASSUME BroadcastConstants ==
  /\ 1 \in Thresholds /\ Everywhere \notin AITools
  /\ MaxDeploys \in Nat /\ MaxSayings \in Nat

VARIABLES
  threshold,   \* of the release the server runs
  reminder,    \* broadcast_messages: none, standing or ended, by threshold
  reminding,   \* where the job is
  deploys,
  off,         \* user_broadcast_state: the rows with dismissed_at,
  later,       \*   with a snooze_until to come,
  cooling,     \*   and injected within the cooldown
  fresh,       \* the tools not seen today, or not for four hours
  call,        \* each request: where it is, for which tool, and what it has read
  sayings,
  turnedOff    \* history: the tools in which the person has turned it off for good

broadcastVars == <<threshold, reminder, reminding, deploys, off, later, cooling, fresh, call, sayings, turnedOff>>
rowVars == <<off, later, cooling, fresh, call, sayings, turnedOff>>
reminderVars == <<threshold, reminder, reminding, deploys>>

Anywhere == AITools \cup {Everywhere}
Ringing == [at |-> "idle", tool |-> Everywhere, force |-> FALSE]

BroadcastsInit ==
  /\ threshold \in Thresholds /\ reminder = [v \in Thresholds |-> "none"]
  /\ reminding = "idle" /\ deploys = 0
  /\ off = {} /\ later = {} /\ cooling = {} /\ fresh = AITools /\ turnedOff = {}
  /\ call = [c \in Calls |-> Ringing] /\ sayings = 0

-----------------------------------------------------------------------------
\* A release goes out, or back, and what the job was doing is cut short.
Deploy(v) ==
  /\ v # threshold /\ deploys < MaxDeploys /\ deploys' = deploys + 1
  /\ threshold' = v /\ reminding' = "idle"
  /\ UNCHANGED <<reminder, rowVars>>

\* PATCH /admin/:id: ends_at of any row, the job's too.
Patch(v) == \E s \in {"standing", "ended"} :
  /\ reminder[v] # "none" /\ deploys < MaxDeploys /\ deploys' = deploys + 1
  /\ reminder' = [reminder EXCEPT ![v] = s]
  /\ UNCHANGED <<threshold, reminding, rowVars>>

\* ensureUpgradeReminder: the reminders of other thresholds are ended,
Retire ==
  /\ reminding = "idle"
  /\ reminder' = [v \in Thresholds |-> IF v # threshold /\ reminder[v] = "standing" THEN "ended" ELSE reminder[v]]
  /\ reminding' = "check"
  /\ UNCHANGED <<threshold, deploys, rowVars>>

\* a standing one of this threshold is looked for,
FindStanding ==
  /\ reminding = "check"
  /\ reminding' = IF reminder[threshold] = "standing" THEN "idle" ELSE "insert"
  /\ UNCHANGED <<threshold, reminder, deploys, rowVars>>

\* and if there is none a row is inserted.  ux_broadcast_auto_upgrade counts the
\* ended rows too; its 23505 is taken for another job's insert.
InsertReminder ==
  /\ reminding = "insert"
  /\ reminder' = IF reminder[threshold] = "none" THEN [reminder EXCEPT ![threshold] = "standing"] ELSE reminder
  /\ reminding' = "idle"
  /\ UNCHANGED <<threshold, deploys, rowVars>>

-----------------------------------------------------------------------------
Moves(c, r) == call' = [call EXCEPT ![c] = r]

\* filterVisibleBroadcasts: rules 1, 5 and 6.
Standing == reminder[1] = "standing"
Visible(t) == Standing /\ {t, Everywhere} \cap (off \cup later) = {}

\* POST /dismiss: what may be said is what can be seen; of all tools, whatever
\* was said before.
StartSaying(c, t) == \E what \in {"dismiss", "snooze"} :
  /\ call[c].at = "idle" /\ sayings < MaxSayings /\ sayings' = sayings + 1
  /\ IF t = Everywhere THEN Standing ELSE Visible(t)
  /\ Moves(c, [at |-> what, tool |-> t, force |-> FALSE])
  /\ UNCHANGED <<off, later, cooling, fresh, turnedOff, reminderVars>>

Covered(t) == IF t = Everywhere THEN AITools ELSE {t}

\* The upsert sets both columns: the last word counts.
Dismiss(c) == LET t == call[c].tool IN
  /\ call[c].at = "dismiss" /\ Moves(c, Ringing)
  /\ off' = off \cup {t} /\ later' = later \ {t}
  /\ turnedOff' = turnedOff \cup Covered(t)
  /\ UNCHANGED <<cooling, fresh, sayings, reminderVars>>
Snooze(c) == LET t == call[c].tool IN
  /\ call[c].at = "snooze" /\ Moves(c, Ringing)
  /\ later' = later \cup {t} /\ off' = off \ {t}
  /\ turnedOff' = {x \in turnedOff : {x, Everywhere} \cap off' # {}}
  /\ UNCHANGED <<cooling, fresh, sayings, reminderVars>>

\* POST /inject, on every tool call: when the tool was last seen,
ReadSeen(c, t) ==
  /\ call[c].at = "idle"
  /\ Moves(c, [at |-> "seen", tool |-> t, force |-> t \in fresh])
  /\ UNCHANGED <<off, later, cooling, fresh, sayings, turnedOff, reminderVars>>

UpsertSeen(c) ==
  /\ call[c].at = "seen" /\ Moves(c, [call[c] EXCEPT !.at = "filter"])
  /\ fresh' = fresh \ {call[c].tool}
  /\ UNCHANGED <<off, later, cooling, sayings, turnedOff, reminderVars>>

\* what is visible, and past its cooldown unless the call forces it,
Injectable(c) == Visible(call[c].tool) /\ (call[c].force \/ call[c].tool \notin cooling)
FilterNotices(c) ==
  /\ call[c].at = "filter"
  /\ Moves(c, IF Injectable(c) THEN [call[c] EXCEPT !.at = "mark"] ELSE Ringing)
  /\ UNCHANGED <<off, later, cooling, fresh, sayings, turnedOff, reminderVars>>

\* Mutant: the mark replaces the whole row.
MarkAnew(c) ==
  /\ call[c].at = "mark" /\ Moves(c, Ringing)
  /\ cooling' = cooling \cup {call[c].tool}
  /\ off' = off \ {call[c].tool} /\ later' = later \ {call[c].tool}
  /\ UNCHANGED <<fresh, sayings, turnedOff, reminderVars>>

\* and the mark, which leaves the other columns alone; the notice then stands in
\* front of the tool's answer.
MarkInjected(c) ==
  /\ call[c].at = "mark" /\ Moves(c, Ringing)
  /\ cooling' = cooling \cup {call[c].tool}
  /\ UNCHANGED <<off, later, fresh, sayings, turnedOff, reminderVars>>

\* The request fails, or the server dies: its statements so far stand.
CallFails(c) ==
  /\ call[c].at # "idle" /\ Moves(c, Ringing)
  /\ UNCHANGED <<off, later, cooling, fresh, sayings, turnedOff, reminderVars>>

\* Four hours without a call, or midnight; the cooldown; the end of a snooze.
GrowsFresh(t) == t \notin fresh /\ fresh' = fresh \cup {t} /\ UNCHANGED <<off, later, cooling, call, sayings, turnedOff, reminderVars>>
CoolsDown(t) == t \in cooling /\ cooling' = cooling \ {t} /\ UNCHANGED <<off, later, fresh, call, sayings, turnedOff, reminderVars>>
SnoozeEnds(t) == t \in later /\ later' = later \ {t} /\ UNCHANGED <<off, cooling, fresh, call, sayings, turnedOff, reminderVars>>

Says(c) == \/ \E t \in Anywhere : StartSaying(c, t)
           \/ Dismiss(c) \/ Snooze(c)
Injects(c) == \/ \E t \in AITools : ReadSeen(c, t)
              \/ UpsertSeen(c) \/ FilterNotices(c) \/ MarkInjected(c)

BroadcastsNext ==
  \/ \E v \in Thresholds : Deploy(v) \/ Patch(v)
  \/ Retire \/ FindStanding \/ InsertReminder
  \/ \E c \in Calls : Says(c) \/ Injects(c) \/ CallFails(c)
  \/ \E t \in AITools : GrowsFresh(t) \/ CoolsDown(t)
  \/ \E t \in Anywhere : SnoozeEnds(t)

BroadcastsSpec == BroadcastsInit /\ [][BroadcastsNext]_broadcastVars

-----------------------------------------------------------------------------
BroadcastsTypeOK ==
  /\ threshold \in Thresholds /\ reminder \in [Thresholds -> {"none", "standing", "ended"}]
  /\ reminding \in {"idle", "check", "insert"} /\ deploys \in 0..MaxDeploys
  /\ off \cup later \subseteq Anywhere /\ off \cap later = {}
  /\ cooling \cup fresh \cup turnedOff \subseteq AITools
  /\ call \in [Calls -> [at : {"idle", "dismiss", "snooze", "seen", "filter", "mark"},
                         tool : Anywhere, force : BOOLEAN]]
  /\ sayings \in 0..MaxSayings

\* Once the person has turned a notice off, in a tool or in all of them, no call
\* of that tool lets it through again, although calls that read it before write
\* their mark after; only a snooze written later brings it back.
TurnedOffStaysOff == [][\A c \in Calls :
  call[c].at = "filter" /\ call[c].tool \in turnedOff => call'[c].at # "mark"]_broadcastVars

\* After the nightly job the reminder of the server's release stands: "a revoked
\* one counts as nonexistent -> allow recreation".
ReminderStands ==
  [][reminding # "idle" /\ InsertReminder => reminder'[threshold] = "standing"]_broadcastVars
=============================================================================
