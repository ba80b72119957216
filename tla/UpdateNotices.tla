--------------------------- MODULE UpdateNotices ---------------------------
(***************************************************************************)
(* How the user learns what a background update did.  The update runs in a *)
(* detached child that has no reply of its own: it appends its outcome to  *)
(* logs/update-pending.jsonl (shared/update-banner.js), and the Stop hook  *)
(* of whatever reply ends next (hooks/ownmind-reply-lint.js) prints it and *)
(* drops the lines it printed, by position.  Every open session runs that  *)
(* hook on the one file.                                                   *)
(***************************************************************************)
EXTENDS Naturals, Sequences, SequencesExt

CONSTANTS
  Chats,          \* open sessions
  MaxNotices,     \* bound: updates whose outcome is queued
  MaxNoticeKills  \* bound: hooks and updates killed half way, failed writes

ASSUME NoticeConstants == MaxNotices \in Nat /\ MaxNoticeKills \in Nat

VARIABLES
  notices,    \* the file: the lines waiting, by the outcome each is of
  queuedUpTo, \* how many have been queued
  appending,  \* the one whose line is half written; 0 when none is
  broken,     \* those with a line that will never be whole
  halfLine,   \* does the file end in half a line, with nobody to finish it?
  shown,      \* those the user has seen
  misplaced,    \* history: those queued where a hook may drop them unseen
  hook,       \* each session's hook: where it is, the lines it holds, and
              \*   those of them it could not parse
  active,     \* stop_hook_active: is the reply to come the answer to a block?
  noticeKills

noticeVars == <<notices, queuedUpTo, appending, broken, halfLine, shown, misplaced, hook, active, noticeKills>>

Gone == [at |-> "idle", batch |-> <<>>, skip |-> {}]

NoticesInit ==
  /\ notices = <<>> /\ queuedUpTo = 0 /\ appending = 0 /\ broken = {} /\ halfLine = FALSE
  /\ shown = {} /\ misplaced = {}
  /\ hook = [s \in Chats |-> Gone] /\ active = [s \in Chats |-> FALSE]
  /\ noticeKills = 0

NoticeFault == noticeKills < MaxNoticeKills /\ noticeKills' = noticeKills + 1

-----------------------------------------------------------------------------
(* queueUpdateBanner                                                       *)

\* What dropping lines by position counts on: no other hook drops any, and
\* nobody appends while the rest is written back.
Undropped(s) == hook[s].batch # <<>>
Drifted(s) == \/ hook[s].at = "write"
              \/ Undropped(s) /\ ~IsPrefix(hook[s].batch, notices)
              \/ Undropped(s) /\ \E t \in Chats \ {s} : Undropped(t)

\* Nobody appends while another append is half way.
QueueNotice ==
  /\ queuedUpTo < MaxNotices /\ appending = 0 /\ ~halfLine
  /\ queuedUpTo' = queuedUpTo + 1 /\ appending' \in {0, queuedUpTo'}
  /\ notices' = Append(notices, queuedUpTo')
  /\ misplaced' = IF \E s \in Chats : Drifted(s) THEN misplaced \cup {queuedUpTo'} ELSE misplaced
  /\ UNCHANGED <<broken, halfLine, shown, hook, active, noticeKills>>

\* It runs on in a line that was cut short.
QueueBehindCut ==
  /\ queuedUpTo < MaxNotices /\ halfLine
  /\ queuedUpTo' = queuedUpTo + 1 /\ misplaced' = misplaced \cup {queuedUpTo'} /\ halfLine' = FALSE
  /\ UNCHANGED <<notices, appending, broken, shown, hook, active, noticeKills>>

\* The rest of the line.  It makes a line of its own, of no use to anybody,
\* when a hook has dropped the first half or written it back.
FinishAppend ==
  /\ appending # 0 /\ appending' = 0
  /\ IF appending \in ToSet(notices) \ broken THEN UNCHANGED <<notices, broken>>
     ELSE notices' = Append(notices, appending) /\ broken' = broken \cup {appending}
  /\ UNCHANGED <<queuedUpTo, halfLine, shown, misplaced, hook, active, noticeKills>>

\* The disk fills up, or the update is killed, in the middle of the line.
AppendCut ==
  /\ appending # 0 /\ NoticeFault /\ appending' = 0
  /\ halfLine' = (appending \in ToSet(notices) \ broken)
  /\ broken' = broken \cup {appending} /\ misplaced' = misplaced \cup {appending}
  /\ UNCHANGED <<notices, queuedUpTo, shown, hook, active>>

-----------------------------------------------------------------------------
(* the hook                                                                *)

Unreadable == broken \cup {appending}

\* readUpdateNotices, before anything can exit early: a line that cannot be
\* parsed is counted and not shown.  Without one that can, nothing is dropped.
ReplyEnds(s) ==
  /\ hook[s].at = "idle"
  /\ hook' = [hook EXCEPT ![s] =
       [at |-> "lint", skip |-> Unreadable \cap ToSet(notices),
        batch |-> IF ToSet(notices) \subseteq Unreadable THEN <<>> ELSE notices]]
  /\ UNCHANGED <<notices, queuedUpTo, appending, broken, halfLine, shown, misplaced, active, noticeKills>>

\* exitWith(2): the reply is sent back to the AI, with nothing for the user.
\* Never the answer to a reply that was sent back.
SendBack(s) ==
  /\ hook[s].at = "lint" /\ ~active[s]
  /\ hook' = [hook EXCEPT ![s] = Gone]
  /\ active' = [active EXCEPT ![s] = TRUE]
  /\ UNCHANGED <<notices, queuedUpTo, appending, broken, halfLine, shown, misplaced, noticeKills>>

\* exitWith(0): the outcomes are printed, and only then may they be dropped,
\* with the lines that were counted and not shown.
Leave(s) ==
  /\ hook[s].at = "lint"
  /\ shown' = shown \cup (ToSet(hook[s].batch) \ hook[s].skip)
  /\ misplaced' = misplaced \cup (ToSet(hook[s].batch) \cap hook[s].skip)
  /\ hook' = [hook EXCEPT ![s] = IF Undropped(s) THEN [@ EXCEPT !.at = "read"] ELSE Gone]
  /\ active' = [active EXCEPT ![s] = FALSE]
  /\ UNCHANGED <<notices, queuedUpTo, appending, broken, halfLine, noticeKills>>

\* Mutant: the file is emptied, whatever was appended meanwhile.
TruncateQueue(s) ==
  /\ hook[s].at = "read"
  /\ hook' = [hook EXCEPT ![s] = IF notices = <<>> THEN Gone ELSE [Gone EXCEPT !.at = "write"]]
  /\ UNCHANGED <<notices, queuedUpTo, appending, broken, halfLine, shown, misplaced, active, noticeKills>>

\* clearDeliveredUpdateNotices: what is read is cut by the number of lines
\* counted and written back.  A file that is gone is left alone.
ReadRest(s) ==
  /\ hook[s].at = "read"
  /\ hook' = [hook EXCEPT ![s] =
       IF notices = <<>> THEN Gone
       ELSE [at |-> "write", batch |-> SubSeq(notices, Len(@.batch) + 1, Len(notices)), skip |-> Unreadable]]
  /\ UNCHANGED <<notices, queuedUpTo, appending, broken, halfLine, shown, misplaced, active, noticeKills>>

\* A line that was half written when it was read, or is now, is in two pieces.
Torn(s) == (hook[s].skip \cup {appending}) \cap ToSet(hook[s].batch)
WriteRest(s) ==
  /\ hook[s].at = "write"
  /\ notices' = hook[s].batch
  /\ broken' = broken \cup Torn(s) /\ misplaced' = misplaced \cup Torn(s) /\ halfLine' = FALSE
  /\ hook' = [hook EXCEPT ![s] = Gone]
  /\ UNCHANGED <<queuedUpTo, appending, shown, active, noticeKills>>

\* writeFileSync empties the file and then fails, or is killed.
WriteRestFails(s) ==
  /\ hook[s].at = "write" /\ NoticeFault
  /\ notices' = <<>> /\ misplaced' = misplaced \cup ToSet(hook[s].batch) /\ halfLine' = FALSE
  /\ hook' = [hook EXCEPT ![s] = Gone]
  /\ UNCHANGED <<queuedUpTo, appending, broken, shown, active>>

\* The harness gives up on the hook.
HookKilled(s) ==
  /\ hook[s].at # "idle" /\ NoticeFault
  /\ hook' = [hook EXCEPT ![s] = Gone]
  /\ active' = [active EXCEPT ![s] = FALSE]
  /\ UNCHANGED <<notices, queuedUpTo, appending, broken, halfLine, shown, misplaced>>

HookStep(s) == ReplyEnds(s) \/ SendBack(s) \/ Leave(s) \/ ReadRest(s) \/ WriteRest(s)

NoticesNext ==
  \/ QueueNotice \/ QueueBehindCut \/ FinishAppend \/ AppendCut
  \/ \E s \in Chats : HookStep(s) \/ HookKilled(s) \/ WriteRestFails(s)
NoticesSpec == NoticesInit /\ [][NoticesNext]_noticeVars

\* Replies go on ending, and the hook of each runs to its exit; an append that
\* was begun ends.
NoticesFairness == WF_noticeVars(FinishAppend) /\ \A s \in Chats : WF_noticeVars(HookStep(s))

-----------------------------------------------------------------------------
NoticesTypeOK ==
  /\ notices \in Seq(1..MaxNotices) /\ queuedUpTo \in 0..MaxNotices
  /\ appending \in 0..queuedUpTo /\ broken \subseteq 1..queuedUpTo /\ halfLine \in BOOLEAN
  /\ shown \subseteq 1..queuedUpTo /\ misplaced \subseteq 1..queuedUpTo
  /\ hook \in [Chats -> [at : {"idle", "lint", "read", "write"}, batch : Seq(1..MaxNotices),
                         skip : SUBSET (0..MaxNotices)]]
  /\ active \in [Chats -> BOOLEAN] /\ noticeKills \in 0..MaxNoticeKills

\* An outcome nobody has seen waits in the file, whatever the hooks of the
\* sessions have dropped from it by position, but for those that came while two
\* of them held the same lines or one was writing the file back, whose line was
\* half written when a hook counted it or wrote it back, or whose line, or the
\* one they run on in, a kill or a full disk cuts short.
NoticesKept == \A n \in 1..queuedUpTo : n \in shown \/ n \in misplaced \/ n \in ToSet(notices)

\* The outcome of every update is shown to somebody in the end, although
\* replies may be sent back, hooks killed and other sessions draining the same
\* file, but for those lost in one of these ways.
NoticesShown == \A n \in 1..MaxNotices : n <= queuedUpTo ~> n \in shown \/ n \in misplaced
=============================================================================
