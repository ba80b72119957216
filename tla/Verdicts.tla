------------------------------ MODULE Verdicts ------------------------------
(***************************************************************************)
(* The check of a reply by a judge.  The Stop hook leaves a pending marker *)
(* for the turn, hands the job over in a file and starts a detached        *)
(* process (start-local-judge.js); the judge puts its verdict in the       *)
(* marker's place by rename (run-local-judge.js, verdict-store.js); the    *)
(* prompt hook of whatever window the user types in next collects what has *)
(* landed and writes off what is overdue (verdict-collect.js).             *)
(*                                                                         *)
(* What a verdict says, the throttle on notices and the weekly sweep of    *)
(* sessions that ended are left out: told means taken up for the user.     *)
(***************************************************************************)
EXTENDS Naturals, Sequences, SequencesExt

CONSTANTS
  Turns,         \* replies that are judged, numbered in the order they are made
  Windows,       \* windows open on the one session
  MaxJudgeFaults \* bound: failed starts, judges and hooks that die

ASSUME VerdictConstants == Turns \subseteq Nat /\ MaxJudgeFaults \in Nat

VARIABLES
  turn,        \* new, marked, started, failed: no judge was started and the Stop hook has yet to
               \* say so, or over: it ended without a judge
  verdict,     \* the file of the turn: none, pending or landed
  judging,     \* is the judge of the turn alive?
  overdue,     \* has JUDGE_DEADLINE_MS passed since the marker was written?
  collector,   \* each window's prompt hook: the entries it has yet to look at, the one it is
               \* about to write off, and what it will say
  told,        \* what the user has been told of a turn: {}, or some of "verdict", "vanished", "failed"
  onTime,      \* history: the turns whose verdict landed before the deadline
  unsaid,      \* history: the turns whose notice died with the hook that had taken it, or was
               \* dropped by the Stop hook because it sent the reply back
  judgeFaults

verdictVars == <<turn, verdict, judging, overdue, collector, told, onTime, unsaid, judgeFaults>>

NoCollector == [on |-> FALSE, todo |-> <<>>, writingOff |-> FALSE, says |-> {}]
JudgeFault == judgeFaults < MaxJudgeFaults /\ judgeFaults' = judgeFaults + 1

VerdictsInit ==
  /\ turn = [t \in Turns |-> "new"]
  /\ verdict = [t \in Turns |-> "none"]
  /\ judging = [t \in Turns |-> FALSE] /\ overdue = [t \in Turns |-> FALSE]
  /\ collector = [w \in Windows |-> NoCollector]
  /\ told = [t \in Turns |-> {}]
  /\ onTime = {} /\ unsaid = {} /\ judgeFaults = 0

-----------------------------------------------------------------------------
(* startLocalJudge: the marker, then the job, then the process             *)

\* The turns are one after the other.
Ready(t) == turn[t] = "new" /\ \A u \in Turns : u < t => turn[u] \in {"started", "over"}

\* Mutant: the marker is left to the end, and a turn that fails has none.
MarkLast(t) ==
  /\ Ready(t)
  /\ turn' = [turn EXCEPT ![t] = "marked"]
  /\ UNCHANGED <<verdict, judging, overdue, collector, told, onTime, unsaid, judgeFaults>>

MarkTurn(t) ==
  /\ Ready(t)
  /\ turn' = [turn EXCEPT ![t] = "marked"]
  /\ verdict' = [verdict EXCEPT ![t] = "pending"]
  /\ UNCHANGED <<judging, overdue, collector, told, onTime, unsaid, judgeFaults>>

SpawnJudge(t) ==
  /\ turn[t] = "marked"
  /\ turn' = [turn EXCEPT ![t] = "started"]
  /\ judging' = [judging EXCEPT ![t] = TRUE]
  /\ UNCHANGED <<verdict, overdue, collector, told, onTime, unsaid, judgeFaults>>

\* The marker or the job cannot be written, or the process not be started:
\* the marker is taken back, and the hook queues a notice for the user.
StartFails(t) ==
  /\ Ready(t) \/ turn[t] = "marked"
  /\ JudgeFault
  /\ turn' = [turn EXCEPT ![t] = "failed"]
  /\ verdict' = [verdict EXCEPT ![t] = "none"]
  /\ UNCHANGED <<judging, overdue, collector, told, onTime, unsaid>>

\* exitWith(0): the queued notice is printed.
SayFailed(t) ==
  /\ turn[t] = "failed"
  /\ turn' = [turn EXCEPT ![t] = "over"]
  /\ told' = [told EXCEPT ![t] = @ \cup {"failed"}]
  /\ UNCHANGED <<verdict, judging, overdue, collector, onTime, unsaid, judgeFaults>>

\* exitWith(2), for a validator: the reply goes back and the notice with the process.
LeaveUnsaid(t) ==
  /\ turn[t] = "failed"
  /\ turn' = [turn EXCEPT ![t] = "over"]
  /\ unsaid' = unsaid \cup {t}
  /\ UNCHANGED <<verdict, judging, overdue, collector, told, onTime, judgeFaults>>

StopHookDies(t) ==
  /\ turn[t] \in {"marked", "failed"} /\ JudgeFault
  /\ turn' = [turn EXCEPT ![t] = "over"]
  /\ unsaid' = IF turn[t] = "failed" THEN unsaid \cup {t} ELSE unsaid
  /\ UNCHANGED <<verdict, judging, overdue, collector, told, onTime>>

-----------------------------------------------------------------------------
(* runJudgeJob: every path out of it settles                               *)

Settle(t) ==
  /\ judging[t]
  /\ judging' = [judging EXCEPT ![t] = FALSE]
  /\ verdict' = [verdict EXCEPT ![t] = "landed"]
  /\ onTime' = IF overdue[t] THEN onTime ELSE onTime \cup {t}
  /\ UNCHANGED <<turn, overdue, collector, told, unsaid, judgeFaults>>

JudgeDies(t) ==
  /\ judging[t] /\ JudgeFault
  /\ judging' = [judging EXCEPT ![t] = FALSE]
  /\ UNCHANGED <<turn, verdict, overdue, collector, told, onTime, unsaid>>

\* The deadline is beyond the judge's own limits, but a machine can sleep.
DeadlinePasses(t) ==
  /\ turn[t] # "new" /\ ~overdue[t]
  /\ overdue' = [overdue EXCEPT ![t] = TRUE]
  /\ UNCHANGED <<turn, verdict, judging, collector, told, onTime, unsaid, judgeFaults>>

-----------------------------------------------------------------------------
(* collectVerdict, at the next prompt in a window                          *)

Listed == SelectSeq(SetToSortSeq(Turns, <), LAMBDA t : verdict[t] # "none")

\* listVerdicts: the files and what they hold now.
ListVerdicts(w) ==
  /\ ~collector[w].on /\ Listed # <<>>
  /\ collector' = [collector EXCEPT ![w] =
       [NoCollector EXCEPT !.on = TRUE, !.todo = [i \in DOMAIN Listed |-> [turn |-> Listed[i], was |-> verdict[Listed[i]]]]]]
  /\ UNCHANGED <<turn, verdict, judging, overdue, told, onTime, unsaid, judgeFaults>>

Entry(w) == Head(collector[w].todo)
Reviewing(w) == collector[w].on /\ ~collector[w].writingOff /\ collector[w].todo # <<>>

Handled(w, said) == collector' = [collector EXCEPT ![w] =
                   [collector[w] EXCEPT !.todo = Tail(@), !.writingOff = FALSE, !.says = @ \cup said]]

\* removeVerdict, and what the file said is taken up.
Deliver(w) ==
  LET t == Entry(w).turn IN
  /\ Reviewing(w)
  /\ \/ Entry(w).was = "landed"
     \/ Entry(w).was = "pending" /\ overdue[t] /\ verdict[t] = "landed"  \* the second look
  /\ verdict' = [verdict EXCEPT ![t] = "none"]
  /\ Handled(w, {<<t, "verdict">>})
  /\ UNCHANGED <<turn, judging, overdue, told, onTime, unsaid, judgeFaults>>

\* A marker within its time is left alone; one that is gone was somebody else's.
LeaveEntry(w) ==
  LET t == Entry(w).turn IN
  /\ Reviewing(w) /\ Entry(w).was = "pending"
  /\ ~overdue[t] \/ verdict[t] = "none"
  /\ Handled(w, {})
  /\ UNCHANGED <<turn, verdict, judging, overdue, told, onTime, unsaid, judgeFaults>>

\* Mutant: the listing decides, without a second look.
GiveUpOnListed(w) ==
  LET t == Entry(w).turn IN
  /\ Reviewing(w) /\ Entry(w).was = "pending" /\ overdue[t]
  /\ collector' = [collector EXCEPT ![w].writingOff = TRUE]
  /\ UNCHANGED <<turn, verdict, judging, overdue, told, onTime, unsaid, judgeFaults>>

\* Overdue, and the second look still finds the marker.
GiveUpOn(w) ==
  LET t == Entry(w).turn IN
  /\ Reviewing(w) /\ Entry(w).was = "pending" /\ overdue[t] /\ verdict[t] = "pending"
  /\ collector' = [collector EXCEPT ![w].writingOff = TRUE]
  /\ UNCHANGED <<turn, verdict, judging, overdue, told, onTime, unsaid, judgeFaults>>

WriteOff(w) ==
  LET t == Entry(w).turn IN
  /\ collector[w].writingOff
  /\ verdict' = [verdict EXCEPT ![t] = "none"]
  /\ Handled(w, {<<t, "vanished">>})
  /\ UNCHANGED <<turn, judging, overdue, told, onTime, unsaid, judgeFaults>>

\* Everything is printed at the end, in one piece.
Announce(w) ==
  /\ collector[w].on /\ collector[w].todo = <<>>
  /\ told' = [t \in Turns |-> told[t] \cup {x[2] : x \in {y \in collector[w].says : y[1] = t}}]
  /\ collector' = [collector EXCEPT ![w] = NoCollector]
  /\ UNCHANGED <<turn, verdict, judging, overdue, onTime, unsaid, judgeFaults>>

CollectorDies(w) ==
  /\ collector[w].on /\ JudgeFault
  /\ unsaid' = unsaid \cup {x[1] : x \in collector[w].says}
  /\ collector' = [collector EXCEPT ![w] = NoCollector]
  /\ UNCHANGED <<turn, verdict, judging, overdue, told, onTime>>

Collect(w) == Deliver(w) \/ LeaveEntry(w) \/ GiveUpOn(w) \/ WriteOff(w) \/ Announce(w)
StopHookRuns(t) == MarkTurn(t) \/ SpawnJudge(t) \/ SayFailed(t) \/ LeaveUnsaid(t)

VerdictsNext ==
  \/ \E t \in Turns : \/ StopHookRuns(t) \/ StartFails(t) \/ StopHookDies(t)
                      \/ Settle(t) \/ JudgeDies(t) \/ DeadlinePasses(t)
  \/ \E w \in Windows : ListVerdicts(w) \/ Collect(w) \/ CollectorDies(w)

VerdictsSpec == VerdictsInit /\ [][VerdictsNext]_verdictVars

\* Hooks run to their end, and time passes.  Nothing makes the user type again:
\* the last reply of a conversation is judged and never collected.
VerdictsFairness ==
  /\ \A t \in Turns : WF_verdictVars(StopHookRuns(t)) /\ WF_verdictVars(DeadlinePasses(t))
  /\ \A w \in Windows : WF_verdictVars(Collect(w))

-----------------------------------------------------------------------------
VerdictsTypeOK ==
  /\ turn \in [Turns -> {"new", "marked", "failed", "started", "over"}]
  /\ verdict \in [Turns -> {"none", "pending", "landed"}]
  /\ judging \in [Turns -> BOOLEAN] /\ overdue \in [Turns -> BOOLEAN]
  /\ \A w \in Windows :
       /\ collector[w].todo \in Seq([turn : Turns, was : {"pending", "landed"}])
       /\ collector[w].says \subseteq Turns \X {"verdict", "vanished"}
       /\ collector[w].writingOff => collector[w].on /\ collector[w].todo # <<>>
  /\ told \in [Turns -> SUBSET {"verdict", "vanished", "failed"}]
  /\ onTime \subseteq Turns /\ unsaid \subseteq Turns /\ judgeFaults \in 0..MaxJudgeFaults

\* A verdict that landed before the deadline is never announced as a judge
\* that did not come back, and never thrown away, however the judge's rename
\* falls between the listing, the second look and the removal.
OnTimeNotWrittenOff ==
  \A t \in onTime :
    /\ "vanished" \notin told[t]
    /\ \A w \in Windows : <<t, "vanished">> \notin collector[w].says
                          /\ ~(collector[w].writingOff /\ Entry(w).turn = t)

\* No turn that was to be judged drops out of sight: its file is there, or what
\* came of it was taken up for the user, although hooks of several windows list,
\* take and write off the same turns.
TurnsKept ==
  \A t \in Turns : turn[t] \notin {"new", "failed"} =>
    \/ verdict[t] # "none" \/ told[t] # {} \/ t \in unsaid
    \/ \E w \in Windows : \E what \in {"verdict", "vanished"} : <<t, what>> \in collector[w].says

\* While the user goes on typing in some window of the session, every turn that
\* was to be judged is heard of: its verdict, its failure or the judge that
\* vanished.  Only a prompt hook that dies between taking the file and printing,
\* or a Stop hook that ends with the notice unprinted, takes the answer with it.
TypesAgain == WF_verdictVars(\E w \in Windows : ListVerdicts(w))
EveryTurnTold ==
  TypesAgain => \A t \in Turns : turn[t] # "new" ~> told[t] # {} \/ t \in unsaid
=============================================================================
