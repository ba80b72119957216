----------------------------- MODULE ActionGate -----------------------------
(***************************************************************************)
(* The gate in front of the commands of an AI session                      *)
(* (hooks/lib/action-gate.js): a guard can demand that its rule was read,  *)
(* that the command has a certain form, and that the user is asked first.  *)
(* What it remembers between commands is three small files per guard: the  *)
(* receipt of the reading (gate-receipt.js), the count of blocks in a row  *)
(* and the ask with its approval.  Each command is looked at by a hook     *)
(* process of its own, and an AI may run several commands at once.         *)
(*                                                                         *)
(* One guard is looked at in one step; the files are shared in between.    *)
(* Seals, codes and receipts are valid or not: how they are derived is     *)
(* left out.                                                               *)
(***************************************************************************)
EXTENDS Naturals, Sequences, SequencesExt, FiniteSetsExt

CONSTANTS
  Guards,        \* numbers of guards, in the order they are looked at
  Demands,       \* what each guard demands: [read, ask: BOOLEAN]
  Commands,      \* the commands the AI wants to run
  Matches,       \* the guards each command falls under
  Breaks,        \* the guards whose check it does not pass
  BlocksToAsk,   \* blocks in a row before the user is asked (3 in the code)
  MaxMisses,     \* MAX_ASK_MISSES: wrong codes before an ask is burned (5 in the code)
  MaxGateFaults  \* bound: failed receipts, files that stay, edited rules, changed modes, asks that grow old

ASSUME GateConstants ==
  /\ Guards \subseteq Nat /\ Demands \in [Guards -> [read : BOOLEAN, ask : BOOLEAN]]
  /\ Matches \in [Commands -> SUBSET Guards] /\ Breaks \in [Commands -> SUBSET Guards]
  /\ IsFiniteSet(Commands) /\ {BlocksToAsk, MaxMisses} \subseteq Nat \ {0} /\ MaxGateFaults \in Nat

VARIABLES
  receipt,   \* has this session read the rule of the guard, as it is now?
  limit,     \* gate-limit: the kind of the last block, and how many in a row
  ask,       \* gate-ask: the ask issued last, and whether it was approved
  askMode,   \* ask_mode of each guard, in the owner's hands
  gate,      \* each command's hook: the guards to look at, the approvals to use up
  grants,    \* history: approvals given for a guard
  openings,  \* history: commands an approval let through
  shared,    \* history: the guards one approval of which two hooks held at once, or could not be removed
  gateFaults

gateVars == <<receipt, limit, ask, askMode, gate, grants, openings, shared, gateFaults>>
gateHistory == <<grants, openings, shared>>

NoAsk == [kind |-> "none", mode |-> "code", approved |-> FALSE, misses |-> 0, old |-> FALSE]
NoLimit == [kind |-> "none", count |-> 0]
Untried == [at |-> "wait", rest |-> <<>>, uses |-> {}]
GateFault == gateFaults < MaxGateFaults /\ gateFaults' = gateFaults + 1
\* Commands count each approval at most once, so more of them make no difference.
CountTo(n, most) == IF n < most THEN n + 1 ELSE n
Many == Cardinality(Commands)

GateInit ==
  /\ receipt = [g \in Guards |-> FALSE] /\ limit = [g \in Guards |-> NoLimit]
  /\ ask = [g \in Guards |-> NoAsk]
  /\ askMode \in [Guards -> {"code", "verbal"}]
  /\ gate = [c \in Commands |-> Untried]
  /\ grants = [g \in Guards |-> 0] /\ openings = [g \in Guards |-> 0] /\ shared = {}
  /\ gateFaults = 0

-----------------------------------------------------------------------------
\* issueAsk: a new record over whatever was there.  The limit is never verbal.
Issued(g, kind) ==
  [NoAsk EXCEPT !.kind = kind, !.mode = IF kind = "ask" THEN askMode[g] ELSE "code"]
IssueAsk(g, kind) == ask' = [ask EXCEPT ![g] = Issued(g, kind)]

\* Mutant: the user is asked at the limit only, not beyond it.
BumpOnce(g, kind) ==
  LET count == IF limit[g].kind = kind THEN CountTo(limit[g].count, BlocksToAsk) ELSE 1 IN
  /\ limit' = [limit EXCEPT ![g] = [kind |-> kind, count |-> count]]
  /\ IF count = BlocksToAsk /\ limit[g].count < BlocksToAsk THEN IssueAsk(g, "limit") ELSE UNCHANGED ask

\* bumpLimit, and the ask when the AI is stuck.
Bump(g, kind) ==
  LET count == IF limit[g].kind = kind THEN CountTo(limit[g].count, BlocksToAsk) ELSE 1 IN
  /\ limit' = [limit EXCEPT ![g] = [kind |-> kind, count |-> count]]
  /\ IF count >= BlocksToAsk THEN IssueAsk(g, "limit") ELSE UNCHANGED ask

SendAway(c) == gate' = [gate EXCEPT ![c] = Untried]

\* readApprovedAsk
Approved(g, kinds) == ask[g].approved /\ ask[g].kind \in kinds

\* evaluateGate starts: the guards that match, in order.
ToolCall(c) ==
  /\ gate[c].at = "wait"
  /\ gate' = [gate EXCEPT ![c] = [at |-> "look", rest |-> SetToSortSeq(Matches[c], <), uses |-> {}]]
  /\ UNCHANGED <<receipt, limit, ask, askMode, gateHistory, gateFaults>>

Looking(c, g) == gate[c].at = "look" /\ gate[c].rest # <<>> /\ g = Head(gate[c].rest)
MustRead(g) == Demands[g].read /\ ~receipt[g]

\* The rule is shown, and the receipt written for the next try.
BlockToRead(c) == \E g \in Guards :
  /\ Looking(c, g) /\ MustRead(g)
  /\ receipt' = [receipt EXCEPT ![g] = TRUE]
  /\ Bump(g, "read") /\ SendAway(c)
  /\ UNCHANGED <<askMode, gateHistory, gateFaults>>

\* Receipts cannot be kept: the demand to read is dropped, the others stay.
PastReading(g) == (~MustRead(g) /\ UNCHANGED gateFaults) \/ (MustRead(g) /\ GateFault)

\* The guard is behind us; its count starts again.
Past(c, uses) == [gate[c] EXCEPT !.rest = Tail(gate[c].rest), !.uses = gate[c].uses \cup uses]
PassOn(c, g, uses) ==
  /\ limit' = [limit EXCEPT ![g] = NoLimit]
  /\ gate' = [gate EXCEPT ![c] = Past(c, uses)]
  /\ shared' = shared \cup {u \in uses : \E d \in Commands \ {c} : u \in gate[d].uses}

\* An approval of the limit lets the command past all of the guard.
PassByLimit(c) == \E g \in Guards :
  /\ Looking(c, g) /\ PastReading(g) /\ Approved(g, {"limit"})
  /\ PassOn(c, g, {g})
  /\ UNCHANGED <<receipt, ask, askMode, grants, openings>>

BlockByCheck(c) == \E g \in Guards :
  /\ Looking(c, g) /\ PastReading(g) /\ ~Approved(g, {"limit"}) /\ g \in Breaks[c]
  /\ Bump(g, "check") /\ SendAway(c)
  /\ UNCHANGED <<receipt, askMode, gateHistory>>

\* ask_first: only an approval in the owner's mode counts.
AskFirst(c) == \E g \in Guards :
  /\ Looking(c, g) /\ PastReading(g) /\ ~Approved(g, {"limit"}) /\ g \notin Breaks[c]
  /\ Demands[g].ask /\ ~(Approved(g, {"ask"}) /\ ask[g].mode = askMode[g])
  /\ IssueAsk(g, "ask") /\ SendAway(c)
  /\ UNCHANGED <<receipt, limit, askMode, gateHistory>>

PassGuard(c) == \E g \in Guards :
  /\ Looking(c, g) /\ PastReading(g) /\ ~Approved(g, {"limit"}) /\ g \notin Breaks[c]
  /\ Demands[g].ask => Approved(g, {"ask"}) /\ ask[g].mode = askMode[g]
  /\ PassOn(c, g, IF Demands[g].ask THEN {g} ELSE {})
  /\ UNCHANGED <<receipt, ask, askMode, grants, openings>>

\* Mutant: the approval of an ask is left for the next time.
ConsumeLimits(c) ==
  /\ gate[c].at = "look" /\ gate[c].rest = <<>>
  /\ ask' = [g \in Guards |-> IF g \in gate[c].uses /\ Approved(g, {"limit"}) THEN NoAsk ELSE ask[g]]
  /\ gate' = [gate EXCEPT ![c].at = "allow"]
  /\ UNCHANGED <<receipt, limit, askMode, gateHistory, gateFaults>>

\* All guards passed: only now are the approvals used up (consumeApproval)...
Consume(c) ==
  /\ gate[c].at = "look" /\ gate[c].rest = <<>>
  /\ ask' = [g \in Guards |-> IF g \in gate[c].uses /\ ask[g].approved THEN NoAsk ELSE ask[g]]
  /\ gate' = [gate EXCEPT ![c].at = "allow"]
  /\ UNCHANGED <<receipt, limit, askMode, gateHistory, gateFaults>>

\* The file cannot be removed: "one extra allowed retry".
ConsumeFails(c) ==
  /\ gate[c].at = "look" /\ gate[c].rest = <<>> /\ gate[c].uses # {} /\ GateFault
  /\ shared' = shared \cup gate[c].uses
  /\ gate' = [gate EXCEPT ![c].at = "allow"]
  /\ UNCHANGED <<receipt, limit, ask, askMode, grants, openings>>

\* ... and the command runs.
Allow(c) ==
  /\ gate[c].at = "allow"
  /\ gate' = [gate EXCEPT ![c] = [Untried EXCEPT !.at = "ran"]]
  /\ openings' = [g \in Guards |-> IF g \in gate[c].uses THEN CountTo(openings[g], Many) ELSE openings[g]]
  /\ UNCHANGED <<receipt, limit, ask, askMode, grants, shared, gateFaults>>

-----------------------------------------------------------------------------
\* approveAction: the right code for the ask as it is now...
Answerable(g) == /\ ask[g].kind # "none" /\ ~ask[g].approved /\ ask[g].mode = "code"
                 /\ ~ask[g].old /\ ask[g].misses < MaxMisses
Grant(g) == /\ ask' = [ask EXCEPT ![g].approved = TRUE]
            /\ grants' = [grants EXCEPT ![g] = CountTo(@, Many)]
            /\ UNCHANGED <<receipt, limit, askMode, gate, openings, shared, gateFaults>>
ApproveAction(g) == Answerable(g) /\ Grant(g)

\* ... or a wrong one, the code of an ask issued before included.
WrongCode(g) ==
  /\ Answerable(g)
  /\ ask' = [ask EXCEPT ![g].misses = @ + 1]
  /\ UNCHANGED <<receipt, limit, askMode, gate, gateHistory, gateFaults>>

\* approveActionVerbal
ApproveActionVerbal(g) ==
  /\ ask[g].kind # "none" /\ ~ask[g].approved /\ ask[g].mode = "verbal"
  /\ Grant(g)

\* ASK_TTL_MS passes over a code nobody has given.
AskGrowsOld(g) ==
  /\ ask[g].kind # "none" /\ ~ask[g].old /\ GateFault
  /\ ask' = [ask EXCEPT ![g].old = TRUE]
  /\ UNCHANGED <<receipt, limit, askMode, gate, gateHistory>>

\* The owner edits the rule (its receipt is void) or the mode of the guard.
RuleEdited(g) ==
  /\ receipt[g] /\ GateFault
  /\ receipt' = [receipt EXCEPT ![g] = FALSE]
  /\ UNCHANGED <<limit, ask, askMode, gate, gateHistory>>
ModeSwitched(g) ==
  /\ GateFault
  /\ askMode' = [askMode EXCEPT ![g] = IF @ = "code" THEN "verbal" ELSE "code"]
  /\ UNCHANGED <<receipt, limit, ask, gate, gateHistory>>

\* The hook is killed: the harness lets nothing run.
GateHookKilled(c) ==
  /\ gate[c].at \in {"look", "allow"} /\ GateFault
  /\ SendAway(c)
  /\ UNCHANGED <<receipt, limit, ask, askMode, gateHistory>>

Evaluate(c) == \/ ToolCall(c) \/ BlockToRead(c) \/ PassByLimit(c) \/ BlockByCheck(c)
               \/ AskFirst(c) \/ PassGuard(c) \/ Consume(c) \/ Allow(c)
Answer(g) == ApproveAction(g) \/ ApproveActionVerbal(g)

GateNext ==
  \/ \E c \in Commands : Evaluate(c) \/ ConsumeFails(c) \/ GateHookKilled(c)
  \/ \E g \in Guards : Answer(g) \/ WrongCode(g) \/ AskGrowsOld(g) \/ RuleEdited(g) \/ ModeSwitched(g)

GateSpec == GateInit /\ [][GateNext]_gateVars

\* The AI tries again and the user, asked, says yes in the end.
GateFairness == /\ \A c \in Commands : WF_gateVars(Evaluate(c))
                /\ \A g \in Guards : SF_gateVars(Answer(g))

-----------------------------------------------------------------------------
GateTypeOK ==
  /\ receipt \in [Guards -> BOOLEAN] /\ askMode \in [Guards -> {"code", "verbal"}]
  /\ limit \in [Guards -> [kind : {"none", "read", "check"}, count : 0..BlocksToAsk]]
  /\ ask \in [Guards -> [kind : {"none", "ask", "limit"}, mode : {"code", "verbal"},
                         approved : BOOLEAN, misses : 0..MaxMisses, old : BOOLEAN]]
  /\ gate \in [Commands -> [at : {"wait", "look", "allow", "ran"}, rest : Seq(Guards), uses : SUBSET Guards]]
  /\ grants \in [Guards -> 0..Many] /\ openings \in [Guards -> 0..Many]
  /\ shared \subseteq Guards /\ gateFaults \in 0..MaxGateFaults

\* "OwnMind allows it this once": of the commands approvals let through there
\* are never more than approvals, whichever of the user's two ways of saying
\* yes and however asks are issued again, run out and are approved in between.
\* Only two commands evaluated at once, or a file that stays, can share one.
OneOpeningPerApproval == \A g \in Guards : openings[g] <= grants[g] \/ g \in shared

\* A command is not blocked for good: the AI that tries again and the user who
\* says yes get it through every guard it falls under.
GateOpens == \A c \in Commands : gate[c].at = "look" ~> gate[c].at = "ran"
=============================================================================
