----------------------------- MODULE MCMachine -----------------------------
(***************************************************************************)
(* The hooks and the MCP processes of one machine: what they keep in files *)
(* they all share.  The parts share no file with each other, so a          *)
(* behaviour picks one of them and the rest of the machine stands still:   *)
(* the states are the sum of the parts', not their product.  Two of them   *)
(* run twice: two sessions side by side with nothing failing, and one      *)
(* alone with a fault.                                                     *)
(***************************************************************************)
EXTENDS OfflineQueue, UpdateNotices, SessionCounter, ActionGate, MemoryFiles,
        Verdicts, ReportSpool, TLC

CONSTANTS c1, c2, s1, s2, accA, accB, push, merge, e1, e2

VARIABLE part
machineVars == <<queueVars, noticeVars, counterVars, gateVars, mirrorVars, verdictVars, spoolVars, part>>

MCClients == {c1, c2}
MCAccounts == {accA, accB}
MCKeyOf == [c \in MCClients |-> accA]
MCSessions == {s1, s2}
MCReportSet == {e1, e2}
MCGuards == {1, 2}
MCDemands == <<[read |-> TRUE, ask |-> TRUE], [read |-> FALSE, ask |-> TRUE]>>
MCCommands == {push, merge}
MCMatches == (push :> {1, 2}) @@ (merge :> {2})
MCBreaks == (push :> {1}) @@ (merge :> {})

Counting == part \in {"counter", "counter, killed"}
Noticing == part \in {"notices", "notices, half a line"}
Judging  == part \in {"verdicts", "verdicts, a fault"}

\* The parts that stand still have one initial state.
MachineInit ==
  /\ part \in {"queue", "notices", "notices, half a line", "counter", "counter, killed", "gate", "mirror",
              "verdicts", "verdicts, a fault", "spool"}
  /\ QueueInit /\ NoticesInit /\ CounterInit /\ GateInit /\ MemoryFilesInit
  /\ VerdictsInit /\ SpoolInit
  /\ made[1].refused => made[1].account = accB
  /\ part # "queue" => up /\ made[1].account = accB /\ ~made[1].refused
  /\ part # "gate" => \A g \in Guards : askMode[g] = "code"

\* Once the counts of both sessions are clobbered BlocksGiveWay asks nothing
\* more of them, and the counter stops.
MachineNext ==
  /\ UNCHANGED part
  /\ IF part = "queue" THEN QueueNext ELSE UNCHANGED queueVars
  /\ IF Noticing THEN NoticesNext ELSE UNCHANGED noticeVars
  /\ IF Counting THEN CounterNext ELSE UNCHANGED counterVars
  /\ IF part = "gate" THEN GateNext ELSE UNCHANGED gateVars
  /\ IF part = "mirror" THEN MemoryFilesNext ELSE UNCHANGED mirrorVars
  /\ IF Judging THEN VerdictsNext ELSE UNCHANGED verdictVars
  /\ IF part = "spool" THEN SpoolNext ELSE UNCHANGED spoolVars
  /\ part = "notices" => appending' = 0
  /\ part = "notices, half a line" => queuedUpTo' <= 2
  /\ part = "counter" => UNCHANGED counterKills
  /\ Counting => clobbered # Talks
  /\ part = "counter, killed" => lint'[s2].at = "idle" /\ ~answering'[s2]
  /\ part = "verdicts" => UNCHANGED judgeFaults
  /\ part = "verdicts, a fault" => ~collector'[s2].on

\* Each part's fairness, of the part that runs.
MachineFairness ==
  /\ WF_queueVars(part = "queue" /\ ComesUp)
  /\ \A c \in Clients : WF_queueVars(part = "queue" /\ Replay(c))
  /\ WF_noticeVars(Noticing /\ FinishAppend)
  /\ \A s \in Chats : WF_noticeVars(Noticing /\ HookStep(s))
  /\ \A c \in Commands : WF_gateVars(part = "gate" /\ Evaluate(c))
  /\ \A g \in Guards : SF_gateVars(part = "gate" /\ Answer(g))
  /\ \A t \in Turns : /\ WF_verdictVars(Judging /\ StopHookRuns(t))
                      /\ WF_verdictVars(Judging /\ DeadlinePasses(t))
  /\ \A w \in Windows : WF_verdictVars(Judging /\ (part = "verdicts" \/ w = s1) /\ Collect(w))
  /\ \A f \in Flushes : WF_spoolVars(part = "spool" /\ FlushStep(f))

MachineSpec == MachineInit /\ [][MachineNext]_machineVars /\ MachineFairness

=============================================================================
