---------------------------- MODULE MCArchiveSwap ----------------------------
(***************************************************************************)
(* What an unattended update does to a machine: it swaps the tree for a    *)
(* new release, and then follows the server to its address, in the files   *)
(* that a person may be giving a new key; and what the person is told when *)
(* updates do not arrive.  The three share no file and no table; a         *)
(* behaviour runs one of them, so that the states are their sum.           *)
(* Changes of keys overlap with one fault, or run one at a time with two:  *)
(* a recovery file that cannot be written and a kill after that.           *)
(*                                                                         *)
(* Four entries (two imported folders, one other, .release) and two later  *)
(* releases: the first adds an entry, the second drops one.                *)
(***************************************************************************)
EXTENDS ArchiveSwapProps, ClientConfig, Broadcasts

CONSTANTS claude, codex, r1, r2, c1, c2

VARIABLE part
updateVars == <<vars, configVars, broadcastVars, part>>

FourEntries == 4
TwoFirst == 2
EntriesOf == [v \in Releases |-> CASE v = 0 -> {1, 2, 4}
                                   [] v = 1 -> {1, 2, 3, 4}
                                   [] OTHER -> {1, 3, 4}]
MCTools == <<claude, codex>>
MCChanges == {r1, r2}
MCAITools == {codex}
MCCalls == {c1, c2}

Configuring == {"config", "config, two faults"}
OneFault == configFaults' <= 1
OneRun == change'[r2] = NoChange

UpdateInit ==
  /\ part \in {"archive", "reminder"} \cup Configuring
  /\ Init /\ ConfigInit /\ BroadcastsInit
  /\ part \notin Configuring => Left = {} /\ config[codex].key = NoKey
  /\ part # "reminder" => threshold = 1

UpdateNext ==
  /\ UNCHANGED part
  /\ IF part = "archive" THEN Next ELSE UNCHANGED vars
  /\ IF part \in Configuring THEN ConfigNext ELSE UNCHANGED configVars
  /\ (part = "config" => OneFault) /\ (part = "config, two faults" => OneRun)
  /\ IF part = "reminder" THEN BroadcastsNext ELSE UNCHANGED broadcastVars

UpdateFairness ==
  /\ WF_vars(part = "archive" /\ Run)
  /\ WF_configVars(part \in Configuring /\ MoveStep)
  /\ \A r \in Changes : WF_configVars(part \in Configuring /\ ChangeStep(r))

UpdateSpec == UpdateInit /\ [][UpdateNext]_updateVars /\ UpdateFairness
=============================================================================
