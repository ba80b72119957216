---------------------------- MODULE ClientConfig ----------------------------
(***************************************************************************)
(* The address of the server and the key of the account, of which every AI *)
(* tool of a machine keeps a copy in a file of its own.  swap-api-key.cjs  *)
(* replaces the key, on the server (api-key-rotate.js) and in the files;   *)
(* migrate-api-url.cjs, run by the unattended update, follows a server     *)
(* that moved, as this one has.  Both load a whole file and write it back, *)
(* without a lock.                                                         *)
(*                                                                         *)
(* Files are there and can be parsed; both write through a temporary file, *)
(* so that a write happens or fails.                                       *)
(***************************************************************************)
EXTENDS Naturals, Sequences

CONSTANTS
  Tools,    \* the files, in the order of sourcesFor
  Claude,   \* the one resolveCredentials finds a key in
  Changes,  \* runs of swap-api-key.cjs that can overlap
  MaxKey,   \* bound: keys of the account
  MaxConfigFaults  \* bound: failed writes, lost answers, kills

NoKey == 0      \* also: of another account on the same server
Copies == {Tools[i] : i \in DOMAIN Tools}

ASSUME ConfigConstants == Tools \in Seq(Copies) /\ Claude \in Copies /\ MaxKey \in Nat /\ MaxConfigFaults \in Nat

VARIABLES
  config,     \* each file: whether it names the old address, and its key
  serverKey,  \* users.api_key
  recovery,   \* new-api-key.txt
  change,     \* each run of swap-api-key.cjs
  mover,      \* the run of migrate-api-url.cjs
  told,       \* keys a person was shown, or was told to fetch from the console
  slipped,    \* history: keys gone in a way the code does not provide for
  configFaults

configVars == <<config, serverKey, recovery, change, mover, told, slipped, configFaults>>

Keys == 0..MaxKey
Text == [old : BOOLEAN, key : Keys]
NoText == [old |-> FALSE, key |-> NoKey]
NoChange == [at |-> "idle", old |-> NoKey, new |-> NoKey, next |-> 1, text |-> NoText,
             wrote |-> FALSE, hurt |-> FALSE, kept |-> "no"]
NoMove == [at |-> "idle", next |-> 1, text |-> NoText]

ConfigFault == configFaults < MaxConfigFaults /\ configFaults' = configFaults + 1
Stays == UNCHANGED configFaults

ConfigInit ==
  /\ config \in {c \in [Copies -> [old : BOOLEAN, key : {NoKey, 1}]] : c[Claude].key = 1}
  /\ serverKey = 1 /\ recovery = NoKey
  /\ change = [r \in Changes |-> NoChange] /\ mover = NoMove
  /\ told = {} /\ slipped = {} /\ configFaults = 0

Goes(r, c) == change' = [change EXCEPT ![r] = c]
\* There is one recovery file: what another run has put there since this one
\* asked whose key it has.
Another(r) == {recovery} \ {change[r].old, change[r].new, NoKey}
RemoveRecovery(r) == recovery' = NoKey /\ slipped' = slipped \cup Another(r)

-----------------------------------------------------------------------------
(* the server                                                              *)

\* POST /me/rotate-key: one UPDATE, whatever becomes of the audit entry.
IssueKey == serverKey < MaxKey /\ serverKey' = serverKey + 1

\* From the console, which shows the key.
ConsoleRotates ==
  /\ IssueKey /\ told' = told \cup {serverKey'}
  /\ UNCHANGED <<config, recovery, change, mover, slipped, configFaults>>

-----------------------------------------------------------------------------
(* changeKey                                                               *)

\* --rotate: whoIs accepts the key of this machine.
StartRotate(r) ==
  /\ change[r].at = "idle" /\ config[Claude].key = serverKey
  /\ Goes(r, [NoChange EXCEPT !.at = "prepare", !.old = serverKey, !.kept = "file"])
  /\ UNCHANGED <<config, serverKey, recovery, mover, told, slipped, configFaults>>

\* --set with the key from the console; with the machine's own it does nothing.
StartSet(r) ==
  /\ change[r].at = "idle" /\ config[Claude].key # serverKey
  /\ Goes(r, [NoChange EXCEPT !.at = "swap", !.old = config[Claude].key, !.new = serverKey])
  /\ UNCHANGED <<config, serverKey, recovery, mover, told, slipped, configFaults>>

\* An empty file, so that there is somewhere to keep the new key.
PrepareRecovery(r) ==
  /\ change[r].at = "prepare"
  /\ RemoveRecovery(r)
  /\ Goes(r, [change[r] EXCEPT !.at = "issue"])
  /\ UNCHANGED <<config, serverKey, mover, told, configFaults>>

RotateOnServer(r) ==
  /\ change[r].at = "issue" /\ serverKey = change[r].old /\ IssueKey
  /\ Goes(r, [change[r] EXCEPT !.at = "keep", !.new = serverKey'])
  /\ UNCHANGED <<config, recovery, mover, told, slipped, configFaults>>

\* No answer, with or without a new key, or one that refuses the old key (or,
\* at the bound, a new one).
RotateUnanswered(r) ==
  /\ change[r].at = "issue"
  /\ \/ serverKey \in {k \in Keys : k # change[r].old \/ k = MaxKey} /\ Stays /\ UNCHANGED serverKey
     \/ serverKey = change[r].old /\ ConfigFault /\ (IssueKey \/ UNCHANGED serverKey)
  /\ RemoveRecovery(r)
  /\ Goes(r, [change[r] EXCEPT !.at = "ask"])
  /\ UNCHANGED <<config, mover, told>>

\* whoIs(oldKey): a 401 sends the person to the console.  When it goes
\* unanswered too, they are told that nothing changed.
AskWithOldKey(r) ==
  /\ change[r].at = "ask" /\ Goes(r, NoChange)
  /\ \/ Stays /\ UNCHANGED slipped /\ told' = told \cup ({serverKey} \ {change[r].old})
     \/ ConfigFault /\ UNCHANGED told /\ slipped' = slipped \cup ({serverKey} \ {change[r].old})
  /\ UNCHANGED <<config, serverKey, recovery, mover>>

\* In the recovery file.  When that cannot be written (it may have been emptied
\* by then) the key is put down among the steps, which are printed when the run
\* is over.
KeepKey(r) ==
  /\ change[r].at = "keep"
  /\ \/ /\ Stays /\ recovery' = change[r].new /\ slipped' = slipped \cup Another(r)
        /\ Goes(r, [change[r] EXCEPT !.at = "swap"])
     \/ /\ ConfigFault /\ (UNCHANGED <<recovery, slipped>> \/ RemoveRecovery(r))
        /\ Goes(r, [change[r] EXCEPT !.at = "swap", !.kept = "steps"])
  /\ UNCHANGED <<config, serverKey, mover, told>>

-----------------------------------------------------------------------------
(* swapKey                                                                 *)

File(r) == Tools[change[r].next]
\* The files from the next one on that hold the old key.
StillOld(r) == {i \in change[r].next..Len(Tools) : config[Tools[i]].key = change[r].old}
PastFile(r) == [change[r] EXCEPT !.at = "swap", !.next = @ + 1, !.text = NoText]

LoadFile(r) == \E i \in StillOld(r) :
  /\ change[r].at = "swap" /\ \A j \in StillOld(r) : i <= j
  /\ Goes(r, [change[r] EXCEPT !.at = "write", !.next = i, !.text = config[Tools[i]]])
  /\ UNCHANGED <<config, serverKey, recovery, mover, told, slipped, configFaults>>

\* The key a stale text overwrites: the text was loaded with another one.
Overwritten(f, text) == {config[f].key} \ {text.key, NoKey}

\* writeAtomic, and the file read back.
WriteFile(r) ==
  /\ change[r].at = "write"
  /\ config' = [config EXCEPT ![File(r)] = [change[r].text EXCEPT !.key = change[r].new]]
  /\ slipped' = slipped \cup Overwritten(File(r), change[r].text)
  /\ Goes(r, [PastFile(r) EXCEPT !.wrote = TRUE])
  /\ UNCHANGED <<serverKey, recovery, mover, told, configFaults>>
WriteFails(r) ==
  /\ change[r].at = "write" /\ ConfigFault
  /\ Goes(r, [PastFile(r) EXCEPT !.hurt = TRUE])
  /\ UNCHANGED <<config, serverKey, recovery, mover, told, slipped>>

Done(r) == change[r].at = "swap" /\ StillOld(r) = {}
Succeeded(r) == change[r].new = serverKey /\ change[r].wrote /\ ~change[r].hurt

PrintSteps(r) == told' = IF change[r].kept = "steps" THEN told \cup {change[r].new} ELSE told

\* Mutant: the recovery file goes when the new key works, whatever became of
\* the files.
ConfirmByIdentity(r) ==
  /\ Done(r) /\ Goes(r, NoChange) /\ PrintSteps(r)
  /\ IF change[r].kept = "file" /\ change[r].new = serverKey THEN RemoveRecovery(r) ELSE UNCHANGED <<recovery, slipped>>
  /\ UNCHANGED <<config, serverKey, mover, configFaults>>

\* whoIs(newKey) and the verdict on the whole run; unanswered, it failed.
Confirm(r) ==
  /\ Done(r) /\ Goes(r, NoChange) /\ PrintSteps(r)
  /\ \/ /\ Stays
        /\ IF change[r].kept = "file" /\ Succeeded(r) THEN RemoveRecovery(r) ELSE UNCHANGED <<recovery, slipped>>
     \/ ConfigFault /\ UNCHANGED <<recovery, slipped>>
  /\ UNCHANGED <<config, serverKey, mover>>

\* The new key while it is nowhere but in this process, or on its way to it.
OnlyHere(r) ==
  {k \in {change[r].new} : change[r].at = "keep" \/ change[r].kept = "steps"}
    \cup {k \in {serverKey} : change[r].at = "ask"}
ChangeKilled(r) ==
  /\ change[r].at # "idle" /\ ConfigFault /\ Goes(r, NoChange)
  /\ slipped' = slipped \cup (OnlyHere(r) \ {config[f].key : f \in Copies})
  /\ UNCHANGED <<config, serverKey, recovery, mover, told>>

ChangeStep(r) ==
  \/ PrepareRecovery(r) \/ RotateOnServer(r) \/ RotateUnanswered(r) \/ AskWithOldKey(r) \/ KeepKey(r)
  \/ LoadFile(r) \/ WriteFile(r) \/ Confirm(r)

-----------------------------------------------------------------------------
(* followServerMove                                                        *)

Left == {i \in DOMAIN Tools : config[Tools[i]].old}
\* The key beside the old address, in the first file that names it.
AskWith == config[Tools[CHOOSE i \in Left : \A j \in Left : i <= j]].key
Answered == Left # {} => AskWith \in {serverKey, NoKey}

\* Mutant: only the address Claude Code has is asked about.
AskClaudeOnly ==
  /\ mover.at = "idle" /\ config[Claude].old /\ config[Claude].key = serverKey
  /\ mover' = [NoMove EXCEPT !.at = "scan"]
  /\ UNCHANGED <<config, serverKey, recovery, change, told, slipped, configFaults>>

AskForAddress ==
  /\ mover.at = "idle" /\ Left # {} /\ AskWith \in {serverKey, NoKey}
  /\ mover' = [NoMove EXCEPT !.at = "scan"]
  /\ UNCHANGED <<config, serverKey, recovery, change, told, slipped, configFaults>>

\* rewriteTo: the files from the next one on that name the old address.
ScanFile == \E i \in Left :
  /\ mover.at = "scan" /\ i >= mover.next /\ \A j \in Left : i <= j \/ j < mover.next
  /\ mover' = [at |-> "write", next |-> i, text |-> config[Tools[i]]]
  /\ UNCHANGED <<config, serverKey, recovery, change, told, slipped, configFaults>>
PastRewrite == mover' = [NoMove EXCEPT !.at = "scan", !.next = mover.next + 1]
RewriteAddress ==
  /\ mover.at = "write" /\ PastRewrite
  /\ config' = [config EXCEPT ![Tools[mover.next]] = [mover.text EXCEPT !.old = FALSE]]
  /\ slipped' = slipped \cup Overwritten(Tools[mover.next], mover.text)
  /\ UNCHANGED <<serverKey, recovery, change, told, configFaults>>
RewriteFails ==
  /\ mover.at = "write" /\ ConfigFault /\ PastRewrite
  /\ UNCHANGED <<config, serverKey, recovery, change, told, slipped>>
MoveEnds ==
  /\ mover.at = "scan" /\ \A i \in Left : i < mover.next
  /\ mover' = NoMove
  /\ UNCHANGED <<config, serverKey, recovery, change, told, slipped, configFaults>>

MoveStep == AskForAddress \/ ScanFile \/ RewriteAddress \/ MoveEnds

-----------------------------------------------------------------------------
ConfigNext ==
  \/ ConsoleRotates \/ MoveStep \/ RewriteFails
  \/ \E r \in Changes : StartRotate(r) \/ StartSet(r) \/ ChangeStep(r) \/ WriteFails(r) \/ ChangeKilled(r)

ConfigSpec == ConfigInit /\ [][ConfigNext]_configVars

\* A run that was started goes on, and the update that follows the server
\* comes every day.  Nobody has to change a key.
ConfigFairness == /\ WF_configVars(MoveStep)
                  /\ \A r \in Changes : WF_configVars(ChangeStep(r))

-----------------------------------------------------------------------------
ConfigTypeOK ==
  /\ config \in [Copies -> Text] /\ serverKey \in Keys /\ recovery \in Keys
  /\ change \in [Changes -> [at : {"idle", "prepare", "issue", "ask", "keep", "swap", "write"},
                             old : Keys, new : Keys, next : 1..(Len(Tools) + 1), text : Text,
                             wrote : BOOLEAN, hurt : BOOLEAN, kept : {"no", "file", "steps"}]]
  /\ mover \in [at : {"idle", "scan", "write"}, next : 1..(Len(Tools) + 1), text : Text]
  /\ told \subseteq Keys /\ slipped \subseteq Keys /\ configFaults \in 0..MaxConfigFaults

\* The key the server accepts is on this machine or known to a person: in a
\* file, in the recovery file, in a run that is not over or on a screen.  Only
\* a kill while one process holds the only copy (before the recovery file is
\* written, or to the end of the run when it cannot be), two answers lost in a
\* row, or another run that wrote over the same file, takes the last copy.
KeyKept ==
  \/ \E f \in Copies : config[f].key = serverKey
  \/ recovery = serverKey \/ serverKey \in told \cup slipped
  \/ \E r \in Changes : change[r].new = serverKey \/ change[r].at = "ask"

\* Every file names the address the server moved to in the end, if the key
\* beside the old address goes on being accepted: whichever tools moved before,
\* whatever failed, and although a change of keys may write an old address back.
AddressFollowed == <>[]Answered => <>[](\A f \in Copies : ~config[f].old)
=============================================================================
