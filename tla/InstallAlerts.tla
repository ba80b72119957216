---------------------------- MODULE InstallAlerts ----------------------------
(***************************************************************************)
(* Telling the super admin that a self-check of some machine fails         *)
(* (src/jobs/install-check-alerts.js).  Every stored report                *)
(* (src/routes/debug.js), and every start of the server, evaluates the     *)
(* newest report of every machine; there is no other schedule.             *)
(* Evaluations overlap, read reports and state on two connections at once, *)
(* and write from what they read.                                          *)
(*                                                                         *)
(* A check stands for a check of one machine.  There is a super admin.     *)
(***************************************************************************)
EXTENDS Naturals

CONSTANTS
  Checks,
  Evaluators,      \* requests (and the boot) that can be evaluating at once
  MaxAlertFaults   \* bound: evaluations that fail or are killed

ASSUME InstallAlertConstants == MaxAlertFaults \in Nat

VARIABLES
  newest,      \* what the newest report with checks says of each: pass, fail, or nothing
  alertRow,    \* install_check_alert_state: none, open (announced) or resolved
  noticed,     \* the checks whose open row has its notice
  evaluation,  \* each evaluation: what it has read, and what it has left to do
  alertFaults

installVars == <<newest, alertRow, noticed, evaluation, alertFaults>>

Verdict == {"pass", "fail", "nothing"}
RowState == {"none", "open", "resolved"}
Unread == [c \in Checks |-> "unread"]
NoEvaluation == [at |-> "idle", reports |-> Unread, known |-> Unread, fixed |-> {}, news |-> {}]
Reading == [NoEvaluation EXCEPT !.at = "read"]

InstallAlertsInit ==
  /\ newest = [c \in Checks |-> "nothing"] /\ alertRow = [c \in Checks |-> "none"] /\ noticed = {}
  /\ evaluation = [e \in Evaluators |-> NoEvaluation] /\ alertFaults = 0

Becomes(e, v) == evaluation' = [evaluation EXCEPT ![e] = v]

\* POST /install-check: the row is committed, then everything is evaluated.  A
\* report need not mention a check, and what an installer says of the memory
\* load counts for nothing.
StoreReport(e, c) == \E v \in Verdict :
  /\ evaluation[e].at = "idle"
  /\ newest' = [newest EXCEPT ![c] = v]
  /\ Becomes(e, Reading)
  /\ UNCHANGED <<alertRow, noticed, alertFaults>>

\* A report that says the same as the one before, of this machine or of
\* another, and the sweep at startup.
ReportAgain(e) ==
  /\ evaluation[e].at = "idle" /\ Becomes(e, Reading)
  /\ UNCHANGED <<newest, alertRow, noticed, alertFaults>>

\* Promise.all over LATEST_REPORTS_SQL and KNOWN_STATE_SQL.
ReadReports(e) ==
  /\ evaluation[e].at = "read" /\ evaluation[e].reports = Unread
  /\ Becomes(e, [evaluation[e] EXCEPT !.reports = newest])
  /\ UNCHANGED <<newest, alertRow, noticed, alertFaults>>
ReadKnown(e) ==
  /\ evaluation[e].at = "read" /\ evaluation[e].known = Unread
  /\ Becomes(e, [evaluation[e] EXCEPT !.known = alertRow])
  /\ UNCHANGED <<newest, alertRow, noticed, alertFaults>>

\* evaluateFailures
EvaluateFailures(e) ==
  LET was == evaluation[e].known  says == evaluation[e].reports IN
  /\ evaluation[e].at = "read" /\ was # Unread /\ says # Unread
  /\ Becomes(e, [NoEvaluation EXCEPT !.at = "write",
       !.fixed = {c \in Checks : says[c] = "pass" /\ was[c] = "open"},
       !.news = {c \in Checks : says[c] = "fail" /\ was[c] # "open"}])
  /\ UNCHANGED <<newest, alertRow, noticed, alertFaults>>

\* RESOLVE_SQL asks nothing of the row it writes.
ResolveCheck(e) == \E c \in evaluation[e].fixed :
  /\ evaluation[e].at = "write"
  /\ alertRow' = [alertRow EXCEPT ![c] = "resolved"] /\ noticed' = noticed \ {c}
  /\ Becomes(e, [evaluation[e] EXCEPT !.fixed = @ \ {c}])
  /\ UNCHANGED <<newest, alertFaults>>

\* CLAIM_SQL: asked of the row as it is.
Claims(e) == {c \in evaluation[e].news : alertRow[c] # "open"}
ClaimRows(e) == alertRow' = [c \in Checks |-> IF c \in Claims(e) THEN "open" ELSE alertRow[c]]

\* The claims and their notice: one transaction.
ClaimAndAnnounce(e) ==
  /\ evaluation[e].at = "write" /\ evaluation[e].fixed = {}
  /\ ClaimRows(e) /\ noticed' = noticed \cup Claims(e)
  /\ Becomes(e, NoEvaluation)
  /\ UNCHANGED <<newest, alertFaults>>

\* Mutant: the claims are committed before the notice is written.
FailsAfterClaim(e) ==
  /\ evaluation[e].at # "idle"
  /\ alertFaults < MaxAlertFaults /\ alertFaults' = alertFaults + 1
  /\ IF evaluation[e].at = "write" THEN ClaimRows(e) ELSE UNCHANGED alertRow
  /\ Becomes(e, NoEvaluation)
  /\ UNCHANGED <<newest, noticed>>

\* The report is stored whatever becomes of its evaluation.
EvaluationFails(e) ==
  /\ evaluation[e].at # "idle"
  /\ alertFaults < MaxAlertFaults /\ alertFaults' = alertFaults + 1
  /\ Becomes(e, NoEvaluation)
  /\ UNCHANGED <<newest, alertRow, noticed>>

EvaluationStep(e) == ReadReports(e) \/ ReadKnown(e) \/ EvaluateFailures(e) \/ ResolveCheck(e) \/ ClaimAndAnnounce(e)

InstallAlertsNext == \E e \in Evaluators :
  \/ \E c \in Checks : StoreReport(e, c)
  \/ ReportAgain(e) \/ EvaluationStep(e) \/ EvaluationFails(e)

InstallAlertsSpec == InstallAlertsInit /\ [][InstallAlertsNext]_installVars

\* An evaluation goes on, and machines report every day.
InstallAlertsFairness == \A e \in Evaluators : /\ WF_installVars(EvaluationStep(e))
                                               /\ WF_installVars(ReportAgain(e))

-----------------------------------------------------------------------------
InstallAlertsTypeOK ==
  /\ newest \in [Checks -> Verdict] /\ alertRow \in [Checks -> RowState] /\ noticed \subseteq Checks
  /\ \A e \in Evaluators :
       /\ evaluation[e].at \in {"idle", "read", "write"}
       /\ evaluation[e].reports \in {Unread} \cup [Checks -> Verdict]
       /\ evaluation[e].known \in {Unread} \cup [Checks -> RowState]
       /\ evaluation[e].fixed \cup evaluation[e].news \subseteq Checks
  /\ alertFaults \in 0..MaxAlertFaults

\* The rows and the notices say the same: a check is marked as announced when
\* its notice was written, and only then, although evaluations overlap, write
\* from what they read and fail between two writes.
OpenIsAnnounced == \A c \in Checks : alertRow[c] = "open" <=> c \in noticed

\* A check that goes on failing has an open row with its notice in the end,
\* although an evaluation may fail half way, an older one may mark the check
\* resolved after the newer one announced it, and the report before last may
\* never have been evaluated.
FailuresAnnounced == \A c \in Checks :
  newest[c] = "fail" ~> (alertRow[c] = "open" /\ c \in noticed) \/ newest[c] # "fail"
=============================================================================
