------------------------------ MODULE MCServer ------------------------------
(***************************************************************************)
(* What the server keeps of a team: the usage its machines report, the     *)
(* notices about collectors that stopped and self-checks that fail, the    *)
(* cards of the task board, the questions about memories that may be       *)
(* archived, and the schema all of it is in.  They share no table; a       *)
(* behaviour runs one of them, as in MCMachine.  The questions run twice:  *)
(* two sessions at once, which may park the same first question, with      *)
(* nothing failing and their memory neither disabled nor restored, and one *)
(* with a fault.  Once an account is exempted one scan runs, and a memory  *)
(* with two questions is not disabled.                                     *)
(***************************************************************************)
EXTENDS UsagePipeline, CollectorAlerts, TaskBoard, InstallAlerts, Migrations,
        Consolidation, TLC

CONSTANTS f, g, today, long, s1, s2, m1, m2, n1, n2, n3, card1, owner, ann, bob, check1, api, cli, doubt, job

VARIABLE part
teamVars == <<usageVars, alertVars, boardVars, installVars, migrationVars, consolidationVars, part>>

MCFiles == {f, g}
MCDayOf == (f :> today) @@ (g :> long)
MCOldDays == {long}
MCInvalid == {<<g, 2>>}
MCScans == {s1, s2}
MCMachines == {m1, m2}
MCCasts == {n1, n2, n3}
MCCards == {card1}
MCMembers == {owner, ann, bob}
MCReviewers == {owner, ann}
MCChecks == {check1}
MCServers == {api}
MCScripts == {cli}
MCRerunnable == {2, 4}
MCDoubtful == {doubt}
MCJobRuns == {job}

Alerting == part \in {"alerts", "a shared notice"}
\* No sweep fails, no notice runs out and no machine goes dark.
SharedNotice == /\ \/ \E m \in Machines : HealthTurns(m) \/ Confirm(m)
                   \/ \E s \in Sweeps : SweepStep(s)
                /\ \A m \in Machines : health'[m] # "dark"

Asking == part \in {"two sessions", "a fault"}
\* What becomes of the memory where two sessions run: the job or the user archives it.
Sinking(was, is) == is = was \/ is = "archived"
Opened == IF part = "two sessions" THEN Starts ELSE {s1}

\* Where the other parts run: the server listens on the newest schema.
Deployed ==
  /\ released = MaxFile /\ schema = [x \in AllFiles |-> "all"] /\ recorded = AllFiles
  /\ runner = [r \in Runners |-> IF r \in Servers THEN [Off EXCEPT !.at = "listens", !.of = MaxFile] ELSE Off]
  /\ stranded = {} /\ bootFaults = 0

ServerInit ==
  /\ part \in {"usage", "alerts", "a shared notice", "board", "install", "migrations", "two sessions", "a fault"}
  /\ UsageInit /\ AlertsInit /\ BoardInit /\ InstallAlertsInit /\ ConsolidationInit
  /\ IF part = "migrations" THEN MigrationsInit ELSE Deployed
  /\ part # "usage" => \A x \in Files : lines[x] = 0
  /\ part = "a shared notice" <=> tellings # [m \in Machines |-> 0]

ServerNext ==
  /\ UNCHANGED part
  /\ IF part = "usage" THEN UsageNext ELSE UNCHANGED usageVars
  /\ CASE part = "alerts" -> AlertsNext
       [] part = "a shared notice" -> SharedNotice
       [] OTHER -> UNCHANGED alertVars
  /\ IF part = "board" THEN BoardNext ELSE UNCHANGED boardVars
  /\ IF part = "install" THEN InstallAlertsNext ELSE UNCHANGED installVars
  /\ IF part = "migrations" THEN MigrationsNext ELSE UNCHANGED migrationVars
  /\ IF Asking THEN ConsolidationNext ELSE UNCHANGED consolidationVars
  /\ exempt' => scan'[s2].at = "idle"
  /\ part = "alerts" => turns' <= 2
  /\ \A s \in Starts \ Opened : start'[s] = Idling
  /\ part = "two sessions" =>
       /\ UNCHANGED consolidationFaults /\ Sinking(standing[doubt], standing'[doubt])
       /\ start'[s2].parks # NoMemory => asked = <<>>
  /\ part = "a fault" => Len(asked') < 2 \/ standing'[doubt] # "disabled"

\* Less than UsageFairness: the file a scan may never get past is the only one
\* with lines.
ServerFairness ==
  /\ WF_usageVars(part = "usage" /\ \E x \in Files : Read(x))
  /\ \A s \in Scans : WF_usageVars(part = "usage" /\ ScanStep(s))
  /\ \A d \in Days \ OldDays : /\ SF_usageVars(part = "usage" /\ NightlyRead(d))
                               /\ WF_usageVars(part = "usage" /\ NightlyUpsert(d))
  /\ \A s \in Sweeps : WF_alertVars(Alerting /\ SweepStep(s))
  /\ \A m \in Machines : SF_alertVars(Alerting /\ Confirm(m))
  /\ WF_boardVars(part = "board" /\ ExpireStaleClaims)
  /\ \A t \in Cards : WF_boardVars(part = "board" /\ ClaimGrowsOld(t))
  /\ \A e \in Evaluators : /\ WF_installVars(part = "install" /\ EvaluationStep(e))
                          /\ WF_installVars(part = "install" /\ ReportAgain(e))
  /\ \A s \in Servers : WF_migrationVars(part = "migrations" /\ StartRun(s))
  /\ \A r \in Runners : WF_migrationVars(part = "migrations" /\ RunStep(r))
  /\ WF_consolidationVars(Asking /\ NextDay)
  /\ \A s \in Starts : WF_consolidationVars(s \in Opened /\ Asking /\ SessionStep(s))
  /\ \A j \in JobRuns : WF_consolidationVars(Asking /\ ExpiryStep(j))

ServerSpec == ServerInit /\ [][ServerNext]_teamVars /\ ServerFairness
=============================================================================
