----------------------------- MODULE Migrations -----------------------------
(***************************************************************************)
(* Bringing the database to the schema of a release: the server applies    *)
(* the files of db/ it has no record of before it listens                  *)
(* (src/utils/run-migrations.js), and a person can run the same by hand    *)
(* (scripts/run-migrations.sh).  Applying a file and recording it are two  *)
(* statements.  The server sends a file as one transaction; psql commits   *)
(* it statement by statement.                                              *)
(***************************************************************************)
EXTENDS Naturals, FiniteSets, FiniteSetsExt

CONSTANTS
  Servers,       \* containers that boot, and are restarted when that fails
  Scripts,       \* runs of run-migrations.sh
  MaxFile,       \* bound: the files releases come with, in order
  Bootstrap,     \* the one that makes the table of the record, and records itself (015)
  Rerunnable,    \* those that find everything done and change nothing (IF NOT EXISTS)
  MaxBootFaults  \* bound: kills, lost connections

Runners == Servers \cup Scripts
AllFiles == 1..MaxFile

ASSUME MigrationConstants ==
  /\ Servers \cap Scripts = {} /\ MaxFile \in Nat /\ MaxBootFaults \in Nat
  /\ Rerunnable \subseteq AllFiles /\ Bootstrap \in Rerunnable

VARIABLES
  released,  \* the newest file there is
  schema,    \* what the database has of each file: nothing, part of it, all
  recorded,  \* schema_migrations
  runner,    \* each runner: off, sure of the table, running a list of files, or listening; and
             \* the newest file of its release
  stranded,  \* history: files that stopped between their first statement and their record
  bootFaults

migrationVars == <<released, schema, recorded, runner, stranded, bootFaults>>

Off == [at |-> "off", todo |-> {}, of |-> 0]
BootFault == bootFaults < MaxBootFaults /\ bootFaults' = bootFaults + 1
Runs(r, v) == runner' = [runner EXCEPT ![r] = v]

MigrationsInit ==
  /\ released \in Bootstrap..MaxFile
  /\ schema = [f \in AllFiles |-> "none"] /\ recorded = {}
  /\ runner = [r \in Runners |-> Off] /\ stranded = {} /\ bootFaults = 0

Release1 ==
  /\ released < MaxFile /\ released' = released + 1
  /\ UNCHANGED <<schema, recorded, runner, stranded, bootFaults>>

\* The table is made sure of, on a fresh database before any other file.
StartRun(r) ==
  /\ runner[r].at = "off"
  /\ schema' = [schema EXCEPT ![Bootstrap] = "all"] /\ recorded' = recorded \cup {Bootstrap}
  /\ Runs(r, [Off EXCEPT !.at = "list"])
  /\ UNCHANGED <<released, stranded, bootFaults>>

\* psql stops between the table and its first row.
ScriptStopsInBootstrap(r) ==
  /\ r \in Scripts /\ runner[r].at = "off" /\ BootFault
  /\ schema' = [schema EXCEPT ![Bootstrap] = IF @ = "none" THEN "part" ELSE @]
  /\ Runs(r, Off)
  /\ UNCHANGED <<released, recorded, stranded>>

Listed(r, n, todo) == Runs(r, [at |-> "run", todo |-> todo, of |-> n])

\* Mutant: what is recorded is not asked.
ListAll(r) == \E n \in Bootstrap..released :
  /\ runner[r].at = "list" /\ Listed(r, n, 1..n)
  /\ UNCHANGED <<released, schema, recorded, stranded, bootFaults>>

\* The files of the runner's release, this one or one before, but for those recorded.
ListDue(r) == \E n \in Bootstrap..released :
  /\ runner[r].at = "list" /\ Listed(r, n, (1..n) \ recorded)
  /\ UNCHANGED <<released, schema, recorded, stranded, bootFaults>>

\* The script takes a list it cannot read for an empty one.
ListUnread(r) == \E n \in Bootstrap..released :
  /\ r \in Scripts /\ runner[r].at = "list" /\ BootFault
  /\ Listed(r, n, 1..n)
  /\ UNCHANGED <<released, schema, recorded, stranded>>

File1(r) == Min(runner[r].todo)
Due(r) == runner[r].at = "run" /\ runner[r].todo # {}
Applies(f) == schema[f] = "none" \/ f \in Rerunnable

ApplyFile(r) ==
  /\ Due(r) /\ Applies(File1(r))
  /\ schema' = [schema EXCEPT ![File1(r)] = "all"]
  /\ Runs(r, [runner[r] EXCEPT !.at = "record"])
  /\ UNCHANGED <<released, recorded, stranded, bootFaults>>

\* Nothing after the file that fails is tried: the server exits, and the
\* container is started again.
FileFails(r) ==
  /\ Due(r) /\ ~Applies(File1(r)) /\ Runs(r, Off)
  /\ UNCHANGED <<released, schema, recorded, stranded, bootFaults>>

RecordFile(r) ==
  /\ runner[r].at = "record"
  /\ recorded' = recorded \cup {File1(r)}
  /\ Runs(r, [runner[r] EXCEPT !.at = "run", !.todo = @ \ {File1(r)}])
  /\ UNCHANGED <<released, schema, stranded, bootFaults>>

RunKilled(r) ==
  /\ runner[r].at # "off" /\ BootFault /\ Runs(r, Off)
  /\ stranded' = IF runner[r].at = "record" THEN stranded \cup {File1(r)} ELSE stranded
  /\ UNCHANGED <<released, schema, recorded>>

\* psql is killed, or loses the database, in the middle of a file.
ScriptStopsInFile(r) ==
  /\ r \in Scripts /\ Due(r) /\ Applies(File1(r)) /\ BootFault
  /\ schema' = [schema EXCEPT ![File1(r)] = IF @ = "none" THEN "part" ELSE @]
  /\ stranded' = stranded \cup {File1(r)}
  /\ Runs(r, Off)
  /\ UNCHANGED <<released, recorded>>

\* app.listen; the script says that it is done.
EndRun(r) ==
  /\ runner[r].at = "run" /\ runner[r].todo = {}
  /\ Runs(r, IF r \in Servers THEN [runner[r] EXCEPT !.at = "listens"] ELSE Off)
  /\ UNCHANGED <<released, schema, recorded, stranded, bootFaults>>

\* A deploy.
Restart(r) ==
  /\ runner[r].at = "listens" /\ Runs(r, Off)
  /\ UNCHANGED <<released, schema, recorded, stranded, bootFaults>>

RunStep(r) == ListDue(r) \/ ApplyFile(r) \/ FileFails(r) \/ RecordFile(r) \/ EndRun(r)

MigrationsNext ==
  \/ Release1
  \/ \E r \in Runners :
       \/ StartRun(r) \/ RunStep(r) \/ Restart(r)
       \/ ListUnread(r) \/ RunKilled(r) \/ ScriptStopsInBootstrap(r) \/ ScriptStopsInFile(r)

MigrationsSpec == MigrationsInit /\ [][MigrationsNext]_migrationVars

\* restart: unless-stopped, and runs that go on.  Nobody has to run the script.
MigrationsFairness == /\ \A s \in Servers : WF_migrationVars(StartRun(s))
                      /\ \A r \in Runners : WF_migrationVars(RunStep(r))

-----------------------------------------------------------------------------
MigrationsTypeOK ==
  /\ released \in AllFiles /\ schema \in [AllFiles -> {"none", "part", "all"}] /\ recorded \subseteq AllFiles
  /\ runner \in [Runners -> [at : {"off", "list", "run", "record", "listens"}, todo : SUBSET AllFiles, of : 0..MaxFile]]
  /\ stranded \subseteq AllFiles /\ bootFaults \in 0..MaxBootFaults

\* What is recorded has been applied whole, and nothing of a file is in the
\* database before all files before it are recorded, however many servers and
\* scripts run the same files at once and are killed between two statements.
\* Only the file that makes the table of the record comes before those before it.
MigratedInOrder ==
  /\ \A f \in recorded : schema[f] = "all"
  /\ \A f \in AllFiles \ {Bootstrap} : schema[f] # "none" => 1..(f - 1) \subseteq recorded

\* A server never listens on a schema older than its release.
ListensOnWhole == \A s \in Servers :
  runner[s].at = "listens" => \A f \in 1..runner[s].of : schema[f] = "all"

\* A file that cannot be run again and stopped before its record stops every boot.
Stuck == stranded \ (Rerunnable \cup recorded) # {}

\* A server that boots listens in the end, with every file of its release
\* applied whole, although another runner is at the same files and runs are
\* killed, unless a file that cannot be run twice was left without its record.
ServerBoots == \A s \in Servers :
  runner[s].at = "off" ~>
    (runner[s].at = "listens" /\ \A f \in 1..runner[s].of : schema[f] = "all") \/ Stuck
=============================================================================
