---------------------------- MODULE MCAutoUpdate ----------------------------
(***************************************************************************)
(* The programs that upgrade a git checkout on one machine, and the lock   *)
(* they take to do it.  AutoUpdate takes the lock as UpgradeMutex, which   *)
(* UpdateLock implements, so the two are checked side by side: a behaviour *)
(* is one of the protocol on the lock's files, or one of the upgrade.      *)
(***************************************************************************)
EXTENDS UpdateLock, AutoUpdateProps, TLC

CONSTANTS mcp, scanner, shell, node, archiver

VARIABLE part
dailyVars == <<vars, upgradeVars, part>>

McpAndScanner == {mcp, scanner}
McpOnly       == {mcp}
ShellOnly     == {shell}
NodeOnly      == {node}
ArchiverOnly  == {archiver}          \* archive-update-cli
Contenders    == {shell, archiver, node}
NoProc        == {}

DailyInit ==
  /\ part \in {"lock", "upgrade"}
  /\ Init /\ UpgradeInit
  /\ part # "lock" => lock = Absent

DailyNext ==
  /\ UNCHANGED part
  /\ IF part = "lock" THEN Next ELSE UNCHANGED vars
  /\ IF part = "upgrade" THEN UpgradeNext ELSE UNCHANGED upgradeVars

DailyFairness ==
  /\ \A p \in Procs : WF_vars(part = "lock" /\ (Start(p) \/ Reclaim(p) \/ Acquire(p) \/ Release(p)))
  /\ WF_vars(part = "lock" /\ AgeLock) /\ WF_vars(part = "lock" /\ AgeMarker)
  /\ WF_upgradeVars(part = "upgrade" /\ NewDay)
  /\ \A p \in Programs : WF_upgradeVars(part = "upgrade" /\ Upgrade(p))
  /\ \A p \in Shared : /\ SF_upgradeVars(part = "upgrade" /\ holders = {} /\ StartUpgrade(p))
                       /\ SF_upgradeVars(part = "upgrade" /\ TakeLock(p))

DailySpec == DailyInit /\ [][DailyNext]_dailyVars /\ DailyFairness
=============================================================================
