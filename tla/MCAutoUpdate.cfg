CONSTANTS
  mcp = mcp
  scanner = scanner
  shell = shell
  node = node
  archiver = archiver
  Procs <- Contenders
  Shell <- ShellOnly
  Tokened <- ArchiverOnly
  Leavers <- NodeOnly
  None = None
  Ghost = Ghost
  MaxFaults = 1
  Shared <- McpAndScanner
  ShellHooks <- ShellOnly
  NodeHooks <- NodeOnly
  MaxRelease = 2
  MaxUpgradeFaults = 1
SPECIFICATION DailySpec
INVARIANTS StepsRemembered
PROPERTIES ImplementsMutex DeadLockReclaimed Converges
