CONSTANTS
  mcp = mcp
  scanner = scanner
  shell = shell
  node = node
  archiver = archiver
  Procs <- Contenders
  Shell <- ShellOnly
  Tokened <- ArchiverOnly
  Leavers <- NodeOnly
  None = None
  Ghost = Ghost
  MaxFaults = 0
  Shared <- McpOnly
  ShellHooks <- ShellOnly
  NodeHooks <- NoProc
  MaxRelease = 1
  MaxUpgradeFaults = 1
SPECIFICATION DailySpec
PROPERTY StampMeansHealthy
