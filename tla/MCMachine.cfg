CONSTANTS
  c1 = c1
  c2 = c2
  s1 = s1
  s2 = s2
  accA = accA
  accB = accB
  push = push
  merge = merge
  e1 = e1
  e2 = e2
  Clients <- MCClients
  Accounts <- MCAccounts
  KeyOf <- MCKeyOf
  MaxWrites = 3
  MaxQueueFaults = 2
  Chats <- MCSessions
  MaxNotices = 3
  MaxNoticeKills = 1
  Talks <- MCSessions
  Threshold = 2
  DowngradeLimit = 1
  MaxCounterKills = 1
  Guards <- MCGuards
  Demands <- MCDemands
  Commands <- MCCommands
  Matches <- MCMatches
  Breaks <- MCBreaks
  BlocksToAsk = 2
  MaxMisses = 1
  MaxGateFaults = 1
  Openings <- MCSessions
  MaxTexts = 2
  MaxMirrorFaults = 2
  Turns = {1, 2}
  Windows <- MCSessions
  MaxJudgeFaults = 1
  Reports <- MCReportSet
  Flushes <- MCSessions
  BatchCap = 1
  MaxSpoolFaults = 2
SPECIFICATION MachineSpec
INVARIANTS
  QueuedKept
  BlocksGiveWay
  OneOpeningPerApproval
  OwnTextKept
  OnTimeNotWrittenOff
PROPERTIES
  QueueDrains
  NoticesShown
  GateOpens
  EveryTurnTold
  ReportsArrive
CHECK_DEADLOCK FALSE
