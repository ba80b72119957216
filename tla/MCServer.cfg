CONSTANTS
  f = f
  g = g
  today = today
  long = long
  s1 = s1
  s2 = s2
  m1 = m1
  m2 = m2
  n1 = n1
  n2 = n2
  n3 = n3
  card1 = card1
  owner = owner
  ann = ann
  bob = bob
  check1 = check1
  api = api
  cli = cli
  doubt = doubt
  job = job
  Files <- MCFiles
  MaxEvents = 2
  DayOf <- MCDayOf
  OldDays <- MCOldDays
  Scans <- MCScans
  BatchSize = 1
  ScanCap = 2
  Invalid <- MCInvalid
  MaxUsageFaults = 1
  Machines <- MCMachines
  Sweeps <- MCScans
  MaxTurns = 3
  Casts <- MCCasts
  MaxSweepFaults = 1
  Cards <- MCCards
  Members <- MCMembers
  Reviewers <- MCReviewers
  MaxResults = 3
  MaxClaims = 4
  Nobody = Nobody
  Checks <- MCChecks
  Evaluators <- MCScans
  MaxAlertFaults = 1
  Servers <- MCServers
  Scripts <- MCScripts
  MaxFile = 4
  Bootstrap = 2
  Rerunnable <- MCRerunnable
  MaxBootFaults = 2
  Doubtful <- MCDoubtful
  Projects <- MCDoubtful
  Starts <- MCScans
  JobRuns <- MCJobRuns
  ShowLimit = 1
  AnswerDays = 1
  MaxParked = 2
  MaxConsolidationFaults = 1
SPECIFICATION ServerSpec
INVARIANTS
  ServerHoldsPrefix
  AnnouncedOnce
  ReviewedAsRead
  ArchivedUnanswered
PROPERTIES
  EventsCounted
  BreakAnnounced
  RepairEndsNotice
  CardsComeBack
  FailuresAnnounced
  ServerBoots
  QuestionsSettled
CHECK_DEADLOCK FALSE
