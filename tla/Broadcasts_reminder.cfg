CONSTANTS
  Thresholds = {1, 2}
  AITools = {tool}
  Everywhere = Everywhere
  Calls = {}
  MaxDeploys = 2
  MaxSayings = 0
SPECIFICATION BroadcastsSpec
PROPERTY ReminderStands
