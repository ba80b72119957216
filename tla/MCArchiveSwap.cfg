SPECIFICATION UpdateSpec
CONSTANTS
  claude = claude
  codex = codex
  r1 = r1
  r2 = r2
  c1 = c1
  c2 = c2
  N <- FourEntries
  NFirst <- TwoFirst
  MaxRelease = 2
  Ships <- EntriesOf
  None = None
  MaxFaults = 6
  Tools <- MCTools
  Claude = claude
  Changes <- MCChanges
  MaxKey = 2
  MaxConfigFaults = 2
  Thresholds = {1, 2}
  AITools <- MCAITools
  Everywhere = Everywhere
  Calls <- MCCalls
  MaxDeploys = 1
  MaxSayings = 2
INVARIANTS ReleaseIsWhole ImportsFirst ReconfigureRemembered NothingLost KeyKept
PROPERTIES ImplementsInstall Converges AddressFollowed TurnedOffStaysOff
