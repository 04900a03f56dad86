\* More sources than the largest number of sources.
SPECIFICATION Spec
CONSTANTS
  yes = yes
  no = no
  one = one
  cent = cent
  None = None
  Invalid = Invalid
  StringType = StringType
  Lengths <- MCLengths
  Periods <- MCPeriods
  Windows <- MCWindows
  Texts <- MCTexts
  Multipliers <- MCMultipliers
  MaxOutcomes = 8
  MaxSources = 8
  MaxTags = 8
  MinOutcomes = 2
  MinPeriodMultiplier = 3
  MaxTimestamp = 15
INVARIANT
  SourcesLimited
CHECK_DEADLOCK FALSE
