SPECIFICATION Spec
CONSTANTS
  DailyQuota = 5
  SafetyBuffer = 3
  MaxAttempts = 3
  Unknown = Unknown
  HeaderMayMiss = TRUE
  MaxAstray = 2
  LastDay = 2
  MaxClients = 2
INVARIANTS TypeOK OvershootBounded RetriesOnlyTransient
PROPERTIES RefusalIsJustified RequestEnds
