SPECIFICATION Spec
CONSTANTS
  DailyQuota = 5
  SafetyBuffer = 2
  MaxAttempts = 3
  Unknown = Unknown
  HeaderMayMiss = FALSE
  MaxAstray = 2
  LastDay = 1
  MaxClients = 1
PROPERTY RefusesOnlyWhenLow
