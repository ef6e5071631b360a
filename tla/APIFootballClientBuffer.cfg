SPECIFICATION Spec
CONSTANTS
  DailyQuota = 5
  SafetyBuffer = 2
  MaxAttempts = 3
  Unknown = Unknown
  HeaderMayMiss = FALSE
  MaxAstray = 2
  LastDay = 0
  MaxClients = 1
INVARIANT CallsStopBelowBuffer
