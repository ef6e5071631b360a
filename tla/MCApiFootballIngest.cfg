SPECIFICATION IngestSpec
CONSTANTS
  DailyQuota = 4
  SafetyBuffer = 1
  MaxAttempts = 2
  None = None
  Unknown = Unknown
  HeaderMayMiss = FALSE
  MaxAstray = 1
  LastDay = 1
  MaxClients = 2
  Cleaned <- MCCleaned
  Lowered <- MCLowered
  Listings <- MCListings
  Payloads <- MCPayloads
  Years <- MCYears
  StartDBs <- MCStartDBs
INVARIANT IngestTypeOK
PROPERTIES CommitsWhatItFetched NoTwinIsAdded RefusedOnlyForNamesakes RefusedOnlyWhenShort
