SPECIFICATION Spec
CONSTANTS
  None = None
  Bad = Bad
  MaxRuns = 3
  Files <- MCFiles
  StartDBs <- MCStartDBs
  Cleaned <- MCCleaned
  Garbled <- MCGarbled
  YearOf <- MCYearOf
INVARIANTS TypeOK FlushesSucceed ParticipantsPlayed
PROPERTIES RerunChangesNothing ImplementsArchive
