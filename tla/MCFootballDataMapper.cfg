SPECIFICATION Spec
CONSTANTS
  None = None
  MaxRuns = 3
  Feeds <- MCFeedsReissued
  StartDBs <- MCStartDBs
  Cleaned <- MCCleaned
  Lowered <- MCLowered
INVARIANTS TypeOK DictionariesMirrorRows FinishedSeasonIsOver
PROPERTIES ReimportIsSafe NothingIsLost ImplementsStore
