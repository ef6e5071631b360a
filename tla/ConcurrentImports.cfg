SPECIFICATION Spec
CONSTANTS
  None = None
  Workers = {w1, w2}
  Jobs <- MCJobs
  StartDBs <- MCStartDBs
  MaxRuns = 3
  IdsPerRun = 100
  Cleaned <- MCCleaned
  Lowered <- MCLowered
SYMMETRY MCSymmetry
INVARIANTS TypeOK ClubsStayOne TwinsOverlapped RefusedOnlyByRival CoversUnlessRivals FixturesWholeUnlessRivals
