SPECIFICATION LimiterSpec
CONSTANTS
  MaxCalls = 2
  Period = 3
  MaxRequests = 6
  Horizon = 8
INVARIANTS WindowLimit NoNeedlessWait
PROPERTIES SleeperIsGranted ImplementsWindow
