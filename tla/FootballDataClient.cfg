SPECIFICATION Spec
CONSTANTS
  MaxCalls = 2
  Period = 3
  MaxRequests = 5
  Horizon = 5
  MaxAttempts = 3
  Backoff = 1
INVARIANTS ClientTypeOK RetriesAreSpaced ServerSeesWindow
PROPERTIES RequestEnds
