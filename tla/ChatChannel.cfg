SPECIFICATION Spec
CONSTANTS
  ApiThreads = {w1, w2}
  MaxChunks = 2
  MaxSends = 2
  MaxHeaderHits = 1
INVARIANTS TypeOK DeliveredIsSent ReportIsExact
CHECK_DEADLOCK FALSE
