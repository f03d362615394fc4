SPECIFICATION Spec
CONSTANTS
  ConfiguredCapacity = 3
  FaultCapacity = 2
  Limits = {0, 1, 2}
  MaxRecords = 6
INVARIANTS TypeOK Conservation BucketsInOrder
PROPERTIES DrainsMostUrgentFirst EvictsLeastUrgentOldest NeverGrowsPastCapacity
