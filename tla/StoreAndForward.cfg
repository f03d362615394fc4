SPECIFICATION FairSpec
CONSTANTS
  FirstSequence = 1
  ConfiguredCapacity = 3
  FaultCapacity = 1
  DrainPerTick = 2
  RecentWindow = 2
  MaxRecords = 5
  MaxErrors = 1
INVARIANTS TypeOK EveryRecordIsAccounted MissingAddsUp
PROPERTY BufferEmptiesInView
