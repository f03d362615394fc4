SPECIFICATION Spec
CONSTANTS
  FirstSequence = 1
  ConfiguredCapacity = 3
  FaultCapacity = 1
  DrainPerTick = 2
  RecentWindow = 2
  MaxRecords = 4
  MaxErrors = 1
PROPERTY BufferedTelemetryPassesTheGate
