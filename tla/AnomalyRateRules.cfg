SPECIFICATION Spec
CONSTANTS
  TemperatureHigh = 70
  BatteryLow = 15
  BatteryCritical = 5
  DropRate = 5
  CpuHigh = 95
  RecentWindow = 2
  ApiThreads = {w1}
  SequenceNumber = {1, 2}
  Readings <- SpikyReadings
  MaxInputs = 3
  MaxFailures = 0
INVARIANT RateRulesSeeThePreviousRecord
CHECK_DEADLOCK FALSE
