----------------------------- MODULE AnomalyRules -----------------------------
(***************************************************************************)
(* The rule-based detector of the ground segment: detect_anomalies of      *)
(* src/simulation/anomaly.py, with the thresholds of class RuleConfig.     *)
(*                                                                         *)
(* A record holds what the rules look at: its mission time in seconds, the *)
(* temperature, the battery and CPU percentages, the position along the    *)
(* ground track in km and the speed in km/s.                               *)
(***************************************************************************)
EXTENDS Integers

CONSTANTS
  TemperatureHigh,   \* config.anomaly_temperature_high (70)
  BatteryLow,        \* config.anomaly_battery_low (15)
  BatteryCritical,   \* config.anomaly_battery_critical (5)
  DropRate,          \* config.anomaly_battery_drop_rate, percent per minute (5)
  CpuHigh            \* config.anomaly_cpu_high (95)

MaxPositionJump == 500

\* Stands for previous = None.
NoRecord == [time |-> -1]

Level ==
  [HIGH_TEMPERATURE |-> 4, BATTERY_CRITICAL |-> 4, BATTERY_LOW |-> 3,
   BATTERY_RAPID_DRAIN |-> 3, CPU_OVERLOAD |-> 3, POSITION_JUMP |-> 2]

Rule == DOMAIN Level

\* A late record is no time after the previous one.
Elapsed(record, previous) ==
  IF record.time > previous.time THEN record.time - previous.time ELSE 0

\* per_min > limit, multiplied by dt_s
DrainsFast(record, previous) ==
  /\ Elapsed(record, previous) >= 1
  /\ 60 * (previous.battery - record.battery) > DropRate * Elapsed(record, previous)

Distance(p, q) == IF p > q THEN p - q ELSE q - p

Least(i, j) == IF i < j THEN i ELSE j
Most(i, j) == IF i > j THEN i ELSE j

\* Ten times the expected displacement, but 50 km at least and 500 at most.
JumpLimit(record, previous) ==
  Least(MaxPositionJump, Most(50, 10 * record.velocity * Elapsed(record, previous)))

Jumps(record, previous) ==
  Distance(record.position, previous.position) > JumpLimit(record, previous)

\* The rules about one record.
AbsoluteFindings(record) ==
  {rule \in Rule :
     \/ rule = "HIGH_TEMPERATURE" /\ record.temperature > TemperatureHigh
     \/ rule = "BATTERY_CRITICAL" /\ record.battery <= BatteryCritical
     \/ /\ rule = "BATTERY_LOW"
        /\ record.battery \in (BatteryCritical + 1) .. BatteryLow
     \/ rule = "CPU_OVERLOAD" /\ record.cpu > CpuHigh}

\* The rules about a record and the one before it.
RateFindings(record, previous) ==
  {rule \in Rule :
     /\ previous # NoRecord
     /\ \/ rule = "BATTERY_RAPID_DRAIN" /\ DrainsFast(record, previous)
        \/ rule = "POSITION_JUMP" /\ Jumps(record, previous)}

DetectAnomalies(record, previous) ==
  AbsoluteFindings(record) \union RateFindings(record, previous)

\* worst_severity(findings) >= 4
IsCritical(findings) == \E rule \in findings : Level[rule] >= 4
===============================================================================
