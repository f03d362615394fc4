---------------------------- MODULE OnboardStorage ----------------------------
(***************************************************************************)
(* The onboard telemetry queue of the spacecraft as a component: class     *)
(* OnboardStorage of src/satelite/storage.py, together with the one        *)
(* outside writer of its capacity, Spacecraft._apply_fault_state, which    *)
(* lowers the capacity while the STORAGE_FULL fault is active.             *)
(*                                                                         *)
(* A record is the number of the call that offered it, so that "older" is  *)
(* "smaller".  The caller chooses the priority of every record and the     *)
(* limit of every drain.                                                   *)
(***************************************************************************)
EXTENDS StorageOps

CONSTANTS
  ConfiguredCapacity,  \* config.onboard_capacity_packets
  FaultCapacity,       \* the capacity STORAGE_FULL leaves (4 in the code)
  Limits,              \* the limits drain is called with (0 stands for None)
  MaxRecords           \* bounds the records offered; part of no guard of the code

ASSUME ConfiguredCapacityAssumption == ConfiguredCapacity \in Nat \ {0}
ASSUME FaultCapacityAssumption == FaultCapacity \in Nat \ {0}
ASSUME LimitsAssumption == Limits \subseteq Int
ASSUME MaxRecordsAssumption == MaxRecords \in Nat

VARIABLES
  queue,     \* self._buckets
  capacity,  \* self.capacity
  dropped,   \* self.dropped
  next,      \* history: the number of the next record to be offered
  offered,   \* history: calls of enqueue since the last clear
  drained    \* history: records handed out by drain since the last clear

vars == <<queue, capacity, dropped, next, offered, drained>>

Init ==
  /\ queue = EmptyQueue
  /\ capacity = ConfiguredCapacity
  /\ dropped = 0
  /\ next = 1
  /\ offered = 0
  /\ drained = 0

\* enqueue(priority, seq, record)
Enqueue(p) ==
  /\ next <= MaxRecords
  /\ queue' = Enqueued(queue, capacity, p, next)
  /\ dropped' = dropped + Drops(queue, capacity)
  /\ next' = next + 1
  /\ offered' = offered + 1
  /\ UNCHANGED <<capacity, drained>>

\* drain(limit)
Drain(limit) ==
  /\ queue' = AfterDrain(queue, limit)
  /\ drained' = drained + Len(Drained(queue, limit))
  /\ UNCHANGED <<capacity, dropped, next, offered>>

\* clear()
Clear ==
  /\ queue' = EmptyQueue
  /\ dropped' = 0
  /\ offered' = 0
  /\ drained' = 0
  /\ UNCHANGED <<capacity, next>>

\* The fault takes FaultCapacity packets away instead of leaving that many.
MutantCapacityUnder(storageFull) ==
  IF ~storageFull THEN ConfiguredCapacity
  ELSE IF capacity > FaultCapacity THEN capacity - FaultCapacity ELSE 0

\* The capacity while STORAGE_FULL is active or not (spacecraft.py).
CapacityUnder(storageFull) ==
  IF ~storageFull THEN ConfiguredCapacity
  ELSE IF capacity < FaultCapacity THEN capacity ELSE FaultCapacity

ApplyFaultState(storageFull) ==
  /\ capacity' = CapacityUnder(storageFull)
  /\ UNCHANGED <<queue, dropped, next, offered, drained>>

Next ==
  \/ \E p \in Priority : Enqueue(p)
  \/ \E limit \in Limits : Drain(limit)
  \/ Clear
  \/ \E storageFull \in BOOLEAN : ApplyFaultState(storageFull)

Spec == Init /\ [][Next]_vars

-------------------------------------------------------------------------------

TypeOK ==
  /\ queue \in Queue(Nat)
  /\ capacity \in Nat \ {0}
  /\ dropped \in Nat
  /\ next \in Nat
  /\ offered \in Nat
  /\ drained \in Nat

(***************************************************************************)
(* Every record offered is buffered, or was handed out, or is counted in   *)
(* "dropped": the counter the dashboard shows accounts for every loss,     *)
(* also when one call of enqueue loses two records.                        *)
(***************************************************************************)
Conservation == offered = Used(queue) + drained + dropped

(***************************************************************************)
(* Within a priority the queue is first in first out: whatever sequence of *)
(* evictions, refusals and drains came before, each bucket holds its       *)
(* records oldest first and holds none twice.                              *)
(***************************************************************************)
BucketsInOrder ==
  \A p \in Priority : \A i, j \in 1 .. Len(queue[p]) :
    i < j => queue[p][i] < queue[p][j]

(***************************************************************************)
(* Nothing below a priority leaves by drain while a record of that         *)
(* priority stays behind: a pass too short to empty the queue sends the    *)
(* most urgent records.                                                    *)
(***************************************************************************)
DrainsMostUrgentFirst ==
  [][\A p, q \in Priority :
       (drained' > drained /\ Rank[p] < Rank[q] /\ Len(queue'[q]) < Len(queue[q]))
         => queue'[p] = << >>]_vars

(***************************************************************************)
(* A record is evicted only when every less urgent bucket is empty at that *)
(* moment, and then it is the oldest of its bucket.                        *)
(***************************************************************************)
EvictsLeastUrgentOldest ==
  [][dropped' > dropped =>
       \A p \in Priority : \A i \in 1 .. Len(queue[p]) :
         LET record == queue[p][i] IN
           (\A j \in 1 .. Len(queue'[p]) : queue'[p][j] # record)
             => /\ i = 1
                /\ \A q \in Priority : Rank[q] > Rank[p] => queue[q] = << >>]_vars

(***************************************************************************)
(* The queue never grows past its capacity; and when a fault has shrunk    *)
(* the capacity below the fill level, every enqueue brings the level down, *)
(* so that the queue fits its capacity again after as many calls.          *)
(***************************************************************************)
NeverGrowsPastCapacity ==
  [][/\ Used(queue') > Used(queue) => Used(queue') <= capacity
     /\ (offered' > offered /\ Used(queue) > capacity)
          => Used(queue') < Used(queue)]_vars
===============================================================================
