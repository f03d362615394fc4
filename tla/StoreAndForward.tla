--------------------------- MODULE StoreAndForward ----------------------------
(***************************************************************************)
(* Telemetry from the spacecraft to the ground station, tick by tick:      *)
(* Simulation.tick_once (src/simulation/runner.py), telemetry production   *)
(* and _dispatch (src/satelite/spacecraft.py), the onboard queue           *)
(* (StorageOps), the downlink with its visibility gate                     *)
(* (src/communication/link.py), and the receiving side of the ground       *)
(* station (src/grounf_station/station.py) with its sequence accounting    *)
(* (SequenceTracking).                                                     *)
(*                                                                         *)
(* The simulation thread alone runs all of this.  A tick is the spacecraft *)
(* tick, then the delivery of the frames that are due, and last the update *)
(* of the link's visibility gate: during the first two the gate is that of *)
(* the tick before.  A record is its sequence number.                      *)
(*                                                                         *)
(* Only the link is shared: a request that uses it in the middle of a tick *)
(* can make transmit or fetch_due raise (SpaceLink shows how).  The tick is *)
(* then over, and what it had in hand is gone.                             *)
(***************************************************************************)
EXTENDS StorageOps, FiniteSets

CONSTANTS
  FirstSequence,            \* Spacecraft.sequence at start (1001)
  ConfiguredCapacity,       \* config.onboard_capacity_packets
  FaultCapacity,            \* the capacity STORAGE_FULL leaves (4)
  DrainPerTick,             \* DOWNLINK_DRAIN_PER_TICK (30)
  RecentWindow,             \* how many sequence numbers the validator remembers
  MaxRecords,               \* bounds the records produced; later ticks produce none
  MaxErrors                 \* bounds the exceptions of the link

INSTANCE SequenceTracking

ASSUME FirstSequenceAssumption == FirstSequence \in Nat \ {0}
ASSUME CapacityAssumption ==
  ConfiguredCapacity \in Nat \ {0} /\ FaultCapacity \in Nat \ {0}
ASSUME DrainAssumption == DrainPerTick \in Nat \ {0}
ASSUME WindowAssumption == RecentWindow \in Nat \ {0}
ASSUME MaxRecordsAssumption == MaxRecords \in Nat
ASSUME MaxErrorsAssumption == MaxErrors \in Nat

VARIABLES
  config,      \* the two switches of the configuration, read once at start
  pc,          \* "tick": the tick begins; "fetch": the link delivers
  sequence,    \* Spacecraft.sequence
  visible,     \* Spacecraft._visibility.visible
  queue,       \* Spacecraft.storage
  capacity,    \* Spacecraft.storage.capacity
  unbuffered,  \* history: records neither sent nor buffered
  gate,        \* SpaceLink._visible
  inFlight,    \* SpaceLink._pending
  errors,      \* history: the exceptions the link raised
  spilled,     \* history: records such an exception cost; no counter has them
  counts,      \* the counters of storage, link and ground station
  validator,   \* GroundStation.validator
  first        \* history: the sequence number of the first intact frame

boardVars == <<config, sequence, visible, queue, capacity, unbuffered>>
groundVars == <<validator, first>>
linkVars == <<gate, inFlight, errors, spilled>>
vars == <<pc, boardVars, linkVars, counts, groundVars>>

Counter == {"dropped",                                       \* OnboardStorage
            "transmitted", "gate_dropped", "lost",           \* SpaceLink
            "received", "accepted", "rejected", "corrupted", \* GroundStation
            "missing", "duplicates", "late"}

Configuration ==
  [buffer_when_not_visible : BOOLEAN, downlink_buffer_on_contact : BOOLEAN]

Init ==
  /\ config \in Configuration
  /\ pc = "tick"
  /\ sequence = FirstSequence
  /\ visible = FALSE
  /\ queue = EmptyQueue
  /\ capacity = ConfiguredCapacity
  /\ unbuffered = 0
  /\ gate = TRUE
  /\ inFlight = {}
  /\ errors = 0
  /\ spilled = 0
  /\ counts = [c \in Counter |-> 0]
  /\ validator = NewValidator
  /\ first = 0

-------------------------------------------------------------------------------
(* Spacecraft: produce_telemetry and _dispatch *)

\* The priorities of the records of one call of produce_telemetry, in order: a
\* housekeeping record, CRITICAL under a fault, in SAFE mode or beyond a
\* threshold, and a LOW payload record while the payload is active.
Productions ==
  IF sequence + 1 < FirstSequence + MaxRecords
  THEN {<<p>> : p \in {"CRITICAL", "NORMAL"}}
         \union {<<p, "LOW">> : p \in {"CRITICAL", "NORMAL"}}
  ELSE {<< >>}

\* The queue and the drops after the records, two at most, were enqueued one by
\* one.
EnqueueAll(priorities, cap) ==
  LET none == [queue |-> queue, drops |-> 0]
      After(r, i) == [queue |-> Enqueued(r.queue, cap, priorities[i], sequence + i - 1),
                      drops |-> r.drops + Drops(r.queue, cap)]
  IN  CASE Len(priorities) = 0 -> none
        [] Len(priorities) = 1 -> After(none, 1)
        [] Len(priorities) = 2 -> After(After(none, 1), 2)

First(records, n) == {records[i] : i \in 1 .. n}

\* The open link with the records sent in these calls of SpaceLink.transmit: the
\* channel may lose some of those it can lose (channel loss, COMMS_OUTAGE), and
\* the rest is under way, intact or corrupted, in an order the jitter decides.
Channel(sent, losable, calls) ==
  \E lost \in SUBSET losable : \E corrupt \in SUBSET (sent \ lost) :
    /\ inFlight' = inFlight \union
         {[seq |-> s, intact |-> s \notin corrupt] : s \in sent \ lost}
    /\ counts' = [counts EXCEPT !["transmitted"] = @ + calls,
                                !["lost"] = @ + Cardinality(lost)]

\* transmit of each record of the list.  A closed gate drops all of them.
Transmit(records) ==
  /\ UNCHANGED <<errors, spilled>>
  /\ IF gate
     THEN Channel(First(records, Len(records)), First(records, Len(records)), Len(records))
     ELSE /\ counts' = [counts EXCEPT !["transmitted"] = @ + Len(records),
                                      !["gate_dropped"] = @ + Len(records)]
          /\ UNCHANGED inFlight

\* transmit raises over record n of the list: in the sum over the rate window,
\* when its frame is in no heap yet, or in heappush, when it is.  No record behind
\* it is sent.
Break(records, n) ==
  /\ gate
  /\ errors < MaxErrors
  /\ errors' = errors + 1
  /\ \E sent \in {n - 1, n} :
       /\ spilled' = spilled + (Len(records) - sent)
       /\ Channel(First(records, sent), First(records, n - 1), n)

\* Waits until the buffer holds more than a batch.
MutantSendInView(new) ==
  /\ UNCHANGED unbuffered
  /\ IF config.downlink_buffer_on_contact /\ Used(queue) > DrainPerTick
     THEN /\ queue' = AfterDrain(queue, DrainPerTick)
          /\ Transmit(new \o Drained(queue, DrainPerTick))
     ELSE /\ UNCHANGED queue
          /\ Transmit(new)

\* In view: the new records go out first, then a batch of buffered ones.
SendInView(new) ==
  /\ UNCHANGED unbuffered
  /\ IF config.downlink_buffer_on_contact
     THEN /\ queue' = AfterDrain(queue, DrainPerTick)
          /\ Transmit(new \o Drained(queue, DrainPerTick))
     ELSE /\ UNCHANGED queue
          /\ Transmit(new)

\* In view, and transmit raises: over a new record, and the buffer is left alone,
\* or over a buffered one, and the batch has left the buffer.
RaiseInView(new) ==
  /\ UNCHANGED unbuffered
  /\ \/ /\ \E n \in 1 .. Len(new) : Break(new, n)
        /\ UNCHANGED queue
     \/ /\ config.downlink_buffer_on_contact
        /\ LET records == new \o Drained(queue, DrainPerTick) IN
           \E n \in Len(new) + 1 .. Len(records) : Break(records, n)
        /\ queue' = AfterDrain(queue, DrainPerTick)

\* Out of view: the new records are buffered, or lost if buffering is off.
BufferOutOfView(priorities, cap) ==
  /\ UNCHANGED <<inFlight, errors, spilled>>
  /\ IF config.buffer_when_not_visible
     THEN LET result == EnqueueAll(priorities, cap) IN
          /\ queue' = result.queue
          /\ counts' = [counts EXCEPT !["dropped"] = @ + result.drops]
          /\ UNCHANGED unbuffered
     ELSE /\ unbuffered' = unbuffered + Len(priorities)
          /\ UNCHANGED <<queue, counts>>

\* produce_telemetry followed by _dispatch(records, inView).
ProduceAndDispatch(inView, cap) ==
  \E priorities \in Productions :
    /\ sequence' = sequence + Len(priorities)
    /\ IF inView
       THEN SendInView([i \in 1 .. Len(priorities) |-> sequence + i - 1])
       ELSE BufferOutOfView(priorities, cap)

\* The same, broken off by an exception of transmit.
ProduceAndRaise ==
  \E priorities \in Productions :
    /\ sequence' = sequence + Len(priorities)
    /\ RaiseInView([i \in 1 .. Len(priorities) |-> sequence + i - 1])

\* The fault takes FaultCapacity packets away instead of leaving that many.
MutantCapacityUnder(storageFull) ==
  IF ~storageFull THEN ConfiguredCapacity
  ELSE IF capacity > FaultCapacity THEN capacity - FaultCapacity ELSE 0

\* _apply_fault_state: the capacity under the STORAGE_FULL fault, or without.
CapacityUnder(storageFull) ==
  IF ~storageFull THEN ConfiguredCapacity
  ELSE IF capacity < FaultCapacity THEN capacity ELSE FaultCapacity

\* Spacecraft.tick: the orbit model says whether the station is in view.  An
\* exception ends the whole tick: _loop logs it and begins the next one.
SpacecraftTick ==
  /\ pc = "tick"
  /\ \E inView, storageFull \in BOOLEAN :
       /\ visible' = inView
       /\ capacity' = CapacityUnder(storageFull)
       /\ \/ pc' = "fetch" /\ ProduceAndDispatch(inView, CapacityUnder(storageFull))
          \/ pc' = "tick" /\ inView /\ ProduceAndRaise
  /\ UNCHANGED <<config, gate, groundVars>>

\* REQUEST_TELEMETRY, executed while the link delivers uplink frames; fetch_due
\* swallows its exception.
RequestTelemetry ==
  /\ pc = "fetch"
  /\ sequence + 1 < FirstSequence + MaxRecords
  /\ ProduceAndDispatch(visible, capacity) \/ (visible /\ ProduceAndRaise)
  /\ UNCHANGED <<config, pc, visible, capacity, gate, groundVars>>

-------------------------------------------------------------------------------
(* Ground station: on_downlink *)

\* Receiver.process: bit errors in the framing make a frame malformed, errors
\* anywhere else leave it to the CRC.
Outcomes(f) == IF f.intact THEN {"ACCEPTED"} ELSE {"MALFORMED", "CRC_FAILURE"}

\* Only a frame that could be parsed counts as corrupted.
Reject(f) ==
  /\ \E tag \in Outcomes(f) \ {"ACCEPTED"} :
       counts' = [counts EXCEPT !["received"] = @ + 1, !["rejected"] = @ + 1,
                    !["corrupted"] = @ + (IF tag = "CRC_FAILURE" THEN 1 ELSE 0)]
  /\ UNCHANGED groundVars

\* An intact frame passes receiver, validator and decoder.
Accept(f) ==
  LET status == Status(validator, f.seq)
      Tally(s) == IF status = s THEN 1 ELSE 0
  IN
  /\ "ACCEPTED" \in Outcomes(f)
  /\ counts' = [counts EXCEPT !["received"] = @ + 1, !["accepted"] = @ + 1,
                              !["missing"] = @ + Missing(validator, f.seq),
                              !["duplicates"] = @ + Tally("DUPLICATE"),
                              !["late"] = @ + Tally("LATE")]
  /\ validator' = Validated(validator, f.seq)
  /\ first' = IF first = 0 THEN f.seq ELSE first

\* SpaceLink.fetch_due delivers one frame that is due.
Deliver(f) ==
  /\ pc = "fetch"
  /\ inFlight' = inFlight \ {f}
  /\ Reject(f) \/ Accept(f)
  /\ UNCHANGED <<pc, boardVars, gate, errors, spilled>>

\* heappop raises: the frame it had taken out, a telemetry frame or one of the
\* uplink, is gone, and so is the rest of the tick.
AbortFetch ==
  /\ pc = "fetch"
  /\ errors < MaxErrors
  /\ pc' = "tick"
  /\ errors' = errors + 1
  /\ \/ \E f \in inFlight : inFlight' = inFlight \ {f} /\ spilled' = spilled + 1
     \/ UNCHANGED <<inFlight, spilled>>
  /\ UNCHANGED <<boardVars, gate, counts, groundVars>>

\* The rest of tick_once: link.set_visibility(vis.visible).
UpdateGate ==
  /\ pc = "fetch"
  /\ pc' = "tick"
  /\ gate' = visible
  /\ UNCHANGED <<boardVars, inFlight, errors, spilled, counts, groundVars>>

-------------------------------------------------------------------------------

Next ==
  \/ SpacecraftTick
  \/ RequestTelemetry
  \/ \E f \in inFlight : Deliver(f)
  \/ AbortFetch
  \/ UpdateGate

Spec == Init /\ [][Next]_vars

\* The simulation thread goes on ticking, and fetch_due ends: it delivers what
\* was due when it was called.
FairSpec == Spec /\ WF_vars(SpacecraftTick) /\ WF_vars(UpdateGate)

-------------------------------------------------------------------------------

TypeOK ==
  /\ config \in Configuration
  /\ pc \in {"tick", "fetch"}
  /\ sequence \in Nat
  /\ visible \in BOOLEAN
  /\ queue \in Queue(Nat)
  /\ capacity \in Nat \ {0}
  /\ unbuffered \in Nat
  /\ gate \in BOOLEAN
  /\ inFlight \subseteq [seq : FirstSequence .. (sequence - 1), intact : BOOLEAN]
  /\ errors \in 0 .. MaxErrors
  /\ spilled \in Nat
  /\ counts \in [Counter -> Nat]
  /\ validator \in Validator
  /\ first \in Nat

\* The most records that can be in the hands of one call.
Batch == IF DrainPerTick > 2 THEN DrainPerTick ELSE 2

(***************************************************************************)
(* Every sequence number given out is buffered, under way, received, in    *)
(* one of the loss counters of the dashboard (storage drops, gate drops,   *)
(* link losses), or spilled by an exception of the link, and in one of     *)
(* these only: none is transmitted live and out of the buffer, so the      *)
(* station never reports a duplicate.  An exception spills no more than    *)
(* one batch, and without one no record disappears without a trace.        *)
(***************************************************************************)
EveryRecordIsAccounted ==
  /\ sequence - FirstSequence =
       Used(queue) + Cardinality(inFlight) + unbuffered + spilled + counts["received"]
         + counts["dropped"] + counts["gate_dropped"] + counts["lost"]
  /\ spilled <= errors * Batch
  /\ counts["duplicates"] = 0

(***************************************************************************)
(* The counter of missing frames is exactly the distance from the first    *)
(* frame to the expected one, less the frames received in between: late    *)
(* frames, whatever gap they fill, leave it alone.                         *)
(***************************************************************************)
MissingAddsUp ==
  first # 0 =>
    validator.expected - first =
      counts["missing"] + counts["accepted"] - 1 - counts["late"] - counts["duplicates"]

(***************************************************************************)
(* While the satellite stays in view the buffer empties, although each     *)
(* tick sends only DrainPerTick records of it and a tick may be broken     *)
(* off, as long as that does not go on for ever (MaxErrors).               *)
(***************************************************************************)
BufferEmptiesInView ==
  config.downlink_buffer_on_contact => (<>[]visible => <>[](Used(queue) = 0))

(***************************************************************************)
(* "When Zee-1 is out of ground-station view, telemetry is buffered        *)
(* onboard and dumped on the next pass" (storage.py:5): what leaves the    *)
(* buffer is not thrown away by the visibility gate.                       *)
(***************************************************************************)
BufferedTelemetryPassesTheGate ==
  [][Used(queue') < Used(queue) =>
       counts'["gate_dropped"] = counts["gate_dropped"]]_vars
===============================================================================
