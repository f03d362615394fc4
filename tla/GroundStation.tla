----------------------------- MODULE GroundStation -----------------------------
(***************************************************************************)
(* What the ground keeps of a mission: GroundStation.on_downlink and       *)
(* update_contact (src/grounf_station/station.py) with the receiver, the   *)
(* packet parser, the validator (SequenceTracking) and the decoder with    *)
(* its rules (AnomalyRules), the event bus (src/simulation/events.py), and *)
(* the tables they write through class Store (src/database/store.py).      *)
(*                                                                         *)
(* The simulation thread handles frames; API threads emit events of their  *)
(* own.  All share one SQLite connection, and with it one transaction: a   *)
(* commit of any thread makes the rows of all durable, and one that fails  *)
(* may roll the rows of all back.  The process may stop at any moment and  *)
(* be started again on the same database (docker-compose.yml): then memory *)
(* is lost, durable rows are not.                                          *)
(***************************************************************************)
EXTENDS AnomalyRules, Sequences, FiniteSets, SequencesExt

CONSTANTS
  RecentWindow,   \* maxlen of _seen_recent (2048)
  ApiThreads,     \* worker threads that emit events
  SequenceNumber, \* downlink sequence numbers of one mission
  Readings,       \* records as they come down, but for the time
  MaxInputs,      \* bounds frames, API requests, contact updates and restarts
  MaxFailures     \* bounds the inserts that fail

INSTANCE SequenceTracking

ASSUME WindowAssumption == RecentWindow \in Nat \ {0}
ASSUME SequenceAssumption == SequenceNumber \subseteq Nat \ {0}
ASSUME ReadingsAssumption ==
  Readings \subseteq [time : Nat, temperature : Int, battery : Int, cpu : Int, position : Int,
                      velocity : Nat, anomalies : {{}}]
ASSUME BoundsAssumption ==
  MaxInputs \in Nat /\ MaxFailures \in Nat

Thread == {"sim"} \union ApiThreads

VARIABLES
  mission,   \* history: how many times the process was started
  counts,    \* the counters of the ground station
  validator, \* GroundStation.validator
  heard,     \* the sequence numbers that have come down in this mission
  current,   \* the record on_downlink is handling, or NoRecord
  previous,  \* GroundStation.previous_record
  contact,   \* GroundStation.previous_contact_state, "unknown" for None
  bus,       \* EventBus._events
  todo,      \* per thread: what is left of the call it is in
  tx,        \* per table, the rows inserted and not committed
  db,        \* per table, the durable rows
  failed,    \* history: per table, the rows whose insert raised or was skipped,
             \* and those a failing insert rolled back
  used       \* history: how much of each bound is used

memory == <<counts, validator, heard, current, previous, contact, bus>>
tables == <<tx, db, failed>>
vars == <<mission, memory, todo, tables, used>>

\* "raised" is none of the code's: the frames whose handling raised.
Counter == {"received", "accepted", "rejected", "corrupted", "missing",
            "duplicates", "late", "raised"}

Table == {"telemetry", "packets", "events", "security_events"}

NoRows == [b \in Table |-> {}]

\* A row is known by its mission, by the number of the event it reports (0 in
\* other tables), by the frame it is about (0 for none), and by what it says.
Row(n, frame, what) == [mission |-> mission, n |-> n, frame |-> frame, what |-> what]

\* SECURITY_EVENT_TYPES, as far as the station and the gateway emit them.
SecurityEventTypes ==
  {"INVALID_PACKET", "CRC_FAILURE", "SECURITY_ALERT", "REPLAY_ATTACK_DETECTED"}

\* emit_event about a frame, or about none
EmitAbout(frame, what) == <<[do |-> "emit", frame |-> frame, what |-> what]>>

\* What on_downlink does about the frame it has just received.
Emit(what) == EmitAbout(counts["received"] + 1, what)
Insert(table, what) ==
  <<[do |-> "insert", tables |-> <<table>>, row |-> Row(0, counts["received"] + 1, what)]>>

\* _emit_startup_events of a process that starts
Startup == EmitAbout(0, "SYSTEM_BOOT")

Init ==
  /\ mission = 1
  /\ counts = [c \in Counter |-> 0]
  /\ validator = NewValidator
  /\ heard = {}
  /\ current = NoRecord
  /\ previous = NoRecord
  /\ contact = "unknown"
  /\ bus = {}
  /\ todo = [t \in Thread |-> IF t = "sim" THEN Startup ELSE << >>]
  /\ tx = NoRows
  /\ db = NoRows
  /\ failed = NoRows
  /\ used = [inputs |-> 0, failures |-> 0]

-------------------------------------------------------------------------------
(* on_downlink *)

\* The parts of a frame noise may hit.
Part == {"sync", "version", "length", "body", "crc"}

\* parse_packet and Receiver.process: errors in the framing raise PacketError,
\* all others are left to the CRC, which may match a damaged body by chance.
Parse(hit, collides) ==
  IF hit \intersect {"sync", "version", "length"} # {} THEN "MALFORMED"
  ELSE IF hit = {} \/ collides THEN "ACCEPTED"
  ELSE "CRC_FAILURE"

Idle == todo["sim"] = << >> /\ current = NoRecord

Arrives ==
  /\ Idle
  /\ used.inputs < MaxInputs
  /\ used' = [used EXCEPT !.inputs = @ + 1]

RejectMalformed ==
  /\ counts' = [counts EXCEPT !["received"] = @ + 1, !["rejected"] = @ + 1]
  /\ todo' = [todo EXCEPT !["sim"] = Emit("INVALID_PACKET")]
  /\ UNCHANGED <<validator, current>>

RejectCorrupted ==
  /\ counts' = [counts EXCEPT !["received"] = @ + 1, !["corrupted"] = @ + 1,
                              !["rejected"] = @ + 1]
  /\ todo' = [todo EXCEPT !["sim"] = Emit("CRC_FAILURE")
                                       \o Insert("packets", "CRC_FAILURE")]
  /\ UNCHANGED <<validator, current>>

\* The sequence accounting, which comes before the decoder.
Tallied(s, counter) ==
  LET status == Status(validator, s) IN
  [counts EXCEPT !["received"] = @ + 1, ![counter] = @ + 1,
     !["missing"] = @ + Missing(validator, s),
     !["duplicates"] = @ + (IF status = "DUPLICATE" THEN 1 ELSE 0),
     !["late"] = @ + (IF status = "LATE" THEN 1 ELSE 0)]

ReportMissing(s) == IF Missing(validator, s) > 0 THEN Emit("PACKET_MISSING") ELSE << >>

\* Counts the frame as accepted before it is decoded.
MutantRejectUndecodable(s) ==
  /\ counts' = Tallied(s, "accepted")
  /\ validator' = Validated(validator, s)
  /\ todo' = [todo EXCEPT !["sim"] = ReportMissing(s) \o Emit("INVALID_PACKET")
                                       \o Insert("packets", "DECODE_FAILED")]
  /\ UNCHANGED current

\* Source mismatch, or a payload that is no JSON object.
RejectUndecodable(s) ==
  /\ counts' = Tallied(s, "rejected")
  /\ validator' = Validated(validator, s)
  /\ todo' = [todo EXCEPT !["sim"] = ReportMissing(s) \o Emit("INVALID_PACKET")
                                       \o Insert("packets", "DECODE_FAILED")]
  /\ UNCHANGED current

\* A damaged payload may be a JSON object without a field the record needs, or
\* with one the rules cannot compare; fetch_due logs the exception, no more.
DecoderRaises(s) ==
  /\ counts' = Tallied(s, "raised")
  /\ validator' = Validated(validator, s)
  /\ todo' = [todo EXCEPT !["sim"] = ReportMissing(s)]
  /\ UNCHANGED current

\* Decoder.decode: the decoder's own previous record is the one it was built
\* with, None.
Findings(record) == DetectAnomalies(record, NoRecord)

\* Stores the record before it reports on it.
MutantOnAccepted(findings) ==
  LET severity == IF IsCritical(findings) THEN "critical" ELSE "harmless" IN
  Insert("packets", "ACCEPTED") \o Insert("telemetry", severity)
    \o (IF IsCritical(findings) THEN Emit("SECURITY_ALERT") ELSE << >>)

\* One event per finding, an alert if one of them is critical, the row.
OnAccepted(findings) ==
  LET severity == IF IsCritical(findings) THEN "critical" ELSE "harmless"
      events == [i \in 1 .. Cardinality(findings) |-> Emit("ANOMALY_DETECTED")[1]]
  IN  Insert("packets", "ACCEPTED") \o events
        \o (IF IsCritical(findings) THEN Emit("SECURITY_ALERT") ELSE << >>)
        \o Insert("telemetry", severity)

\* The mission time is one second per sequence number.
AcceptRecord(s, reading) ==
  LET record == [reading EXCEPT !.time = s]
      findings == Findings(record)
  IN
  /\ counts' = Tallied(s, "accepted")
  /\ validator' = Validated(validator, s)
  /\ current' = [record EXCEPT !.anomalies = findings]
  /\ todo' = [todo EXCEPT !["sim"] = ReportMissing(s) \o OnAccepted(findings)]

\* A frame with a number not heard before comes down.  Only damage the CRC
\* misses can change its number or what the decoder makes of it.
OnDownlink(sent) ==
  /\ Arrives
  /\ sent \notin heard
  /\ heard' = heard \union {sent}
  /\ \E hit \in SUBSET Part, collides \in BOOLEAN :
       LET outcome == Parse(hit, collides) IN
       \/ outcome = "MALFORMED" /\ RejectMalformed
       \/ outcome = "CRC_FAILURE" /\ RejectCorrupted
       \/ /\ outcome = "ACCEPTED"
          /\ \E s \in IF hit = {} THEN {sent} ELSE SequenceNumber :
               \/ hit # {} /\ (RejectUndecodable(s) \/ DecoderRaises(s))
               \/ \E reading \in Readings : AcceptRecord(s, reading)
  /\ UNCHANGED <<mission, previous, contact, bus, tables>>

\* self.previous_record = record
Remember ==
  /\ todo["sim"] = << >>
  /\ current # NoRecord
  /\ previous' = current
  /\ current' = NoRecord
  /\ UNCHANGED <<mission, counts, validator, heard, contact, bus, todo, tables, used>>

-------------------------------------------------------------------------------
(* update_contact, and events from API threads *)

UpdateContact(visible) ==
  LET what == IF visible THEN "GROUND_CONTACT_STARTED" ELSE "GROUND_CONTACT_LOST"
      changes == IF visible THEN contact # "yes" ELSE contact = "yes"
  IN
  /\ Idle
  /\ used.inputs < MaxInputs
  /\ used' = [used EXCEPT !.inputs = @ + 1]
  /\ contact' = IF visible THEN "yes" ELSE "no"
  /\ todo' = [todo EXCEPT !["sim"] =
       IF changes THEN EmitAbout(0, what) ELSE << >>]
  /\ UNCHANGED <<mission, counts, validator, heard, current, previous, bus, tables>>

\* send_telecommand on a worker thread: the command goes out, or the ground
\* guard refuses it.
Request(t, what) ==
  /\ todo[t] = << >>
  /\ used.inputs < MaxInputs
  /\ used' = [used EXCEPT !.inputs = @ + 1]
  /\ todo' = [todo EXCEPT ![t] = EmitAbout(0, what)]
  /\ UNCHANGED <<mission, memory, tables>>

-------------------------------------------------------------------------------
(* EventBus.emit, Store.on_event and the inserts of Store *)

Does(t, step) == todo[t] # << >> /\ Head(todo[t]).do = step

Continue(t, op) == todo' = [todo EXCEPT ![t] = op \o Tail(@)]

\* on_event: the events table first, then the mirror of what is security.
TablesOf(what) ==
  IF what \in SecurityEventTypes THEN <<"events", "security_events">> ELSE <<"events">>

\* self._events.append(event); the one sink is called next.
EmitEvent(t) ==
  /\ Does(t, "emit")
  /\ LET op == Head(todo[t])
         row == Row(Cardinality(bus) + 1, op.frame, op.what)
     IN
     /\ bus' = bus \union {row}
     /\ Continue(t, <<[do |-> "insert", tables |-> TablesOf(op.what), row |-> row]>>)
  /\ UNCHANGED <<mission, counts, validator, heard, current, previous, contact, tables, used>>

\* self.conn.execute("INSERT ...")
Execute(t) ==
  /\ Does(t, "insert")
  /\ LET op == Head(todo[t]) IN
     /\ tx' = [tx EXCEPT ![Head(op.tables)] = @ \union {op.row}]
     /\ Continue(t, <<[op EXCEPT !.do = "commit"]>>)
  /\ UNCHANGED <<mission, memory, db, failed, used>>

\* An event goes on to its next table.
Rest(op) ==
  IF Len(op.tables) = 1 THEN << >>
  ELSE <<[op EXCEPT !.do = "insert", !.tables = Tail(@)]>>

\* Commits when an event is in the last of its tables.
MutantCommit(t) ==
  LET rest == Rest(Head(todo[t])) IN
  /\ Does(t, "commit")
  /\ IF rest = << >>
     THEN db' = [b \in Table |-> db[b] \union tx[b]] /\ tx' = NoRows
     ELSE UNCHANGED <<db, tx>>
  /\ Continue(t, rest)
  /\ UNCHANGED <<mission, memory, failed, used>>

\* self.conn.commit(): for all threads
Commit(t) ==
  /\ Does(t, "commit")
  /\ db' = [b \in Table |-> db[b] \union tx[b]]
  /\ tx' = NoRows
  /\ Continue(t, Rest(Head(todo[t])))
  /\ UNCHANGED <<mission, memory, failed, used>>

\* The tables the rest of an insert that raises would have been about
Skipped(op) == [b \in Table |-> IF b \in Range(op.tables) THEN {op.row} ELSE {}]

\* execute or commit raises.  Either the row, if it was executed, stays in the
\* transaction: another thread began or ended it after this one had looked.  Or
\* SQLite has rolled the transaction back, with the rows of all threads: the disk
\* is full, or an I/O error; another thread's commit then has nothing to commit and
\* says nothing.  The exception is swallowed, and what is left of the insert with it.
Raise(t) ==
  /\ todo[t] # << >> /\ Head(todo[t]).do \in {"insert", "commit"}
  /\ used.failures < MaxFailures
  /\ used' = [used EXCEPT !.failures = @ + 1]
  /\ LET skipped == Skipped(Head(todo[t])) IN
     \/ /\ failed' = [b \in Table |-> failed[b] \union skipped[b]]
        /\ UNCHANGED tx
     \/ /\ failed' = [b \in Table |-> failed[b] \union skipped[b] \union tx[b]]
        /\ tx' = NoRows
  /\ Continue(t, << >>)
  /\ UNCHANGED <<mission, memory, db>>

\* The process stops, and is started again on the same database: init_db creates
\* tables only where there are none.
Restart ==
  /\ used.inputs < MaxInputs
  /\ used' = [used EXCEPT !.inputs = @ + 1]
  /\ mission' = mission + 1
  /\ counts' = [c \in Counter |-> 0]
  /\ validator' = NewValidator
  /\ heard' = {}
  /\ current' = NoRecord
  /\ previous' = NoRecord
  /\ contact' = "unknown"
  /\ bus' = {}
  /\ todo' = [t \in Thread |-> IF t = "sim" THEN Startup ELSE << >>]
  /\ tx' = NoRows
  /\ UNCHANGED <<db, failed>>

-------------------------------------------------------------------------------

ThreadStep(t) == EmitEvent(t) \/ Execute(t) \/ Commit(t) \/ Raise(t)

Next ==
  \/ \E s \in SequenceNumber : OnDownlink(s)
  \/ Remember
  \/ \E visible \in BOOLEAN : UpdateContact(visible)
  \/ \E t \in ApiThreads, what \in {"TELECOMMAND_RECEIVED", "REPLAY_ATTACK_DETECTED"} :
       Request(t, what)
  \/ \E t \in Thread : ThreadStep(t)
  \/ Restart

Spec == Init /\ [][Next]_vars

-------------------------------------------------------------------------------

TypeOK ==
  /\ mission \in 1 .. MaxInputs + 1
  /\ counts \in [Counter -> Nat]
  /\ validator \in Validator
  /\ heard \subseteq SequenceNumber
  /\ \A r \in {current, previous} : r = NoRecord \/ r.anomalies \subseteq Rule
  /\ contact \in {"unknown", "yes", "no"}
  /\ \A t \in Thread : \A i \in 1 .. Len(todo[t]) :
       todo[t][i].do = "commit" => i = 1
  /\ \A rows \in {tx, db, failed} : DOMAIN rows = Table
  /\ \A b \in Table : \A r \in db[b] \union tx[b] \union failed[b] : r.mission <= mission

\* The row is durable, or its insert raised, or was undone by one that raised.
Kept(table, row) == row \in db[table] \union failed[table]

(***************************************************************************)
(* The tables explain one another, also after a crash between two of their *)
(* inserts: a security event is in the event table too, a telemetry row    *)
(* has its ACCEPTED packet, and one with a critical finding has its alert  *)
(* in the security table (but for what inserts that raised have lost).     *)
(***************************************************************************)
TablesAreConsistent ==
  /\ db["security_events"] \subseteq db["events"] \union failed["events"]
  /\ \A r \in db["telemetry"] :
       /\ Kept("packets", [r EXCEPT !.what = "ACCEPTED"])
       /\ r.what = "critical" =>
            \E a \in db["security_events"] \union failed["security_events"] :
              a.mission = r.mission /\ a.frame = r.frame /\ a.what = "SECURITY_ALERT"

\* The thread that emitted the event has not finished recording it.
BeingRecorded(e) ==
  \E t \in Thread : todo[t] # << >> /\ Head(todo[t]).do # "emit" /\ Head(todo[t]).row = e

\* The thread has executed the insert of the row and goes on to the commit.
Uncommitted(b, row) ==
  \E t \in Thread : /\ Does(t, "commit")
                    /\ Head(Head(todo[t]).tables) = b /\ Head(todo[t]).row = row

(***************************************************************************)
(* "every frame, error, command and anomaly lands in a queryable event     *)
(* log" (README.md:87): an event of the running process is in the table of *)
(* events, and in the mirror if it is about security, unless a thread is   *)
(* still recording it or it was lost to an insert that raised.  Such an    *)
(* insert takes with it no more than the rows of other threads that are    *)
(* executed and not committed: nothing else is left in the transaction,    *)
(* but rows whose own commit raised.                                       *)
(***************************************************************************)
HistoryIsLogged ==
  /\ \A e \in bus :
       \/ BeingRecorded(e)
       \/ Kept("events", e) /\ (e.what \in SecurityEventTypes => Kept("security_events", e))
  /\ \A b \in Table : \A r \in tx[b] \ failed[b] : Uncommitted(b, r)

\* The packets of this mission with the status, logged or not.
Logged(table, what) ==
  Cardinality({r \in db[table] \union failed[table] : r.mission = mission /\ r.what = what})

(***************************************************************************)
(* The two halves of /api/packets/statistics agree: between two frames the *)
(* counters of the station are the packets and records of this mission in  *)
(* the tables, with those lost to inserts that raised, and its contact     *)
(* state is that of the contact events it emitted.                         *)
(***************************************************************************)
CountersMatchTables ==
  Idle =>
    /\ counts["accepted"] = Logged("packets", "ACCEPTED")
    /\ counts["accepted"] = Logged("telemetry", "harmless") + Logged("telemetry", "critical")
    /\ counts["corrupted"] = Logged("packets", "CRC_FAILURE")
    /\ counts["received"] = counts["accepted"] + counts["rejected"] + counts["raised"]
    /\ Cardinality({e \in bus : e.what = "GROUND_CONTACT_STARTED"})
         - Cardinality({e \in bus : e.what = "GROUND_CONTACT_LOST"})
       = IF contact = "yes" THEN 1 ELSE 0

(***************************************************************************)
(* "Run every rule against *record* (and *previous* for rate rules)"       *)
(* (anomaly.py:86): the findings of a record are those of its own values   *)
(* and of the change since the record before it.                           *)
(***************************************************************************)
RateRulesSeeThePreviousRecord ==
  current # NoRecord => current.anomalies = DetectAnomalies(current, previous)
===============================================================================
