-------------------------- MODULE GroundStationProofs --------------------------
(***************************************************************************)
(* Theorems about the ground station and its tables, for any number of     *)
(* threads that emit events, any sequence numbers and readings, any window *)
(* of the validator, and any number of frames, restarts and failing        *)
(* inserts: the tables explain one another, an event is logged unless an   *)
(* insert that raised lost it, and the counters of the station are the     *)
(* rows of its mission.                                                    *)
(*                                                                         *)
(* The argument follows a row from the call that will insert it to the     *)
(* table: what a call has still to do holds, in front of every row, the    *)
(* rows it depends on, unless these are kept already.  For the counters it *)
(* follows the rows of on_downlink from the call to the transaction, the   *)
(* table or the failed inserts, where no step of a thread loses or doubles *)
(* one; so only a new frame changes the account.                           *)
(***************************************************************************)
EXTENDS GroundStation, TLAPS, SequenceTheorems, FiniteSetTheorems

-------------------------------------------------------------------------------
(* What a thread may have to do *)

\* What a row or an event may say
What ==
  {"SYSTEM_BOOT", "GROUND_CONTACT_STARTED", "GROUND_CONTACT_LOST", "TELECOMMAND_RECEIVED",
   "REPLAY_ATTACK_DETECTED", "INVALID_PACKET", "CRC_FAILURE", "PACKET_MISSING",
   "ANOMALY_DETECTED", "SECURITY_ALERT", "DECODE_FAILED", "ACCEPTED", "harmless", "critical"}

RowSet == [mission : Nat, n : Nat, frame : Nat, what : What]

EmitOp == [do : {"emit"}, frame : Nat, what : What]

\* An insert a handler makes itself, not on_event: of no event.
PlainOp ==
  [do : {"insert"}, tables : {<<"telemetry">>, <<"packets">>}, row : {r \in RowSet : r.n = 0}]

TableList ==
  {<<"telemetry">>, <<"packets">>, <<"events">>, <<"security_events">>,
   <<"events", "security_events">>}

InsertOp == [do : {"insert", "commit"}, tables : TableList, row : RowSet]

\* Operations that are not under way yet
Fresh == EmitOp \union PlainOp

Op == EmitOp \union InsertOp

\* Only the first operation of a call is under way.
CallsOK ==
  /\ todo \in [Thread -> Seq(Op)]
  /\ \A t \in Thread : \A i \in 2 .. Len(todo[t]) : todo[t][i] \in Fresh

IsInsert(op) == op.do # "emit"

\* Rows are of this mission or an earlier one.
MissionsOK ==
  /\ \A b \in Table : \A r \in db[b] \union tx[b] \union failed[b] : r.mission <= mission
  /\ \A t \in Thread : \A i \in 1 .. Len(todo[t]) :
       IsInsert(todo[t][i]) => todo[t][i].row.mission <= mission

TablesOK ==
  /\ tx \in [Table -> SUBSET RowSet]
  /\ db \in [Table -> SUBSET RowSet]
  /\ failed \in [Table -> SUBSET RowSet]

BusOK ==
  /\ bus \subseteq RowSet
  /\ IsFiniteSet(bus)
  /\ \A e \in bus : e.n # 0

ControlOK ==
  /\ used \in [inputs : 0 .. MaxInputs, failures : Nat]
  /\ mission \in Nat \ {0}
  /\ mission <= used.inputs + 1
  /\ counts \in [Counter -> Nat]
  /\ validator \in Validator
  /\ heard \subseteq SequenceNumber
  /\ \A r \in {current, previous} : r = NoRecord \/ r.anomalies \subseteq Rule
  /\ contact \in {"unknown", "yes", "no"}

TypeInv == CallsOK /\ TablesOK /\ BusOK /\ ControlOK /\ MissionsOK

\* Where an insert that is next, or under way, stands.
Progress(op) ==
  /\ op.row.n # 0 => op.tables \in {<<"events">>, <<"security_events">>,
                                    <<"events", "security_events">>}
  /\ op.row.n # 0 /\ op.tables = <<"events">> => op.row.what \notin SecurityEventTypes
  /\ op.tables = <<"security_events">> => op.row \in db["events"] \union failed["events"]
  /\ op.do = "commit" =>
       op.row \in tx[Head(op.tables)] \union db[Head(op.tables)] \union failed[Head(op.tables)]

\* The mirror of security events follows the table of events.
EventsFollow ==
  /\ \A t \in Thread : todo[t] # << >> /\ IsInsert(todo[t][1]) => Progress(todo[t][1])
  /\ tx["security_events"] \union db["security_events"]
       \subseteq db["events"] \union failed["events"]

PacketOf(r) == [r EXCEPT !.what = "ACCEPTED"]

AlertKept(r) ==
  \E a \in db["security_events"] \union failed["security_events"] :
    a.mission = r.mission /\ a.frame = r.frame /\ a.what = "SECURITY_ALERT"

\* The operation will keep the packet, or the alert, of the record.
CoversPacket(op, r) == IsInsert(op) /\ op.tables = <<"packets">> /\ op.row = PacketOf(r)

CoversAlert(op, r) ==
  \/ op.do = "emit" /\ op.what = "SECURITY_ALERT" /\ op.frame = r.frame /\ mission = r.mission
  \/ /\ IsInsert(op)
     /\ op.tables \in {<<"security_events">>, <<"events", "security_events">>}
     /\ op.row.what = "SECURITY_ALERT" /\ op.row.frame = r.frame /\ op.row.mission = r.mission

IsRecord(op) == IsInsert(op) /\ op.tables = <<"telemetry">>

\* The record at i of a call comes after its packet and its alert.
RecordReady(s, i) ==
  LET r == s[i].row IN
  /\ Kept("packets", PacketOf(r)) \/ \E j \in 1 .. i - 1 : CoversPacket(s[j], r)
  /\ r.what = "critical" => AlertKept(r) \/ \E j \in 1 .. i - 1 : CoversAlert(s[j], r)

RecordsFollow ==
  /\ \A t \in Thread : \A i \in 1 .. Len(todo[t]) :
       IsRecord(todo[t][i]) => RecordReady(todo[t], i)
  /\ \A r \in tx["telemetry"] \union db["telemetry"] :
       Kept("packets", PacketOf(r)) /\ (r.what = "critical" => AlertKept(r))

EventLogged(e) ==
  Kept("events", e) /\ (e.what \in SecurityEventTypes => Kept("security_events", e))

\* The two halves of HistoryIsLogged: events are logged or being recorded, and a
\* row that is not durable is that of a thread that has still to commit.
Logging == \A e \in bus : BeingRecorded(e) \/ EventLogged(e)

UncommittedBy(t, b, row) ==
  Does(t, "commit") /\ Head(Head(todo[t]).tables) = b /\ Head(todo[t]).row = row

Committing == \A b \in Table : \A r \in tx[b] \ failed[b] : \E t \in Thread : UncommittedBy(t, b, r)

IInv == TypeInv /\ EventsFollow /\ RecordsFollow /\ Logging /\ Committing

-------------------------------------------------------------------------------
(* Types of the helpers *)

\* There are finitely many rules, so a record has finitely many findings.
LEMMA RuleFinite == IsFiniteSet(Rule)
<1> DEFINE Two(x, y) == {x} \union {y}
<1>1. ASSUME NEW x, NEW y PROVE IsFiniteSet(Two(x, y))
  BY FS_Singleton, FS_AddElement
<1>2. IsFiniteSet(Two("HIGH_TEMPERATURE", "BATTERY_CRITICAL")
                    \union Two("BATTERY_LOW", "BATTERY_RAPID_DRAIN"))
  BY <1>1, FS_Union
<1>3. IsFiniteSet((Two("HIGH_TEMPERATURE", "BATTERY_CRITICAL")
                    \union Two("BATTERY_LOW", "BATTERY_RAPID_DRAIN"))
                    \union Two("CPU_OVERLOAD", "POSITION_JUMP"))
  BY <1>1, <1>2, FS_Union
<1>4. Rule = (Two("HIGH_TEMPERATURE", "BATTERY_CRITICAL")
                \union Two("BATTERY_LOW", "BATTERY_RAPID_DRAIN"))
                \union Two("CPU_OVERLOAD", "POSITION_JUMP")
  BY DEF Rule, Level
<1> HIDE DEF Two
<1> QED BY <1>3, <1>4

(***************************************************************************)
(* The number of missing frames is a natural number, and the validator     *)
(* stays well formed.                                                      *)
(***************************************************************************)
LEMMA ValidatorType ==
  ASSUME NEW v \in Validator, NEW s \in Nat
  PROVE  Missing(v, s) \in Nat /\ Validated(v, s) \in Validator
<1>1. v.expected \in Nat /\ v.recent \in Seq(Nat)
  BY DEF Validator
<1>2. Missing(v, s) \in Nat
  BY <1>1 DEF Missing, Status
<1>3. Appended(v.recent, s) \in Seq(Nat)
  <2>1. CASE Len(v.recent) < RecentWindow
    BY <1>1, <2>1 DEF Appended
  <2>2. CASE ~(Len(v.recent) < RecentWindow)
    <3>1. v.recent # << >>
      BY <2>2, WindowAssumption
    <3>2. Tail(v.recent) \in Seq(Nat)
      BY <1>1, <3>1
    <3> QED BY <2>2, <3>2 DEF Appended
  <2> QED BY <2>1, <2>2
<1>4. Validated(v, s) \in Validator
  BY <1>1, <1>3 DEF Validated, Validator
<1> QED BY <1>2, <1>4

(***************************************************************************)
(* A sequence with one operation in front                                  *)
(***************************************************************************)
LEMMA InFront ==
  ASSUME NEW x \in Op, NEW s \in Seq(Op), s # << >>
  PROVE  /\ <<x>> \o Tail(s) \in Seq(Op)
         /\ Len(<<x>> \o Tail(s)) = Len(s)
         /\ (<<x>> \o Tail(s))[1] = x
         /\ \A i \in 2 .. Len(s) : (<<x>> \o Tail(s))[i] = s[i]
         /\ << >> \o Tail(s) \in Seq(Op)
         /\ Len(<< >> \o Tail(s)) = Len(s) - 1
         /\ \A i \in 1 .. Len(s) - 1 : (<< >> \o Tail(s))[i] = s[i + 1]
<1>1. /\ Tail(s) \in Seq(Op)
      /\ Len(Tail(s)) = Len(s) - 1
      /\ \A i \in 1 .. Len(s) - 1 : Tail(s)[i] = s[i + 1]
  BY HeadTailProperties
<1>2. <<x>> \in Seq(Op) /\ Len(<<x>>) = 1 /\ <<x>>[1] = x
  OBVIOUS
<1>3. Len(s) \in Nat \ {0}
  OBVIOUS
<1>4. /\ <<x>> \o Tail(s) \in Seq(Op)
      /\ Len(<<x>> \o Tail(s)) = Len(s)
      /\ \A i \in 1 .. Len(s) : (<<x>> \o Tail(s))[i] = IF i <= 1 THEN <<x>>[i] ELSE Tail(s)[i - 1]
  BY <1>1, <1>2, <1>3, ConcatProperties
<1>5. << >> \o Tail(s) = Tail(s)
  BY <1>1, ConcatEmptySeq
<1> QED BY <1>1, <1>2, <1>3, <1>4, <1>5

-------------------------------------------------------------------------------
(* How calls begin and go on *)

(***************************************************************************)
(* A thread that begins a call has operations to do, none of them under    *)
(* way.                                                                    *)
(***************************************************************************)
LEMMA BeginType ==
  ASSUME CallsOK, NEW t \in Thread, NEW s \in Seq(Fresh), todo' = [todo EXCEPT ![t] = s]
  PROVE  /\ CallsOK'
         /\ \A u \in Thread : todo'[u] = IF u = t THEN s ELSE todo[u]
         /\ \A i \in 1 .. Len(s) : s[i] \in Fresh
<1>1. Fresh \subseteq Op
  BY DEF Fresh, Op, PlainOp, InsertOp, TableList
<1>2. s \in Seq(Op)
  BY <1>1, SeqMonotonic
<1>3. \A i \in 1 .. Len(s) : s[i] \in Fresh
  BY ElementOfSeq
<1>4. \A u \in Thread : todo'[u] = IF u = t THEN s ELSE todo[u]
  BY DEF CallsOK
<1>5. \A i \in 2 .. Len(s) : s[i] \in Fresh
  BY <1>2, <1>3
<1> QED BY <1>2, <1>3, <1>4, <1>5 DEF CallsOK

(***************************************************************************)
(* A thread that goes on replaces its first operation by another, or drops *)
(* it.                                                                     *)
(***************************************************************************)
LEMMA ReplaceType ==
  ASSUME CallsOK, NEW t \in Thread, todo[t] # << >>, NEW x \in Op, Continue(t, <<x>>)
  PROVE  /\ CallsOK'
         /\ \A u \in Thread : u # t => todo'[u] = todo[u]
         /\ Len(todo'[t]) = Len(todo[t])
         /\ todo'[t] # << >>
         /\ todo'[t][1] = x
         /\ \A i \in 2 .. Len(todo[t]) : todo'[t][i] = todo[t][i]
<1>1. todo[t] \in Seq(Op)
  BY DEF CallsOK
<1>2. /\ todo'[t] = <<x>> \o Tail(todo[t])
      /\ \A u \in Thread : u # t => todo'[u] = todo[u]
      /\ todo' = [todo EXCEPT ![t] = <<x>> \o Tail(todo[t])]
  BY DEF CallsOK, Continue
<1>3. /\ todo'[t] \in Seq(Op)
      /\ Len(todo'[t]) = Len(todo[t])
      /\ todo'[t][1] = x
      /\ \A i \in 2 .. Len(todo[t]) : todo'[t][i] = todo[t][i]
  BY <1>1, <1>2, InFront
<1>4. Len(todo[t]) \in Nat \ {0}
  BY <1>1
<1>5. todo'[t] # << >>
  BY <1>3, <1>4
<1> QED BY <1>2, <1>3, <1>5 DEF CallsOK

\* The operations of a call after its first one is dropped: none is under way.
LEMMA DropType ==
  ASSUME CallsOK, NEW t \in Thread, todo[t] # << >>, Continue(t, << >>)
  PROVE  /\ CallsOK'
         /\ \A u \in Thread : u # t => todo'[u] = todo[u]
         /\ Len(todo'[t]) = Len(todo[t]) - 1
         /\ \A i \in 1 .. Len(todo'[t]) : todo'[t][i] = todo[t][i + 1]
         /\ \A i \in 1 .. Len(todo'[t]) : todo'[t][i] \in Fresh
<1>1. todo[t] \in Seq(Op) /\ Len(todo[t]) \in Nat \ {0}
  BY DEF CallsOK
<1>2. /\ todo'[t] = << >> \o Tail(todo[t])
      /\ \A u \in Thread : u # t => todo'[u] = todo[u]
      /\ todo' = [todo EXCEPT ![t] = << >> \o Tail(todo[t])]
  BY DEF CallsOK, Continue
<1>3. todo[t][1] \in Op
  BY <1>1
<1>4. /\ todo'[t] \in Seq(Op)
      /\ Len(todo'[t]) = Len(todo[t]) - 1
      /\ \A i \in 1 .. Len(todo'[t]) : todo'[t][i] = todo[t][i + 1]
  BY <1>1, <1>2, <1>3, InFront
<1>5. \A i \in 1 .. Len(todo'[t]) : i + 1 \in 2 .. Len(todo[t])
  BY <1>1, <1>4
<1>6. \A i \in 1 .. Len(todo'[t]) : todo'[t][i] \in Fresh
  BY <1>4, <1>5 DEF CallsOK
<1>7. \A i \in 2 .. Len(todo'[t]) : todo'[t][i] \in Fresh
  BY <1>4, <1>6
<1> QED BY <1>2, <1>4, <1>6, <1>7 DEF CallsOK

(***************************************************************************)
(* What the handlers leave to do                                           *)
(***************************************************************************)
LEMMA EmitType ==
  ASSUME counts["received"] \in Nat, NEW what \in What
  PROVE  /\ Emit(what) \in Seq(EmitOp)
         /\ Emit(what)[1] = [do |-> "emit", frame |-> counts["received"] + 1, what |-> what]
         /\ Len(Emit(what)) = 1
         /\ EmitAbout(0, what) \in Seq(EmitOp)
<1>1. /\ [do |-> "emit", frame |-> counts["received"] + 1, what |-> what] \in EmitOp
      /\ [do |-> "emit", frame |-> 0, what |-> what] \in EmitOp
  BY DEF EmitOp
<1> QED BY <1>1 DEF Emit, EmitAbout

\* An insert a handler leaves to do is about no event.
LEMMA InsertType ==
  ASSUME counts["received"] \in Nat, mission \in Nat, NEW table \in {"telemetry", "packets"},
         NEW what \in What
  PROVE  /\ Insert(table, what) \in Seq(PlainOp)
         /\ Insert(table, what)[1] =
              [do |-> "insert", tables |-> <<table>>, row |-> Row(0, counts["received"] + 1, what)]
         /\ Len(Insert(table, what)) = 1
         /\ Row(0, counts["received"] + 1, what) \in RowSet
<1>1. Row(0, counts["received"] + 1, what) \in RowSet
  BY DEF Row, RowSet
<1>2. Row(0, counts["received"] + 1, what).n = 0
  BY DEF Row
<1>3. [do |-> "insert", tables |-> <<table>>, row |-> Row(0, counts["received"] + 1, what)]
        \in PlainOp
  BY <1>1, <1>2 DEF PlainOp
<1> QED BY <1>1, <1>3 DEF Insert

(***************************************************************************)
(* Operations of a call that begins, one after the other                   *)
(***************************************************************************)
LEMMA FreshSeq ==
  ASSUME NEW s \in Seq(EmitOp) \union Seq(PlainOp) \union Seq(Fresh)
  PROVE  s \in Seq(Fresh)
<1>1. EmitOp \subseteq Fresh /\ PlainOp \subseteq Fresh
  BY DEF Fresh
<1> QED BY <1>1, SeqMonotonic

-------------------------------------------------------------------------------
(* The calls handlers begin *)

\* All inserts are of this mission, and none is of a telemetry record.
NoRecords(s) ==
  \A i \in 1 .. Len(s) : IsInsert(s[i]) => s[i].tables # <<"telemetry">>
                                             /\ s[i].row.mission = mission

\* All inserts are of this mission, and records come after what they depend on.
WellOrdered(s) ==
  \A i \in 1 .. Len(s) : IsInsert(s[i]) =>
    /\ s[i].row.mission = mission
    /\ s[i].tables = <<"telemetry">> =>
         /\ \E j \in 1 .. i - 1 : CoversPacket(s[j], s[i].row)
         /\ s[i].row.what = "critical" => \E j \in 1 .. i - 1 : CoversAlert(s[j], s[i].row)

\* The thread, which was idle, begins a well-ordered call.
Begins(t, s) ==
  /\ todo[t] = << >>
  /\ s \in Seq(Fresh)
  /\ WellOrdered(s)
  /\ todo' = [todo EXCEPT ![t] = s]

(***************************************************************************)
(* Calls without records may be put together.                              *)
(***************************************************************************)
LEMMA NoRecordsConcat ==
  ASSUME NEW a \in Seq(Fresh), NEW b \in Seq(Fresh), NoRecords(a), NoRecords(b)
  PROVE  a \o b \in Seq(Fresh) /\ NoRecords(a \o b)
<1>1. /\ a \o b \in Seq(Fresh)
      /\ Len(a \o b) = Len(a) + Len(b)
      /\ \A i \in 1 .. Len(a) + Len(b) : (a \o b)[i] = IF i <= Len(a) THEN a[i] ELSE b[i - Len(a)]
  BY ConcatProperties
<1>2. Len(a) \in Nat /\ Len(b) \in Nat
  OBVIOUS
<1>3. ASSUME NEW i \in 1 .. Len(a \o b)
      PROVE  \/ i \in 1 .. Len(a) /\ (a \o b)[i] = a[i]
             \/ i - Len(a) \in 1 .. Len(b) /\ (a \o b)[i] = b[i - Len(a)]
  BY <1>1, <1>2
<1> QED BY <1>1, <1>3 DEF NoRecords

(***************************************************************************)
(* A call without records is well ordered, and so is one with a record at  *)
(* its end that comes after its packet and its alert.                      *)
(***************************************************************************)
LEMMA NoRecordsOrdered ==
  ASSUME NEW s, NoRecords(s)
  PROVE  WellOrdered(s)
BY DEF NoRecords, WellOrdered

\* A record may follow its packet and its alert.
LEMMA RecordAtEnd ==
  ASSUME NEW a \in Seq(Fresh), NoRecords(a), NEW x \in Fresh, IsInsert(x),
         x.row.mission = mission,
         \E j \in 1 .. Len(a) : CoversPacket(a[j], x.row),
         x.row.what = "critical" => \E j \in 1 .. Len(a) : CoversAlert(a[j], x.row)
  PROVE  a \o <<x>> \in Seq(Fresh) /\ WellOrdered(a \o <<x>>)
<1> DEFINE s == a \o <<x>>
<1>1. <<x>> \in Seq(Fresh) /\ Len(<<x>>) = 1 /\ <<x>>[1] = x /\ Len(a) \in Nat
  OBVIOUS
<1>2. /\ s \in Seq(Fresh)
      /\ Len(s) = Len(a) + 1
      /\ \A i \in 1 .. Len(a) + 1 : s[i] = IF i <= Len(a) THEN a[i] ELSE <<x>>[i - Len(a)]
  BY <1>1, ConcatProperties
<1>3. \A i \in 1 .. Len(a) : s[i] = a[i]
  BY <1>1, <1>2
<1>4. s[Len(a) + 1] = x
  BY <1>1, <1>2
<1> HIDE DEF s
<1>5. \A i \in 1 .. Len(s) : i \in 1 .. Len(a) \/ i = Len(a) + 1
  BY <1>1, <1>2
<1>6. (\E j \in 1 .. Len(a) + 1 - 1 : CoversPacket(s[j], x.row))
      /\ (x.row.what = "critical" => \E j \in 1 .. Len(a) + 1 - 1 : CoversAlert(s[j], x.row))
  BY <1>1, <1>3
<1>7. ASSUME NEW i \in 1 .. Len(s), IsInsert(s[i])
      PROVE  /\ s[i].row.mission = mission
             /\ s[i].tables = <<"telemetry">> =>
                  /\ \E j \in 1 .. i - 1 : CoversPacket(s[j], s[i].row)
                  /\ s[i].row.what = "critical" =>
                       \E j \in 1 .. i - 1 : CoversAlert(s[j], s[i].row)
  <2>1. CASE i \in 1 .. Len(a)
    <3>1. s[i] = a[i]
      BY <1>3, <2>1
    <3>2. a[i].row.mission = mission /\ a[i].tables # <<"telemetry">>
      BY <1>7, <2>1, <3>1 DEF NoRecords
    <3> QED BY <3>1, <3>2
  <2>2. CASE i = Len(a) + 1
    BY <1>4, <1>6, <2>2
  <2> QED BY <1>5, <2>1, <2>2
<1>8. WellOrdered(s)
  BY <1>7 DEF WellOrdered
<1> QED BY <1>2, <1>8 DEF s

(***************************************************************************)
(* Events alone are calls without records.                                 *)
(***************************************************************************)
LEMMA EventsOrdered ==
  ASSUME NEW q \in Seq(EmitOp)
  PROVE  q \in Seq(Fresh) /\ NoRecords(q)
<1>1. \A i \in 1 .. Len(q) : q[i] \in EmitOp
  BY ElementOfSeq
<1>2. \A op \in EmitOp : op.do = "emit"
  BY DEF EmitOp
<1>3. NoRecords(q)
  BY <1>1, <1>2 DEF NoRecords, IsInsert
<1> QED BY <1>3, FreshSeq

(***************************************************************************)
(* The operations handlers begin with, one by one                          *)
(***************************************************************************)
LEMMA EmitOrdered ==
  ASSUME counts["received"] \in Nat, NEW what \in What
  PROVE  /\ Emit(what) \in Seq(Fresh) /\ NoRecords(Emit(what))
         /\ EmitAbout(0, what) \in Seq(Fresh) /\ NoRecords(EmitAbout(0, what))
<1>1. Emit(what) \in Seq(EmitOp) /\ EmitAbout(0, what) \in Seq(EmitOp)
  BY EmitType
<1> QED BY <1>1, EventsOrdered

\* The insert of a packet alone is a call without records.
LEMMA PacketOrdered ==
  ASSUME counts["received"] \in Nat, mission \in Nat, NEW what \in What
  PROVE  Insert("packets", what) \in Seq(Fresh) /\ NoRecords(Insert("packets", what))
<1>1. /\ Insert("packets", what) \in Seq(PlainOp)
      /\ Insert("packets", what)[1] =
           [do |-> "insert", tables |-> <<"packets">>, row |-> Row(0, counts["received"] + 1, what)]
      /\ Len(Insert("packets", what)) = 1
  BY InsertType
<1>2. NoRecords(Insert("packets", what))
  BY <1>1 DEF NoRecords, Row
<1> QED BY <1>1, <1>2, FreshSeq

\* The report of missing frames is a call without records.
LEMMA ReportOrdered ==
  ASSUME counts["received"] \in Nat, NEW s
  PROVE  ReportMissing(s) \in Seq(Fresh) /\ NoRecords(ReportMissing(s))
<1>1. << >> \in Seq(Fresh) /\ NoRecords(<< >>)
  BY DEF NoRecords
<1>2. Emit("PACKET_MISSING") \in Seq(Fresh) /\ NoRecords(Emit("PACKET_MISSING"))
  BY EmitOrdered DEF What
<1> QED BY <1>1, <1>2 DEF ReportMissing

(***************************************************************************)
(* Sequences put together                                                  *)
(***************************************************************************)
LEMMA Behind ==
  ASSUME NEW S, NEW a \in Seq(S), NEW b \in Seq(S)
  PROVE  /\ a \o b \in Seq(S)
         /\ Len(a \o b) = Len(a) + Len(b)
         /\ \A i \in 1 .. Len(a) : (a \o b)[i] = a[i]
         /\ \A i \in 1 .. Len(b) : (a \o b)[Len(a) + i] = b[i]
<1>1. Len(a) \in Nat /\ Len(b) \in Nat
  OBVIOUS
<1>2. /\ a \o b \in Seq(S)
      /\ Len(a \o b) = Len(a) + Len(b)
      /\ \A i \in 1 .. Len(a) + Len(b) : (a \o b)[i] = IF i <= Len(a) THEN a[i] ELSE b[i - Len(a)]
  BY ConcatProperties
<1>3. ASSUME NEW i \in 1 .. Len(b)
      PROVE  (a \o b)[Len(a) + i] = b[i]
  <2>1. Len(a) + i \in 1 .. Len(a) + Len(b) /\ ~(Len(a) + i <= Len(a))
    BY <1>1
  <2>2. Len(a) + i - Len(a) = i
    BY <1>1
  <2> QED BY <1>2, <2>1, <2>2
<1>4. ASSUME NEW i \in 1 .. Len(a)
      PROVE  (a \o b)[i] = a[i]
  BY <1>1, <1>2
<1> QED BY <1>2, <1>3, <1>4

(***************************************************************************)
(* What on_downlink does with an accepted record is well ordered.          *)
(***************************************************************************)
LEMMA AcceptedOrdered ==
  ASSUME counts["received"] \in Nat, mission \in Nat, NEW s, NEW findings \in SUBSET Rule
  PROVE  /\ ReportMissing(s) \o OnAccepted(findings) \in Seq(Fresh)
         /\ WellOrdered(ReportMissing(s) \o OnAccepted(findings))
<1> DEFINE severity == IF IsCritical(findings) THEN "critical" ELSE "harmless"
           report == ReportMissing(s)
           packet == Insert("packets", "ACCEPTED")
           events == [i \in 1 .. Cardinality(findings) |-> Emit("ANOMALY_DETECTED")[1]]
           alert == IF IsCritical(findings) THEN Emit("SECURITY_ALERT") ELSE << >>
           record == [do |-> "insert", tables |-> <<"telemetry">>,
                      row |-> Row(0, counts["received"] + 1, severity)]
           before == packet \o events \o alert
<1>1. report \in Seq(Fresh) /\ NoRecords(report)
  BY ReportOrdered
<1>2. /\ packet \in Seq(Fresh) /\ NoRecords(packet)
      /\ Len(packet) = 1
      /\ packet[1] = [do |-> "insert", tables |-> <<"packets">>,
                      row |-> Row(0, counts["received"] + 1, "ACCEPTED")]
  <2>1. "ACCEPTED" \in What
    BY DEF What
  <2>2. packet \in Seq(Fresh) /\ NoRecords(packet)
    BY <2>1, PacketOrdered
  <2> QED BY <2>1, <2>2, InsertType
<1>3. events \in Seq(Fresh) /\ NoRecords(events)
  <2>1. Cardinality(findings) \in Nat
    BY RuleFinite, FS_Subset, FS_CardinalityType
  <2>2. Emit("ANOMALY_DETECTED")[1] \in EmitOp
    <3>1. "ANOMALY_DETECTED" \in What
      BY DEF What
    <3>2. Emit("ANOMALY_DETECTED") \in Seq(EmitOp) /\ Len(Emit("ANOMALY_DETECTED")) = 1
      BY <3>1, EmitType
    <3> QED BY <3>2
  <2>3. events \in Seq(EmitOp) /\ Len(events) = Cardinality(findings)
    BY <2>1, <2>2
  <2> QED BY <2>3, EventsOrdered
<1>4. /\ alert \in Seq(Fresh) /\ NoRecords(alert)
      /\ IsCritical(findings) => /\ Len(alert) = 1
                                 /\ alert[1] = [do |-> "emit", what |-> "SECURITY_ALERT",
                                                frame |-> counts["received"] + 1]
  <2>1. << >> \in Seq(Fresh) /\ NoRecords(<< >>)
    BY DEF NoRecords
  <2>2. "SECURITY_ALERT" \in What
    BY DEF What
  <2>3. Emit("SECURITY_ALERT") \in Seq(Fresh) /\ NoRecords(Emit("SECURITY_ALERT"))
    BY <2>2, EmitOrdered
  <2>4. /\ Len(Emit("SECURITY_ALERT")) = 1
        /\ Emit("SECURITY_ALERT")[1] = [do |-> "emit", what |-> "SECURITY_ALERT",
                                        frame |-> counts["received"] + 1]
    BY <2>2, EmitType
  <2> QED BY <2>1, <2>3, <2>4
<1>5. record \in Fresh /\ IsInsert(record) /\ record.row.mission = mission
      /\ Insert("telemetry", severity) = <<record>>
  <2>1. severity \in What
    BY DEF What
  <2>2. Insert("telemetry", severity) \in Seq(PlainOp) /\ Len(Insert("telemetry", severity)) = 1
        /\ Insert("telemetry", severity)[1] = record
    BY <2>1, InsertType
  <2>3. record \in PlainOp
    BY <2>2
  <2> QED BY <2>3 DEF Fresh, IsInsert, Row, Insert
<1> HIDE DEF packet, events, alert, report
<1>6. /\ before \in Seq(Fresh) /\ NoRecords(before)
      /\ Len(before) \in Nat \ {0}
      /\ before[1] = packet[1]
      /\ Len(alert) = 1 => before[Len(before)] = alert[1]
  <2>1. packet \o events \in Seq(Fresh) /\ NoRecords(packet \o events)
    BY <1>2, <1>3, NoRecordsConcat
  <2>2. before \in Seq(Fresh) /\ NoRecords(before)
    BY <1>4, <2>1, NoRecordsConcat
  <2>3. PICK q : q = packet \o events
    OBVIOUS
  <2>4. /\ Len(q) = Len(packet) + Len(events)
        /\ \A i \in 1 .. Len(packet) : q[i] = packet[i]
    BY <1>2, <1>3, <2>3, Behind
  <2>5. q \in Seq(Fresh) /\ alert \in Seq(Fresh) /\ before = q \o alert
    BY <1>4, <2>1, <2>3
  <2> HIDE DEF before
  <2>6. /\ Len(before) = Len(q) + Len(alert)
        /\ \A i \in 1 .. Len(q) : before[i] = q[i]
        /\ \A i \in 1 .. Len(alert) : before[Len(q) + i] = alert[i]
    BY ONLY <2>5, Behind
  <2>7. Len(events) \in Nat /\ Len(alert) \in Nat /\ Len(packet) = 1
    BY <1>2, <1>3, <1>4
  <2>8. Len(before) \in Nat \ {0} /\ 1 \in 1 .. Len(packet) /\ 1 \in 1 .. Len(q)
    BY ONLY <2>4, <2>6, <2>7
  <2>9. before[1] = packet[1]
    BY ONLY <2>4, <2>6, <2>8
  <2>10. Len(alert) = 1 => before[Len(before)] = alert[1]
    BY ONLY <2>6, <2>7
  <2> QED BY <2>2, <2>8, <2>9, <2>10
<1> HIDE DEF before
<1>7. CoversPacket(before[1], record.row)
  BY <1>2, <1>6 DEF CoversPacket, PacketOf, Row, IsInsert
<1>8. record.row.what = "critical" => CoversAlert(before[Len(before)], record.row)
  BY <1>4, <1>6 DEF CoversAlert, Row
<1> HIDE DEF record
<1>9. /\ report \o before \in Seq(Fresh) /\ NoRecords(report \o before)
      /\ Len(report \o before) = Len(report) + Len(before) /\ Len(report) \in Nat
      /\ \A i \in 1 .. Len(before) : (report \o before)[Len(report) + i] = before[i]
  <2>1. Len(report) \in Nat
    BY <1>1
  <2>2. report \o before \in Seq(Fresh) /\ NoRecords(report \o before)
    BY <1>1, <1>6, NoRecordsConcat
  <2> QED BY <1>1, <1>6, <2>1, <2>2, Behind
<1>10. /\ \E j \in 1 .. Len(report \o before) : CoversPacket((report \o before)[j], record.row)
       /\ record.row.what = "critical" =>
            \E j \in 1 .. Len(report \o before) : CoversAlert((report \o before)[j], record.row)
  <2>1. 1 \in 1 .. Len(before) /\ Len(before) \in 1 .. Len(before)
    BY <1>6
  <2>2. Len(report) + 1 \in 1 .. Len(report \o before)
        /\ Len(report) + Len(before) \in 1 .. Len(report \o before)
    BY <1>6, <1>9
  <2> QED BY <1>7, <1>8, <1>9, <2>1, <2>2
<1>11. /\ report \o before \o <<record>> \in Seq(Fresh)
       /\ WellOrdered(report \o before \o <<record>>)
  BY <1>5, <1>9, <1>10, RecordAtEnd
<1>12. <<record>> \in Seq(Fresh)
  BY <1>5
<1>13. report \o (before \o <<record>>) = report \o before \o <<record>>
  BY <1>1, <1>6, <1>12, ConcatAssociative
<1>14. OnAccepted(findings) = before \o <<record>>
  BY <1>5 DEF OnAccepted, before, packet, events, alert
<1> QED BY <1>11, <1>13, <1>14 DEF report

-------------------------------------------------------------------------------
(* What is preserved by any step that loses no row *)

\* No row is lost, and the mission goes on.
Grows ==
  /\ mission' = mission
  /\ \A b \in Table : /\ db[b] \subseteq db'[b]
                      /\ failed[b] \subseteq failed'[b]
                      /\ tx[b] \union db[b] \union failed[b]
                           \subseteq tx'[b] \union db'[b] \union failed'[b]

\* Only the call of thread t goes on.
OnlyCall(t) == \A u \in Thread : u # t => todo'[u] = todo[u]

(***************************************************************************)
(* What is kept stays kept.                                                *)
(***************************************************************************)
LEMMA KeptGrows ==
  ASSUME Grows
  PROVE  /\ \A b \in Table : \A r : Kept(b, r) => Kept(b, r)'
         /\ \A r : AlertKept(r) => AlertKept(r)'
         /\ \A r : EventLogged(r) => EventLogged(r)'
<1>1. \A b \in Table : \A r : Kept(b, r) => Kept(b, r)'
  BY DEF Grows, Kept
<1>2. \A r : AlertKept(r) => AlertKept(r)'
  BY DEF Grows, AlertKept, Table
<1>3. \A r : EventLogged(r) => EventLogged(r)'
  BY <1>1 DEF EventLogged, Table
<1> QED BY <1>1, <1>2, <1>3

\* An insert under way stays where it should be when rows are added.
LEMMA ProgressGrows ==
  ASSUME Grows, NEW op \in Op, IsInsert(op), Progress(op)
  PROVE  Progress(op)'
<1>1. op.tables \in TableList
  BY DEF Op, IsInsert, EmitOp, InsertOp
<1>2. Head(op.tables) \in Table
  BY <1>1 DEF TableList, Table
<1> QED BY <1>2 DEF Grows, Progress, Table

\* An insert that becomes the first operation is not under way yet.
LEMMA FreshProgress ==
  ASSUME NEW op \in Fresh, IsInsert(op)
  PROVE  Progress(op)' /\ Progress(op)
<1>1. /\ op.row.n = 0
      /\ op.tables \in {<<"telemetry">>, <<"packets">>}
      /\ op.do = "insert"
  BY DEF Fresh, IsInsert, EmitOp, PlainOp
<1>2. op.tables # <<"security_events">>
  BY <1>1
<1> QED BY <1>1, <1>2 DEF Progress

(***************************************************************************)
(* The mirror keeps following the events if the thread that goes on is     *)
(* where it should be.                                                     *)
(***************************************************************************)
LEMMA EventsStep ==
  ASSUME CallsOK, EventsFollow, Grows, NEW t \in Thread, OnlyCall(t),
         (todo[t] # << >> /\ IsInsert(todo[t][1]) => Progress(todo[t][1]))',
         tx'["security_events"] \union db'["security_events"]
           \subseteq db'["events"] \union failed'["events"]
  PROVE  EventsFollow'
<1>1. ASSUME NEW u \in Thread, todo'[u] # << >>, IsInsert(todo'[u][1]), u # t
      PROVE  Progress(todo[u][1])'
  <2>1. todo'[u] = todo[u]
    BY <1>1 DEF OnlyCall
  <2>2. PICK op : op = todo[u][1]
    OBVIOUS
  <2>3. op \in Op /\ IsInsert(op) /\ Progress(op)
    BY <1>1, <2>1, <2>2 DEF CallsOK, EventsFollow
  <2>4. Progress(op)'
    BY <2>3, ProgressGrows
  <2> QED BY <2>1, <2>2, <2>4
<1> QED BY <1>1 DEF EventsFollow

(***************************************************************************)
(* The calls that do not go on keep their records behind what these depend *)
(* on.                                                                     *)
(***************************************************************************)
LEMMA ReadyGrows ==
  ASSUME Grows, NEW s, NEW i, RecordReady(s, i)
  PROVE  RecordReady(s, i)'
<1>1. "packets" \in Table
  BY DEF Table
<1>2. \A op, r : CoversAlert(op, r) => CoversAlert(op, r)'
  BY DEF CoversAlert, Grows
<1>3. \A op, r : CoversPacket(op, r) => CoversPacket(op, r)'
  BY DEF CoversPacket, PacketOf
<1> QED BY <1>1, <1>2, <1>3, KeptGrows DEF RecordReady

\* An event stays logged, or being recorded, if the thread that goes on sees to its own.
LEMMA HistoryStep ==
  ASSUME Logging, Grows, bus' = bus, NEW t \in Thread, OnlyCall(t),
         \A e \in bus : todo[t] # << >> /\ Head(todo[t]).do # "emit" /\ Head(todo[t]).row = e
                          => BeingRecorded(e)' \/ EventLogged(e)'
  PROVE  Logging'
<1>1. ASSUME NEW e \in bus
      PROVE  BeingRecorded(e)' \/ EventLogged(e)'
  <2>1. CASE EventLogged(e)
    BY <2>1, KeptGrows
  <2>2. CASE BeingRecorded(e)
    <3>1. PICK u \in Thread : todo[u] # << >> /\ Head(todo[u]).do # "emit" /\ Head(todo[u]).row = e
      BY <2>2 DEF BeingRecorded
    <3>2. CASE u = t
      BY <3>1, <3>2
    <3>3. CASE u # t
      BY <3>1, <3>3 DEF BeingRecorded, OnlyCall
    <3> QED BY <3>2, <3>3
  <2> QED BY <2>1, <2>2 DEF Logging
<1> QED BY <1>1 DEF Logging

(***************************************************************************)
(* A row that is not durable keeps a thread that has to commit it, if the  *)
(* thread that goes on sees to its own: it keeps it, or the row leaves the *)
(* transaction or fails.                                                   *)
(***************************************************************************)
LEMMA CommittingStep ==
  ASSUME Committing, NEW t \in Thread, OnlyCall(t),
         \A b \in Table : failed[b] \subseteq failed'[b],
         \A b \in Table : \A r \in tx'[b] \ failed'[b] :
           \/ UncommittedBy(t, b, r)'
           \/ r \in tx[b] /\ ~UncommittedBy(t, b, r)
  PROVE  Committing'
<1>1. ASSUME NEW b \in Table, NEW r \in tx'[b] \ failed'[b], ~UncommittedBy(t, b, r)'
      PROVE  \E u \in Thread : UncommittedBy(u, b, r)'
  <2>1. r \in tx[b] \ failed[b] /\ ~UncommittedBy(t, b, r)
    BY <1>1
  <2>2. PICK u \in Thread : UncommittedBy(u, b, r)
    BY <2>1 DEF Committing
  <2>3. todo'[u] = todo[u]
    BY <2>1, <2>2 DEF OnlyCall
  <2> QED BY <2>2, <2>3 DEF UncommittedBy, Does
<1> QED BY <1>1 DEF Committing

\* Records follow their packets and alerts if those of the thread that goes on do.
LEMMA RecordsStep ==
  ASSUME RecordsFollow, Grows, NEW t \in Thread, OnlyCall(t),
         \A i \in 1 .. Len(todo'[t]) : IsRecord(todo'[t][i]) => RecordReady(todo[t], i)',
         \A r \in tx'["telemetry"] \union db'["telemetry"] :
           \/ r \in tx["telemetry"] \union db["telemetry"]
           \/ Kept("packets", PacketOf(r)) /\ (r.what = "critical" => AlertKept(r))
  PROVE  RecordsFollow'
<1>1. ASSUME NEW u \in Thread, u # t, NEW i \in 1 .. Len(todo'[u]), IsRecord(todo'[u][i])
      PROVE  RecordReady(todo[u], i)'
  <2>1. todo'[u] = todo[u]
    BY <1>1 DEF OnlyCall
  <2>2. PICK s : s = todo[u]
    OBVIOUS
  <2>3. RecordReady(s, i)
    BY <1>1, <2>1, <2>2 DEF RecordsFollow
  <2>4. RecordReady(s, i)'
    BY <2>3, ReadyGrows
  <2> QED BY <2>1, <2>2, <2>4
<1>2. ASSUME NEW r \in tx'["telemetry"] \union db'["telemetry"]
      PROVE  Kept("packets", PacketOf(r))' /\ (r.what = "critical" => AlertKept(r)')
  <2>1. Kept("packets", PacketOf(r)) /\ (r.what = "critical" => AlertKept(r))
    BY DEF RecordsFollow
  <2>2. "packets" \in Table /\ PacketOf(r)' = PacketOf(r)
    BY DEF Table, PacketOf
  <2> QED BY <2>1, <2>2, KeptGrows
<1> QED BY <1>1, <1>2 DEF RecordsFollow

(***************************************************************************)
(* A call whose first operation is replaced by x, or dropped, keeps its    *)
(* records behind what they depend on if x covers what the operation did,  *)
(* or that is kept now.                                                    *)
(***************************************************************************)
LEMMA ReplaceReady ==
  ASSUME CallsOK, RecordsFollow, Grows, NEW t \in Thread, todo[t] # << >>,
         NEW x \in Op, Continue(t, <<x>>), NEW op, op = todo[t][1],
         IsRecord(x) => IsRecord(op) /\ x.row = op.row,
         \A r : CoversPacket(op, r) => CoversPacket(x, r) \/ Kept("packets", PacketOf(r))',
         \A r : CoversAlert(op, r) => CoversAlert(x, r)' \/ AlertKept(r)'
  PROVE  \A i \in 1 .. Len(todo'[t]) : IsRecord(todo'[t][i]) => RecordReady(todo[t], i)'
<1> SUFFICES ASSUME NEW i \in 1 .. Len(todo'[t]), IsRecord(todo'[t][i])
             PROVE  RecordReady(todo[t], i)'
  OBVIOUS
<1>1. /\ Len(todo'[t]) = Len(todo[t])
      /\ todo'[t][1] = x
      /\ \A j \in 2 .. Len(todo[t]) : todo'[t][j] = todo[t][j]
      /\ Len(todo[t]) \in Nat
  BY ReplaceType DEF CallsOK
<1>2. PICK r : r = todo[t][i].row
  OBVIOUS
<1>3. IsRecord(todo[t][i]) /\ r = todo'[t][i].row
  <2>1. CASE i = 1
    BY <1>1, <1>2, <2>1
  <2>2. CASE i # 1
    <3>1. i \in 2 .. Len(todo[t])
      BY <1>1, <2>2
    <3> QED BY <1>1, <1>2, <3>1
  <2> QED BY <2>1, <2>2
<1>4. RecordReady(todo[t], i)
  BY <1>1, <1>3 DEF RecordsFollow
<1>5. \A j \in 1 .. i - 1 : j = 1 \/ j \in 2 .. Len(todo[t])
  BY <1>1
<1>6. \A q, w : CoversAlert(q, w) => CoversAlert(q, w)'
  BY DEF CoversAlert, Grows
<1>7. Kept("packets", PacketOf(r))' \/ \E j \in 1 .. i - 1 : CoversPacket(todo'[t][j], r)
  <2>1. Kept("packets", PacketOf(r)) => Kept("packets", PacketOf(r))'
    <3>1. "packets" \in Table /\ PacketOf(r)' = PacketOf(r)
      BY DEF Table, PacketOf
    <3> QED BY <3>1, KeptGrows
  <2>2. ASSUME NEW j \in 1 .. i - 1, CoversPacket(todo[t][j], r)
        PROVE  Kept("packets", PacketOf(r))' \/ CoversPacket(todo'[t][j], r)
    BY <1>1, <1>5, <2>2
  <2> QED BY <1>2, <1>4, <2>1, <2>2 DEF RecordReady
<1>8. r.what = "critical" =>
        AlertKept(r)' \/ \E j \in 1 .. i - 1 : CoversAlert(todo[t][j], r)'
  <2>1. ASSUME NEW j \in 1 .. i - 1, CoversAlert(todo[t][j], r)
        PROVE  AlertKept(r)' \/ CoversAlert(todo[t][j], r)'
    <3>1. CASE j = 1
      BY <1>1, <2>1, <3>1
    <3>2. CASE j # 1
      <4>1. PICK q : q = todo[t][j]
        OBVIOUS
      <4>2. q = todo'[t][j]
        BY <1>1, <1>5, <3>2, <4>1
      <4>3. CoversAlert(q, r)'
        BY <1>6, <2>1, <4>1
      <4> QED BY <4>2, <4>3
    <3> QED BY <3>1, <3>2
  <2> QED BY <1>2, <1>4, <2>1, KeptGrows DEF RecordReady
<1>9. \A j \in 1 .. i - 1 : CoversPacket(todo'[t][j], r) => CoversPacket(todo[t][j], r)'
  BY DEF CoversPacket, PacketOf, IsInsert
<1> QED BY <1>3, <1>7, <1>8, <1>9 DEF RecordReady

\* What was dropped has kept what it covered.
LEMMA DropReady ==
  ASSUME CallsOK, RecordsFollow, Grows, NEW t \in Thread, todo[t] # << >>,
         Continue(t, << >>), NEW op, op = todo[t][1],
         \A r : CoversPacket(op, r) => Kept("packets", PacketOf(r))',
         \A r : CoversAlert(op, r) => AlertKept(r)'
  PROVE  \A i \in 1 .. Len(todo'[t]) : IsRecord(todo'[t][i]) => RecordReady(todo[t], i)'
<1> SUFFICES ASSUME NEW i \in 1 .. Len(todo'[t]), IsRecord(todo'[t][i])
             PROVE  RecordReady(todo[t], i)'
  OBVIOUS
<1>1. /\ Len(todo'[t]) = Len(todo[t]) - 1
      /\ \A j \in 1 .. Len(todo'[t]) : todo'[t][j] = todo[t][j + 1]
      /\ Len(todo[t]) \in Nat
  BY DropType DEF CallsOK
<1>2. PICK r : r = todo'[t][i].row
  OBVIOUS
<1>3. i + 1 \in 1 .. Len(todo[t]) /\ i + 1 - 1 = i
  BY <1>1
<1>4. IsRecord(todo[t][i + 1]) /\ r = todo[t][i + 1].row
  BY <1>1, <1>2
<1>5. RecordReady(todo[t], i + 1)
  BY <1>3, <1>4 DEF RecordsFollow
<1>6. /\ Kept("packets", PacketOf(r)) \/ \E j \in 1 .. i : CoversPacket(todo[t][j], r)
      /\ r.what = "critical" => AlertKept(r) \/ \E j \in 1 .. i : CoversAlert(todo[t][j], r)
  BY <1>3, <1>4, <1>5 DEF RecordReady
<1>7. ASSUME NEW j \in 1 .. i, j # 1
      PROVE  j - 1 \in 1 .. i - 1 /\ todo'[t][j - 1] = todo[t][j]
  <2>1. i \in Nat /\ i <= Len(todo'[t]) /\ Len(todo'[t]) \in Int
    BY <1>1
  <2>2. j \in Nat /\ j <= i /\ j >= 1 /\ j # 1
    BY <1>7, <2>1
  <2>3. j - 1 \in 1 .. i - 1 /\ j - 1 \in 1 .. Len(todo'[t]) /\ j - 1 + 1 = j
    BY ONLY <2>1, <2>2
  <2> QED BY <1>1, <2>3
<1>8. Kept("packets", PacketOf(r))' \/ \E j \in 1 .. i - 1 : CoversPacket(todo[t][j], r)'
  <2>1. Kept("packets", PacketOf(r)) => Kept("packets", PacketOf(r))'
    <3>1. "packets" \in Table /\ PacketOf(r)' = PacketOf(r)
      BY DEF Table, PacketOf
    <3> QED BY <3>1, KeptGrows
  <2>2. ASSUME NEW j \in 1 .. i, CoversPacket(todo[t][j], r), j # 1
        PROVE  CoversPacket(todo[t][j - 1], r)'
    BY <1>7, <2>2 DEF CoversPacket, PacketOf, IsInsert
  <2> QED BY <1>6, <1>7, <2>1, <2>2
<1>9. r.what = "critical" =>
        AlertKept(r)' \/ \E j \in 1 .. i - 1 : CoversAlert(todo[t][j], r)'
  <2>1. ASSUME NEW j \in 1 .. i, CoversAlert(todo[t][j], r), j # 1
        PROVE  CoversAlert(todo[t][j - 1], r)'
    BY <1>7, <2>1 DEF CoversAlert, IsInsert, Grows
  <2> QED BY <1>6, <1>7, <2>1, KeptGrows
<1> QED BY <1>2, <1>8, <1>9 DEF RecordReady

-------------------------------------------------------------------------------
(* Steps that begin a call, or change nothing of calls, bus and tables *)

\* What is about rows: the inductive invariant but for ControlOK.
RowsOK ==
  CallsOK /\ TablesOK /\ BusOK /\ MissionsOK /\ EventsFollow /\ RecordsFollow
    /\ Logging /\ Committing

\* A step that touches neither calls nor rows
LEMMA SameKeeps ==
  ASSUME RowsOK, UNCHANGED <<mission, bus, todo, tables>>
  PROVE  RowsOK'
<1> USE DEF RowsOK
<1>1. UNCHANGED <<mission, bus, todo, tx, db, failed>>
  BY DEF tables
<1>2. CallsOK' /\ TablesOK' /\ BusOK' /\ MissionsOK'
  BY <1>1 DEF CallsOK, TablesOK, BusOK, MissionsOK
<1>3. EventsFollow'
  BY <1>1 DEF EventsFollow, Progress
<1>4. RecordsFollow'
  <2>1. Grows /\ OnlyCall("sim") /\ "sim" \in Thread
    BY <1>1 DEF Grows, OnlyCall, Thread
  <2>2. ASSUME NEW i \in 1 .. Len(todo'["sim"]), IsRecord(todo'["sim"][i])
        PROVE  RecordReady(todo["sim"], i)'
    <3>1. PICK s : s = todo["sim"]
      OBVIOUS
    <3>2. RecordReady(s, i)
      BY <1>1, <2>1, <2>2, <3>1 DEF RecordsFollow
    <3>3. RecordReady(s, i)'
      BY <2>1, <3>2, ReadyGrows
    <3> QED BY <1>1, <3>1, <3>3
  <2>3. tx' = tx /\ db' = db
    BY <1>1
  <2> QED BY <2>1, <2>2, <2>3, RecordsStep
<1>5. Logging' /\ Committing'
  BY <1>1 DEF Logging, Committing, BeingRecorded, EventLogged, Kept, UncommittedBy, Does
<1> QED BY <1>2, <1>3, <1>4, <1>5

\* A step that begins a well-ordered call and touches no row
LEMMA BeginsKeeps ==
  ASSUME RowsOK, mission \in Nat, NEW t \in Thread, NEW s, Begins(t, s), UNCHANGED <<mission, bus, tables>>
  PROVE  RowsOK'
<1> USE DEF RowsOK
<1>1. UNCHANGED <<mission, bus, tx, db, failed>>
  BY DEF tables
<1>2. /\ CallsOK'
      /\ \A u \in Thread : todo'[u] = IF u = t THEN s ELSE todo[u]
      /\ \A i \in 1 .. Len(s) : s[i] \in Fresh
      /\ s \in Seq(Fresh)
      /\ todo[t] = << >>
  BY BeginType DEF Begins
<1>3. Grows /\ OnlyCall(t) /\ todo'[t] = s
  BY <1>1, <1>2 DEF Grows, OnlyCall
<1>4. TablesOK' /\ BusOK'
  BY <1>1 DEF TablesOK, BusOK
<1>5. MissionsOK'
  <2>1. ASSUME NEW u \in Thread, NEW i \in 1 .. Len(todo'[u]), IsInsert(todo'[u][i])
        PROVE  todo'[u][i].row.mission <= mission
    <3>1. CASE u = t
      BY <1>3, <2>1, <3>1 DEF Begins, WellOrdered
    <3>2. CASE u # t
      BY <1>3, <2>1, <3>2 DEF MissionsOK, OnlyCall
    <3> QED BY <3>1, <3>2
  <2>2. \A b \in Table : \A r \in db'[b] \union tx'[b] \union failed'[b] : r.mission <= mission'
    BY <1>1 DEF MissionsOK
  <2> QED BY <1>1, <2>1, <2>2 DEF MissionsOK, IsInsert
<1>6. EventsFollow'
  <2>1. (todo[t] # << >> /\ IsInsert(todo[t][1]) => Progress(todo[t][1]))'
    <3> SUFFICES ASSUME s # << >>, IsInsert(s[1])
                 PROVE  Progress(todo[t][1])'
      BY <1>3 DEF IsInsert
    <3>1. s[1] \in Fresh
      BY <1>2
    <3>2. PICK op : op = s[1]
      OBVIOUS
    <3>3. Progress(op)'
      BY <3>1, <3>2, FreshProgress
    <3> QED BY <1>3, <3>2, <3>3
  <2>2. tx'["security_events"] \union db'["security_events"]
          \subseteq db'["events"] \union failed'["events"]
    BY <1>1 DEF EventsFollow
  <2> QED BY <1>3, <2>1, <2>2, EventsStep
<1>7. RecordsFollow'
  <2>1. ASSUME NEW i \in 1 .. Len(todo'[t]), IsRecord(todo'[t][i])
        PROVE  RecordReady(todo[t], i)'
    <3>1. /\ \E j \in 1 .. i - 1 : CoversPacket(s[j], s[i].row)
          /\ s[i].row.what = "critical" => \E j \in 1 .. i - 1 : CoversAlert(s[j], s[i].row)
      BY <1>3, <2>1 DEF Begins, WellOrdered, IsRecord
    <3> QED BY <1>1, <1>3, <3>1
      DEF RecordReady, CoversPacket, CoversAlert, PacketOf, IsInsert
  <2>2. tx' = tx /\ db' = db
    BY <1>1
  <2> QED BY <1>3, <2>1, <2>2, RecordsStep
<1>8. Logging'
  BY <1>1, <1>2, <1>3, HistoryStep
<1>9. Committing'
  <2>1. \A b \in Table : tx'[b] = tx[b] /\ failed'[b] = failed[b]
    BY <1>1
  <2>2. \A b, r : ~UncommittedBy(t, b, r)
    BY <1>2 DEF UncommittedBy, Does
  <2> QED BY <1>3, <2>1, <2>2, CommittingStep
<1> QED BY <1>2, <1>4, <1>5, <1>6, <1>7, <1>8, <1>9

-------------------------------------------------------------------------------
(* Steps of a thread *)

\* The first operation of a call
LEMMA HeadOp ==
  ASSUME CallsOK, NEW t \in Thread, todo[t] # << >>
  PROVE  Head(todo[t]) = todo[t][1] /\ todo[t][1] \in Op /\ Len(todo[t]) \in Nat \ {0}
BY DEF CallsOK

(***************************************************************************)
(* Missions of the rows, when a thread replaces its operation by one with  *)
(* a row of this mission or an earlier one, or drops it.                   *)
(***************************************************************************)
LEMMA ReplaceMissions ==
  ASSUME CallsOK, MissionsOK, NEW t \in Thread, todo[t] # << >>, NEW x \in Op, mission' = mission,
         Continue(t, <<x>>), IsInsert(x) => x.row.mission <= mission
  PROVE  \A u \in Thread : \A i \in 1 .. Len(todo'[u]) :
           IsInsert(todo'[u][i]) => todo'[u][i].row.mission <= mission'
<1>1. /\ \A u \in Thread : u # t => todo'[u] = todo[u]
      /\ Len(todo'[t]) = Len(todo[t])
      /\ todo'[t][1] = x
      /\ \A i \in 2 .. Len(todo[t]) : todo'[t][i] = todo[t][i]
      /\ Len(todo[t]) \in Nat
  BY ReplaceType DEF CallsOK
<1>2. ASSUME NEW i \in 1 .. Len(todo'[t]), IsInsert(todo'[t][i])
      PROVE  todo'[t][i].row.mission <= mission
  <2>1. i = 1 \/ i \in 2 .. Len(todo[t])
    BY <1>1
  <2>2. i \in 1 .. Len(todo[t])
    BY <1>1
  <2> QED BY <1>1, <1>2, <2>1, <2>2 DEF MissionsOK
<1> QED BY <1>1, <1>2 DEF MissionsOK

\* The same when the operation is dropped
LEMMA DropMissions ==
  ASSUME CallsOK, MissionsOK, NEW t \in Thread, todo[t] # << >>, mission' = mission,
         Continue(t, << >>)
  PROVE  \A u \in Thread : \A i \in 1 .. Len(todo'[u]) :
           IsInsert(todo'[u][i]) => todo'[u][i].row.mission <= mission'
<1>1. /\ \A u \in Thread : u # t => todo'[u] = todo[u]
      /\ Len(todo'[t]) = Len(todo[t]) - 1
      /\ \A i \in 1 .. Len(todo'[t]) : todo'[t][i] = todo[t][i + 1]
      /\ Len(todo[t]) \in Nat
  BY DropType DEF CallsOK
<1>2. \A i \in 1 .. Len(todo'[t]) : i + 1 \in 1 .. Len(todo[t])
  BY <1>1
<1>3. ASSUME NEW u \in Thread, NEW i \in 1 .. Len(todo'[u]), IsInsert(todo'[u][i])
      PROVE  todo'[u][i].row.mission <= mission
  <2>1. CASE u = t
    <3>1. i + 1 \in 1 .. Len(todo[t]) /\ todo'[t][i] = todo[t][i + 1]
      BY <1>1, <1>2, <2>1
    <3> QED BY <1>3, <2>1, <3>1 DEF MissionsOK
  <2>2. CASE u # t
    BY <1>1, <1>3, <2>2 DEF MissionsOK
  <2> QED BY <2>1, <2>2
<1> QED BY <1>3

(***************************************************************************)
(* EventBus.emit: the event is on the bus, and its insert is next.         *)
(***************************************************************************)
LEMMA EmitEventKeeps ==
  ASSUME RowsOK, mission \in Nat, NEW t \in Thread, EmitEvent(t)
  PROVE  RowsOK'
<1> USE DEF RowsOK
<1>1. PICK op : op = todo[t][1]
  OBVIOUS
<1>2. /\ todo[t] # << >> /\ op = Head(todo[t]) /\ op \in EmitOp
      /\ op.do = "emit" /\ op.frame \in Nat /\ op.what \in What
  <2>1. todo[t] # << >> /\ op = Head(todo[t]) /\ op \in Op /\ op.do = "emit"
    BY <1>1, HeadOp DEF EmitEvent, Does
  <2>2. op \in EmitOp
    BY <2>1 DEF Op, InsertOp
  <2> QED BY <2>1, <2>2 DEF EmitOp
<1>3. PICK row : row = Row(Cardinality(bus) + 1, op.frame, op.what)
  OBVIOUS
<1>4. PICK x : x = [do |-> "insert", tables |-> TablesOf(op.what), row |-> row]
  OBVIOUS
<1>5. /\ bus' = bus \union {row}
      /\ Continue(t, <<x>>)
      /\ UNCHANGED <<mission, tx, db, failed>>
  BY <1>2, <1>3, <1>4 DEF EmitEvent, tables
<1>6. Cardinality(bus) + 1 \in Nat /\ Cardinality(bus) + 1 # 0
  BY FS_CardinalityType DEF BusOK
<1>7. row \in RowSet /\ row.n # 0 /\ row.mission = mission /\ row.frame = op.frame
      /\ row.what = op.what
  BY <1>2, <1>3, <1>6 DEF Row, RowSet
<1>8. x \in Op /\ IsInsert(x) /\ x.row = row /\ x.do = "insert" /\ x.tables = TablesOf(op.what)
  <2>1. TablesOf(op.what) \in TableList
    BY DEF TablesOf, TableList
  <2> QED BY <1>4, <1>7, <2>1 DEF Op, InsertOp, IsInsert
<1>9. Grows /\ OnlyCall(t) /\ CallsOK' /\ todo'[t] # << >> /\ todo'[t][1] = x
  <2>1. CallsOK' /\ todo'[t] # << >> /\ todo'[t][1] = x /\ OnlyCall(t)
    BY <1>2, <1>5, <1>8, ReplaceType DEF OnlyCall
  <2> QED BY <1>5, <2>1 DEF Grows
<1>10. TablesOK'
  BY <1>5 DEF TablesOK
<1>11. BusOK'
  <2>1. IsFiniteSet(bus \union {row})
    BY FS_AddElement DEF BusOK
  <2> QED BY <1>5, <1>7, <2>1 DEF BusOK
<1>12. MissionsOK'
  <2>1. IsInsert(x) => x.row.mission <= mission
    BY <1>7, <1>8
  <2>2. \A u \in Thread : \A i \in 1 .. Len(todo'[u]) :
          IsInsert(todo'[u][i]) => todo'[u][i].row.mission <= mission'
    BY <1>2, <1>5, <1>8, <2>1, ReplaceMissions
  <2>3. \A b \in Table : \A r \in db'[b] \union tx'[b] \union failed'[b] : r.mission <= mission'
    BY <1>5 DEF MissionsOK
  <2> QED BY <2>2, <2>3 DEF MissionsOK, IsInsert
<1>13. EventsFollow'
  <2>1. Progress(x)'
    BY <1>7, <1>8 DEF Progress, TablesOf
  <2>2. (todo[t] # << >> /\ IsInsert(todo[t][1]) => Progress(todo[t][1]))'
    BY <1>9, <2>1
  <2>3. tx'["security_events"] \union db'["security_events"]
          \subseteq db'["events"] \union failed'["events"]
    BY <1>5 DEF EventsFollow
  <2> QED BY <1>9, <2>2, <2>3, EventsStep
<1>14. RecordsFollow'
  <2>1. ~IsRecord(x)
    BY <1>8 DEF IsRecord, TablesOf
  <2>2. \A r : ~CoversPacket(op, r)
    BY <1>2 DEF CoversPacket, IsInsert
  <2>3. ASSUME NEW r, CoversAlert(op, r)
        PROVE  CoversAlert(x, r)'
    <3>1. op.what = "SECURITY_ALERT" /\ op.frame = r.frame /\ mission = r.mission
      BY <1>2, <2>3 DEF CoversAlert, IsInsert
    <3>2. x.tables = <<"events", "security_events">>
      BY <1>8, <3>1 DEF TablesOf, SecurityEventTypes
    <3> QED BY <1>7, <1>8, <3>1, <3>2 DEF CoversAlert, IsInsert
  <2>4. \A i \in 1 .. Len(todo'[t]) : IsRecord(todo'[t][i]) => RecordReady(todo[t], i)'
    BY <1>1, <1>2, <1>5, <1>8, <1>9, <2>1, <2>2, <2>3, ReplaceReady
  <2>5. tx' = tx /\ db' = db
    BY <1>5
  <2> QED BY <1>9, <2>4, <2>5, RecordsStep
<1>15. Logging'
  <2>1. ASSUME NEW e \in bus
        PROVE  BeingRecorded(e)' \/ EventLogged(e)'
    <3>1. CASE EventLogged(e)
      BY <1>9, <3>1, KeptGrows
    <3>2. CASE BeingRecorded(e)
      <4>1. PICK u \in Thread :
              todo[u] # << >> /\ Head(todo[u]).do # "emit" /\ Head(todo[u]).row = e
        BY <3>2 DEF BeingRecorded
      <4>2. u # t
        BY <1>2, <4>1
      <4> QED BY <1>9, <4>1, <4>2 DEF BeingRecorded, OnlyCall
    <3> QED BY <3>1, <3>2 DEF Logging
  <2>2. BeingRecorded(row)'
    <3>1. Head(todo'[t]) = x
      BY <1>9 DEF CallsOK
    <3> QED BY <1>8, <1>9, <3>1 DEF BeingRecorded
  <2> QED BY <1>5, <2>1, <2>2 DEF Logging
<1>16. Committing'
  <2>1. \A b \in Table : tx'[b] = tx[b] /\ failed'[b] = failed[b]
    BY <1>5
  <2>2. \A b, r : ~UncommittedBy(t, b, r)
    BY <1>2 DEF UncommittedBy, Does
  <2> QED BY <1>9, <2>1, <2>2, CommittingStep
<1> QED BY <1>9, <1>10, <1>11, <1>12, <1>13, <1>14, <1>15, <1>16

(***************************************************************************)
(* The tables an insert writes                                             *)
(***************************************************************************)
LEMMA TablesOfInsert ==
  ASSUME NEW b \in TableList
  PROVE  /\ Head(b) \in Table
         /\ Head(b) = "security_events" => b = <<"security_events">>
         /\ Head(b) = "telemetry" => b = <<"telemetry">>
         /\ b = <<"packets">> => Head(b) = "packets" /\ "packets" \in Range(b)
         /\ b = <<"events">> => Head(b) = "events" /\ "events" \in Range(b)
         /\ b = <<"security_events">> => Head(b) = "security_events"
                                           /\ "security_events" \in Range(b)
         /\ b = <<"events", "security_events">> =>
              /\ Head(b) = "events" /\ Len(b) # 1 /\ Tail(b) = <<"security_events">>
              /\ "events" \in Range(b) /\ "security_events" \in Range(b)
         /\ Len(b) # 1 => b = <<"events", "security_events">>
<1>1. CASE b \in {<<"telemetry">>, <<"packets">>, <<"events">>, <<"security_events">>}
  <2>1. PICK c : b = <<c>> /\ c \in Table
    BY <1>1 DEF Table
  <2>2. Head(b) = c /\ Len(b) = 1 /\ 1 \in DOMAIN b /\ b[1] = c
    BY <2>1
  <2>3. c \in Range(b)
    BY <2>2 DEF Range
  <2>4. b # <<"events", "security_events">>
    BY <2>1
  <2> QED BY <1>1, <2>1, <2>2, <2>3, <2>4
<1>2. CASE b = <<"events", "security_events">>
  <2>1. /\ Head(b) = "events" /\ Len(b) = 2 /\ Tail(b) = <<"security_events">>
        /\ 1 \in DOMAIN b /\ 2 \in DOMAIN b /\ b[1] = "events" /\ b[2] = "security_events"
    BY <1>2
  <2>2. "events" \in Range(b) /\ "security_events" \in Range(b)
    BY <2>1 DEF Range
  <2>3. "events" \in Table
    BY DEF Table
  <2>4. b # <<"packets">> /\ b # <<"events">> /\ b # <<"security_events">>
    BY <1>2
  <2> QED BY <1>2, <2>1, <2>2, <2>3, <2>4
<1> QED BY <1>1, <1>2 DEF TableList

\* The table an insert writes next is one of its tables.
LEMMA HeadInRange ==
  ASSUME NEW b \in TableList
  PROVE  Head(b) \in Range(b)
<1>1. 1 \in DOMAIN b /\ Head(b) = b[1]
  BY DEF TableList
<1> QED BY <1>1 DEF Range

\* An insert that is the first operation of a call is where it should be.
LEMMA InsertHead ==
  ASSUME CallsOK, EventsFollow, MissionsOK, NEW t \in Thread, todo[t] # << >>,
         NEW op, op = todo[t][1], Head(todo[t]).do \in {"insert", "commit"}
  PROVE  /\ op = Head(todo[t]) /\ op \in InsertOp /\ op \in Op /\ IsInsert(op) /\ Progress(op)
         /\ op.tables \in TableList /\ op.row \in RowSet /\ op.row.mission <= mission
         /\ 1 \in 1 .. Len(todo[t])
<1>1. op = Head(todo[t]) /\ op \in Op /\ 1 \in 1 .. Len(todo[t])
  BY HeadOp
<1>2. op \in InsertOp /\ IsInsert(op)
  BY <1>1 DEF Op, EmitOp, IsInsert
<1> QED BY <1>1, <1>2 DEF InsertOp, EventsFollow, MissionsOK

(***************************************************************************)
(* execute: the row is in the transaction, its commit is next.             *)
(***************************************************************************)
LEMMA ExecuteKeeps ==
  ASSUME RowsOK, mission \in Nat, NEW t \in Thread, Execute(t)
  PROVE  RowsOK'
<1> USE DEF RowsOK
<1>1. PICK op : op = todo[t][1]
  OBVIOUS
<1>2. /\ todo[t] # << >> /\ op = Head(todo[t]) /\ op \in InsertOp /\ op \in Op /\ IsInsert(op)
      /\ Progress(op) /\ op.tables \in TableList /\ op.row \in RowSet
      /\ op.row.mission <= mission /\ 1 \in 1 .. Len(todo[t])
  BY <1>1, InsertHead DEF Execute, Does
<1>3. PICK x : x = [op EXCEPT !.do = "commit"]
  OBVIOUS
<1>4. x \in Op /\ IsInsert(x) /\ x.row = op.row /\ x.tables = op.tables /\ x.do = "commit"
  BY <1>2, <1>3 DEF InsertOp, Op, IsInsert
<1>5. PICK c : c = Head(op.tables)
  OBVIOUS
<1>6. c \in Table
  BY <1>2, <1>5, TablesOfInsert
<1>7. /\ tx' = [tx EXCEPT ![c] = @ \union {op.row}]
      /\ Continue(t, <<x>>)
      /\ UNCHANGED <<mission, bus, db, failed>>
  BY <1>2, <1>3, <1>5 DEF Execute, memory
<1>8. \A b \in Table : tx'[b] = IF b = c THEN tx[b] \union {op.row} ELSE tx[b]
  BY <1>7 DEF TablesOK
<1>9. Grows /\ OnlyCall(t) /\ CallsOK' /\ todo'[t] # << >> /\ todo'[t][1] = x
  <2>1. CallsOK' /\ todo'[t] # << >> /\ todo'[t][1] = x /\ OnlyCall(t)
    BY <1>2, <1>4, <1>7, ReplaceType DEF OnlyCall
  <2> QED BY <1>7, <1>8, <2>1 DEF Grows
<1>10. TablesOK' /\ BusOK'
  BY <1>2, <1>6, <1>7 DEF TablesOK, BusOK
<1>11. MissionsOK'
  <2>1. \A u \in Thread : \A i \in 1 .. Len(todo'[u]) :
          IsInsert(todo'[u][i]) => todo'[u][i].row.mission <= mission'
    BY <1>2, <1>4, <1>7, ReplaceMissions
  <2>2. \A b \in Table : \A r \in db'[b] \union tx'[b] \union failed'[b] : r.mission <= mission'
    BY <1>2, <1>7, <1>8 DEF MissionsOK
  <2> QED BY <2>1, <2>2 DEF MissionsOK, IsInsert
<1>12. EventsFollow'
  <2>1. Progress(op)'
    BY <1>2, <1>9, ProgressGrows
  <2>2. Progress(x)'
    <3>1. x.row \in tx'[Head(x.tables)]
      BY <1>4, <1>5, <1>6, <1>8
    <3> QED BY <1>4, <2>1, <3>1 DEF Progress
  <2>3. (todo[t] # << >> /\ IsInsert(todo[t][1]) => Progress(todo[t][1]))'
    BY <1>9, <2>2
  <2>4. tx'["security_events"] \union db'["security_events"]
          \subseteq db'["events"] \union failed'["events"]
    <3>1. c = "security_events" => op.row \in db["events"] \union failed["events"]
      BY <1>2, <1>5, TablesOfInsert DEF Progress
    <3>2. "security_events" \in Table
      BY DEF Table
    <3> QED BY <1>7, <1>8, <3>1, <3>2 DEF EventsFollow
  <2> QED BY <1>9, <2>3, <2>4, EventsStep
<1>13. RecordsFollow'
  <2>1. IsRecord(x) => IsRecord(op) /\ x.row = op.row
    BY <1>2, <1>4 DEF IsRecord
  <2>2. \A r : CoversPacket(op, r) => CoversPacket(x, r)
    BY <1>4 DEF CoversPacket
  <2>3. \A r : CoversAlert(op, r) => CoversAlert(x, r)'
    BY <1>2, <1>4 DEF CoversAlert, IsInsert
  <2>4. \A i \in 1 .. Len(todo'[t]) : IsRecord(todo'[t][i]) => RecordReady(todo[t], i)'
    BY <1>1, <1>2, <1>4, <1>7, <1>9, <2>1, <2>2, <2>3, ReplaceReady
  <2>5. ASSUME c = "telemetry"
        PROVE  Kept("packets", PacketOf(op.row)) /\ (op.row.what = "critical" => AlertKept(op.row))
    <3>1. IsRecord(op)
      BY <1>2, <1>5, <2>5, TablesOfInsert DEF IsRecord
    <3>2. RecordReady(todo[t], 1)
      BY <1>1, <1>2, <3>1 DEF RecordsFollow
    <3>3. \A j \in 1 .. 1 - 1 : FALSE
      OBVIOUS
    <3> QED BY <1>1, <3>2, <3>3 DEF RecordReady
  <2>6. "telemetry" \in Table
    BY DEF Table
  <2>7. \A r \in tx'["telemetry"] \union db'["telemetry"] :
          \/ r \in tx["telemetry"] \union db["telemetry"]
          \/ Kept("packets", PacketOf(r)) /\ (r.what = "critical" => AlertKept(r))
    BY <1>7, <1>8, <2>5, <2>6
  <2> QED BY <1>9, <2>4, <2>7, RecordsStep
<1>14. Logging'
  <2>1. Head(todo'[t]) = x
    BY <1>9 DEF CallsOK
  <2>2. BeingRecorded(op.row)'
    BY <1>4, <1>9, <2>1 DEF BeingRecorded, IsInsert
  <2>3. \A e \in bus : todo[t] # << >> /\ Head(todo[t]).do # "emit" /\ Head(todo[t]).row = e
          => BeingRecorded(e)' \/ EventLogged(e)'
    BY <1>2, <2>2
  <2> QED BY <1>7, <1>9, <2>3, HistoryStep
<1>15. Committing'
  <2>1. Head(todo'[t]) = x
    BY <1>9 DEF CallsOK
  <2>2. UncommittedBy(t, c, op.row)'
    BY <1>4, <1>5, <1>9, <2>1 DEF UncommittedBy, Does
  <2>3. \A b, r : ~UncommittedBy(t, b, r)
    BY DEF UncommittedBy, Execute, Does
  <2>4. \A b \in Table : \A r \in tx'[b] : r \in tx[b] \/ (b = c /\ r = op.row)
    BY <1>8
  <2>5. \A b \in Table : failed'[b] = failed[b]
    BY <1>7
  <2> QED BY <1>9, <2>2, <2>3, <2>4, <2>5, CommittingStep
<1> QED BY <1>9, <1>10, <1>11, <1>12, <1>13, <1>14, <1>15

(***************************************************************************)
(* A thread whose first operation has kept its row, wherever it still had  *)
(* to write it, drops the operation.                                       *)
(***************************************************************************)
LEMMA DropKeeps ==
  ASSUME RowsOK, NEW t \in Thread, todo[t] # << >>, Continue(t, << >>), Grows, bus' = bus,
         NEW op, op = todo[t][1], op \in Op, IsInsert(op), Progress(op),
         op.tables = <<"packets">> => Kept("packets", op.row)',
         op.tables \in {<<"events">>, <<"events", "security_events">>} => Kept("events", op.row)',
         op.tables \in {<<"security_events">>, <<"events", "security_events">>} =>
           Kept("security_events", op.row)',
         tx'["security_events"] \union db'["security_events"]
           \subseteq db'["events"] \union failed'["events"],
         tx'["telemetry"] \union db'["telemetry"] \subseteq tx["telemetry"] \union db["telemetry"]
  PROVE  CallsOK' /\ EventsFollow' /\ RecordsFollow' /\ Logging'
<1> USE DEF RowsOK
<1>1. /\ CallsOK' /\ OnlyCall(t)
      /\ \A i \in 1 .. Len(todo'[t]) : todo'[t][i] \in Fresh
  BY DropType DEF OnlyCall
<1>2. EventsFollow'
  <2>1. ASSUME todo'[t] # << >>, IsInsert(todo'[t][1])
        PROVE  Progress(todo[t][1])'
    <3>1. PICK x : x = todo'[t][1]
      OBVIOUS
    <3>2. 1 \in 1 .. Len(todo'[t])
      BY <1>1, <2>1 DEF CallsOK
    <3>3. x \in Fresh
      BY <1>1, <3>1, <3>2
    <3>4. Progress(x)'
      BY <2>1, <3>1, <3>3, FreshProgress
    <3> QED BY <3>1, <3>4
  <2>2. (todo[t] # << >> /\ IsInsert(todo[t][1]) => Progress(todo[t][1]))'
    BY <2>1 DEF IsInsert
  <2> QED BY <1>1, <2>2, EventsStep
<1>3. RecordsFollow'
  <2>1. \A r : CoversPacket(op, r) => Kept("packets", PacketOf(r))'
    BY DEF CoversPacket, Kept, PacketOf
  <2>2. ASSUME NEW r, CoversAlert(op, r)
        PROVE  AlertKept(r)'
    <3>1. Kept("security_events", op.row)' /\ op.row.what = "SECURITY_ALERT"
          /\ op.row.frame = r.frame /\ op.row.mission = r.mission
      BY <2>2 DEF CoversAlert, IsInsert
    <3> QED BY <3>1 DEF Kept, AlertKept
  <2>3. \A i \in 1 .. Len(todo'[t]) : IsRecord(todo'[t][i]) => RecordReady(todo[t], i)'
    BY <2>1, <2>2, DropReady
  <2>4. \A r \in tx'["telemetry"] \union db'["telemetry"] :
          \/ r \in tx["telemetry"] \union db["telemetry"]
          \/ Kept("packets", PacketOf(r)) /\ (r.what = "critical" => AlertKept(r))
    OBVIOUS
  <2> QED BY <1>1, <2>3, <2>4, RecordsStep
<1>4. Logging'
  <2>1. ASSUME NEW e \in bus, op.row = e
        PROVE  EventLogged(e)'
    <3>1. e.n # 0
      BY DEF BusOK
    <3>2. CASE op.tables = <<"events">>
      <4>1. e.what \notin SecurityEventTypes
        BY <2>1, <3>1, <3>2 DEF Progress
      <4> QED BY <2>1, <3>2, <4>1 DEF EventLogged
    <3>3. CASE op.tables = <<"security_events">>
      <4>1. Kept("events", e)'
        <5>1. e \in db["events"] \union failed["events"] /\ "events" \in Table
          BY <2>1, <3>3 DEF Progress, Table
        <5> QED BY <5>1 DEF Kept, Grows
      <4> QED BY <2>1, <3>3, <4>1 DEF EventLogged
    <3>4. CASE op.tables = <<"events", "security_events">>
      BY <2>1, <3>4 DEF EventLogged
    <3> QED BY <2>1, <3>1, <3>2, <3>3, <3>4 DEF Progress
  <2>2. Head(todo[t]) = op
    BY HeadOp
  <2> QED BY <1>1, <2>1, <2>2, HistoryStep
<1> QED BY <1>1, <1>2, <1>3, <1>4

(***************************************************************************)
(* commit: what all threads have executed is durable, and the thread goes  *)
(* on to the mirror, or drops the insert.                                  *)
(***************************************************************************)
LEMMA CommitKeeps ==
  ASSUME RowsOK, mission \in Nat, NEW t \in Thread, Commit(t)
  PROVE  RowsOK'
<1> USE DEF RowsOK
<1>1. PICK op : op = todo[t][1]
  OBVIOUS
<1>2. /\ todo[t] # << >> /\ op = Head(todo[t]) /\ op \in InsertOp /\ op \in Op /\ IsInsert(op)
      /\ Progress(op) /\ op.tables \in TableList /\ op.row \in RowSet
      /\ op.row.mission <= mission /\ op.do = "commit"
  BY <1>1, InsertHead DEF Commit, Does
<1>3. /\ \A b \in Table : db'[b] = db[b] \union tx[b] /\ tx'[b] = {}
      /\ Continue(t, Rest(op))
      /\ UNCHANGED <<mission, bus, failed>>
  BY <1>2 DEF Commit, NoRows, memory
<1>4. Grows
  BY <1>3 DEF Grows
<1>5. TablesOK' /\ BusOK'
  <2>1. tx' \in [Table -> SUBSET RowSet] /\ db' \in [Table -> SUBSET RowSet]
    BY DEF Commit, NoRows, TablesOK
  <2> QED BY <1>3, <2>1 DEF TablesOK, BusOK
<1>6. \A b \in Table : \A r \in db'[b] \union tx'[b] \union failed'[b] : r.mission <= mission'
  BY <1>3 DEF MissionsOK
<1>7. tx'["security_events"] \union db'["security_events"]
        \subseteq db'["events"] \union failed'["events"]
  BY <1>3 DEF EventsFollow, Table
<1>8. tx'["telemetry"] \union db'["telemetry"] \subseteq tx["telemetry"] \union db["telemetry"]
  BY <1>3 DEF Table
<1>9. /\ Head(op.tables) \in Table
      /\ op.row \in db'[Head(op.tables)] \union failed'[Head(op.tables)]
  BY <1>2, <1>3, TablesOfInsert DEF Progress
<1>12. Committing'
  BY <1>3 DEF Committing
<1>10. CASE Len(op.tables) = 1
  <2>1. Continue(t, << >>)
    BY <1>3, <1>10 DEF Rest
  <2>2. op.tables # <<"events", "security_events">>
    BY <1>10
  <2>3. op.tables = <<"packets">> => Kept("packets", op.row)'
    BY <1>2, <1>9, TablesOfInsert DEF Kept
  <2>4. op.tables = <<"events">> => Kept("events", op.row)'
    BY <1>2, <1>9, TablesOfInsert DEF Kept
  <2>5. op.tables = <<"security_events">> => Kept("security_events", op.row)'
    BY <1>2, <1>9, TablesOfInsert DEF Kept
  <2>6. CallsOK' /\ EventsFollow' /\ RecordsFollow' /\ Logging'
    BY <1>1, <1>2, <1>3, <1>4, <1>7, <1>8, <2>1, <2>2, <2>3, <2>4, <2>5, DropKeeps
  <2>7. MissionsOK'
    <3>1. \A u \in Thread : \A i \in 1 .. Len(todo'[u]) :
            IsInsert(todo'[u][i]) => todo'[u][i].row.mission <= mission'
      BY <1>2, <1>3, <2>1, DropMissions
    <3> QED BY <1>6, <3>1 DEF MissionsOK, IsInsert
  <2> QED BY <1>5, <1>12, <2>6, <2>7
<1>11. CASE Len(op.tables) # 1
  <2>1. PICK x : x = [op EXCEPT !.do = "insert", !.tables = Tail(@)]
    OBVIOUS
  <2>2. op.tables = <<"events", "security_events">> /\ Tail(op.tables) = <<"security_events">>
        /\ Head(op.tables) = "events"
    BY <1>2, <1>11, TablesOfInsert
  <2>3. /\ x \in Op /\ IsInsert(x) /\ x.row = op.row /\ x.do = "insert"
        /\ x.tables = <<"security_events">>
    <3>1. x = [do |-> "insert", tables |-> <<"security_events">>, row |-> op.row]
      BY <1>2, <2>1, <2>2 DEF InsertOp
    <3> QED BY <1>2, <3>1 DEF Op, InsertOp, IsInsert, TableList
  <2>4. Continue(t, <<x>>)
    BY <1>3, <1>11, <2>1 DEF Rest
  <2>5. CallsOK' /\ todo'[t] # << >> /\ todo'[t][1] = x /\ OnlyCall(t)
    BY <1>2, <2>3, <2>4, ReplaceType DEF OnlyCall
  <2>6. MissionsOK'
    <3>1. \A u \in Thread : \A i \in 1 .. Len(todo'[u]) :
            IsInsert(todo'[u][i]) => todo'[u][i].row.mission <= mission'
      BY <1>2, <1>3, <2>3, <2>4, ReplaceMissions
    <3> QED BY <1>6, <3>1 DEF MissionsOK, IsInsert
  <2>7. EventsFollow'
    <3>1. Progress(x)'
      BY <1>9, <2>2, <2>3 DEF Progress
    <3>2. (todo[t] # << >> /\ IsInsert(todo[t][1]) => Progress(todo[t][1]))'
      BY <2>5, <3>1
    <3> QED BY <1>4, <1>7, <2>5, <3>2, EventsStep
  <2>8. RecordsFollow'
    <3>1. ~IsRecord(x)
      BY <2>3 DEF IsRecord
    <3>2. \A r : ~CoversPacket(op, r)
      BY <2>2 DEF CoversPacket
    <3>3. \A r : CoversAlert(op, r) => CoversAlert(x, r)'
      BY <1>2, <2>3 DEF CoversAlert, IsInsert
    <3>4. \A i \in 1 .. Len(todo'[t]) : IsRecord(todo'[t][i]) => RecordReady(todo[t], i)'
      BY <1>1, <1>2, <1>4, <2>3, <2>4, <3>1, <3>2, <3>3, ReplaceReady
    <3>5. \A r \in tx'["telemetry"] \union db'["telemetry"] :
            \/ r \in tx["telemetry"] \union db["telemetry"]
            \/ Kept("packets", PacketOf(r)) /\ (r.what = "critical" => AlertKept(r))
      BY <1>8
    <3> QED BY <1>4, <2>5, <3>4, <3>5, RecordsStep
  <2>9. Logging'
    <3>1. Head(todo'[t]) = x
      BY <2>5 DEF CallsOK
    <3>2. BeingRecorded(op.row)'
      BY <2>3, <2>5, <3>1 DEF BeingRecorded
    <3>3. \A e \in bus : todo[t] # << >> /\ Head(todo[t]).do # "emit" /\ Head(todo[t]).row = e
            => BeingRecorded(e)' \/ EventLogged(e)'
      BY <1>2, <3>2
    <3> QED BY <1>3, <1>4, <2>5, <3>3, HistoryStep
  <2> QED BY <1>5, <1>12, <2>5, <2>6, <2>7, <2>8, <2>9
<1> QED BY <1>10, <1>11

(***************************************************************************)
(* An insert that raises: its row has failed for every table it still had  *)
(* to be written to, and the rows of the transaction with it, if that is   *)
(* rolled back.                                                            *)
(***************************************************************************)
LEMMA RaiseRows ==
  ASSUME TablesOK, NEW t \in Thread, Raise(t), NEW op, op = Head(todo[t]), op.row \in RowSet
  PROVE  /\ Continue(t, << >>)
         /\ UNCHANGED <<mission, memory, db>>
         /\ \A b \in Table : /\ failed[b] \subseteq failed'[b]
                             /\ failed'[b] \subseteq failed[b] \union tx[b] \union Skipped(op)[b]
                             /\ Skipped(op)[b] \subseteq failed'[b]
                             /\ tx'[b] \subseteq tx[b]
                             /\ tx[b] \subseteq tx'[b] \union failed'[b]
         /\ TablesOK'
<1>1. PICK skipped : skipped = Skipped(op)
  OBVIOUS
<1>2. skipped \in [Table -> SUBSET RowSet]
  BY <1>1 DEF Skipped
<1>3. /\ Continue(t, << >>)
      /\ UNCHANGED <<mission, memory, db>>
      /\ \/ failed' = [b \in Table |-> failed[b] \union skipped[b]] /\ tx' = tx
         \/ failed' = [b \in Table |-> failed[b] \union skipped[b] \union tx[b]] /\ tx' = NoRows
  BY <1>1 DEF Raise
<1>4. CASE failed' = [b \in Table |-> failed[b] \union skipped[b]] /\ tx' = tx
  <2>1. \A b \in Table : failed'[b] = failed[b] \union skipped[b]
    BY <1>4
  <2>2. TablesOK'
    BY <1>2, <1>3, <1>4 DEF TablesOK
  <2> QED BY <1>1, <1>3, <1>4, <2>1, <2>2
<1>5. CASE failed' = [b \in Table |-> failed[b] \union skipped[b] \union tx[b]] /\ tx' = NoRows
  <2>1. \A b \in Table : failed'[b] = failed[b] \union skipped[b] \union tx[b] /\ tx'[b] = {}
    BY <1>5 DEF NoRows
  <2>2. TablesOK'
    BY <1>2, <1>3, <1>5 DEF TablesOK, NoRows
  <2> QED BY <1>1, <1>3, <2>1, <2>2
<1> QED BY <1>3, <1>4, <1>5

\* What the rows of the transaction and the calls depend on is kept.
LEMMA RaiseKeeps ==
  ASSUME RowsOK, mission \in Nat, NEW t \in Thread, Raise(t)
  PROVE  RowsOK'
<1> USE DEF RowsOK
<1>1. PICK op : op = todo[t][1]
  OBVIOUS
<1>2. /\ todo[t] # << >> /\ op = Head(todo[t]) /\ op \in InsertOp /\ op \in Op /\ IsInsert(op)
      /\ Progress(op) /\ op.tables \in TableList /\ op.row \in RowSet
      /\ op.row.mission <= mission
  BY <1>1, InsertHead DEF Raise
<1>3. Continue(t, << >>) /\ UNCHANGED <<mission, bus, db>> /\ TablesOK'
  BY <1>2, RaiseRows DEF memory
<1>4. \A b \in Table : /\ failed[b] \subseteq failed'[b]
                       /\ failed'[b] \subseteq failed[b] \union tx[b] \union {op.row}
                       /\ b \in Range(op.tables) => op.row \in failed'[b]
                       /\ tx'[b] \subseteq tx[b]
                       /\ tx[b] \subseteq tx'[b] \union failed'[b]
  BY <1>2, RaiseRows DEF Skipped
<1>5. Grows
  BY <1>3, <1>4 DEF Grows
<1>6. BusOK'
  BY <1>3 DEF BusOK
<1>7. \A b \in Table : b \in Range(op.tables) => Kept(b, op.row)'
  BY <1>4 DEF Kept
<1>8. CallsOK' /\ EventsFollow' /\ RecordsFollow' /\ Logging'
  <2>1. op.tables = <<"packets">> => Kept("packets", op.row)'
    BY <1>2, <1>7, TablesOfInsert DEF Table
  <2>2. op.tables \in {<<"events">>, <<"events", "security_events">>} => Kept("events", op.row)'
    BY <1>2, <1>7, TablesOfInsert DEF Table
  <2>3. op.tables \in {<<"security_events">>, <<"events", "security_events">>} =>
          Kept("security_events", op.row)'
    BY <1>2, <1>7, TablesOfInsert DEF Table
  <2>4. tx'["security_events"] \union db'["security_events"]
          \subseteq db'["events"] \union failed'["events"]
    BY <1>3, <1>4 DEF EventsFollow, Table
  <2>5. tx'["telemetry"] \union db'["telemetry"] \subseteq tx["telemetry"] \union db["telemetry"]
    BY <1>3, <1>4 DEF Table
  <2> QED BY <1>1, <1>2, <1>3, <1>5, <2>1, <2>2, <2>3, <2>4, <2>5, DropKeeps
<1>9. MissionsOK'
  <2>1. \A u \in Thread : \A i \in 1 .. Len(todo'[u]) :
          IsInsert(todo'[u][i]) => todo'[u][i].row.mission <= mission'
    BY <1>2, <1>3, DropMissions
  <2>2. \A b \in Table : \A r \in db'[b] \union tx'[b] \union failed'[b] : r.mission <= mission'
    BY <1>2, <1>3, <1>4 DEF MissionsOK
  <2> QED BY <2>1, <2>2 DEF MissionsOK, IsInsert
<1>10. Committing'
  <2>1. Head(op.tables) \in Range(op.tables)
    BY <1>2, HeadInRange
  <2>2. \A b \in Table : \A r : UncommittedBy(t, b, r) => r \in failed'[b]
    BY <1>2, <1>4, <2>1 DEF UncommittedBy
  <2>3. OnlyCall(t)
    BY <1>2, <1>3, DropType DEF OnlyCall
  <2> QED BY <1>4, <2>2, <2>3, CommittingStep
<1> QED BY <1>3, <1>6, <1>8, <1>9, <1>10

-------------------------------------------------------------------------------
(* A process that starts *)

\* A process starts with the event it emits, and no insert.
LEMMA StartType ==
  ASSUME NEW f, f = [t \in Thread |-> IF t = "sim" THEN Startup ELSE << >>]
  PROVE  /\ f \in [Thread -> Seq(Op)]
         /\ \A t \in Thread : \A i \in 1 .. Len(f[t]) : f[t][i] \in EmitOp
<1>1. [do |-> "emit", frame |-> 0, what |-> "SYSTEM_BOOT"] \in EmitOp
  BY DEF EmitOp, What
<1>2. Startup \in Seq(EmitOp) /\ << >> \in Seq(EmitOp)
  BY <1>1 DEF Startup, EmitAbout
<1>3. \A t \in Thread : f[t] \in Seq(EmitOp)
  BY <1>2
<1>4. Seq(EmitOp) \subseteq Seq(Op)
  BY SeqMonotonic DEF Op
<1>5. f \in [Thread -> Seq(Op)]
  BY <1>3, <1>4
<1>6. \A t \in Thread : \A i \in 1 .. Len(f[t]) : f[t][i] \in EmitOp
  BY <1>3, ElementOfSeq
<1> QED BY <1>5, <1>6

\* A process that is started again knows no event, and finds the durable rows.
LEMMA RestartKeeps ==
  ASSUME RowsOK, mission \in Nat, Restart
  PROVE  RowsOK'
<1> USE DEF RowsOK
<1>1. /\ todo' \in [Thread -> Seq(Op)]
      /\ \A t \in Thread : \A i \in 1 .. Len(todo'[t]) : todo'[t][i] \in EmitOp
  BY StartType DEF Restart
<1>2. /\ mission' = mission + 1 /\ bus' = {} /\ db' = db /\ failed' = failed
      /\ \A b \in Table : tx'[b] = {}
      /\ tx' \in [Table -> SUBSET RowSet]
  BY DEF Restart, NoRows
<1>3. \A t \in Thread : \A i \in 1 .. Len(todo'[t]) : ~IsInsert(todo'[t][i])
  BY <1>1 DEF EmitOp, IsInsert
<1>4. CallsOK'
  <2>1. \A t \in Thread : \A i \in 2 .. Len(todo'[t]) : i \in 1 .. Len(todo'[t])
    OBVIOUS
  <2>2. \A t \in Thread : \A i \in 2 .. Len(todo'[t]) : todo'[t][i] \in Fresh
    BY <1>1, <2>1 DEF Fresh
  <2> QED BY <1>1, <2>2 DEF CallsOK, Op
<1>5. TablesOK'
  BY <1>2 DEF TablesOK
<1>6. BusOK'
  BY <1>2, FS_EmptySet DEF BusOK
<1>7. MissionsOK'
  <2>1. \A b \in Table : \A r \in db[b] \union failed[b] : r.mission <= mission + 1
    <3> SUFFICES ASSUME NEW b \in Table, NEW r \in db[b] \union failed[b]
                 PROVE  r.mission <= mission + 1
      OBVIOUS
    <3>1. r.mission <= mission /\ r.mission \in Nat
      BY DEF MissionsOK, TablesOK, RowSet
    <3> QED BY <3>1
  <2> QED BY <1>2, <1>3, <2>1 DEF MissionsOK, IsInsert
<1>8. EventsFollow'
  <2>1. \A t \in Thread : todo'[t] # << >> => 1 \in 1 .. Len(todo'[t])
    BY <1>1
  <2>2. \A t \in Thread : todo'[t] # << >> => ~IsInsert(todo'[t][1])
    BY <1>3, <2>1
  <2>3. tx'["security_events"] = {}
    BY <1>2 DEF Table
  <2> QED BY <1>2, <2>2, <2>3 DEF EventsFollow, IsInsert
<1>9. RecordsFollow'
  <2>1. tx'["telemetry"] = {}
    BY <1>2 DEF Table
  <2>2. \A r \in db["telemetry"] :
          Kept("packets", PacketOf(r)) /\ (r.what = "critical" => AlertKept(r))
    BY DEF RecordsFollow
  <2>3. ASSUME NEW r \in db["telemetry"]
        PROVE  Kept("packets", PacketOf(r))' /\ (r.what = "critical" => AlertKept(r)')
    BY <1>2, <2>2 DEF Kept, AlertKept, PacketOf
  <2> QED BY <1>2, <1>3, <2>1, <2>3 DEF RecordsFollow, IsRecord, IsInsert
<1>10. Logging' /\ Committing'
  BY <1>2 DEF Logging, Committing
<1> QED BY <1>4, <1>5, <1>6, <1>7, <1>8, <1>9, <1>10

-------------------------------------------------------------------------------
(* Frames *)

\* The handler has kept the control state well formed, and begun a call.
Handled ==
  /\ counts' \in [Counter -> Nat]
  /\ validator' \in Validator
  /\ current' = NoRecord \/ current'.anomalies \subseteq Rule
  /\ \E q : Begins("sim", q)

\* The counters stay natural numbers.
LEMMA TalliedType ==
  ASSUME counts \in [Counter -> Nat], validator \in Validator, NEW s \in SequenceNumber,
         NEW counter \in Counter
  PROVE  Tallied(s, counter) \in [Counter -> Nat]
<1>1. Missing(validator, s) \in Nat
  BY ValidatorType, SequenceAssumption
<1> QED BY <1>1 DEF Tallied, Counter

\* A record of the sensors with its time, and the findings about it.
LEMMA AcceptedType ==
  ASSUME NEW reading \in Readings, NEW s, NEW findings
  PROVE  [[reading EXCEPT !.time = s] EXCEPT !.anomalies = findings].anomalies = findings
<1>1. reading \in [time : Nat, temperature : Int, battery : Int, cpu : Int, position : Int,
                   velocity : Nat, anomalies : {{}}]
  BY ReadingsAssumption
<1> QED BY <1>1

\* Frames the receiver rejects
LEMMA RejectHandled ==
  ASSUME counts \in [Counter -> Nat], validator \in Validator, mission \in Nat,
         current = NoRecord, todo["sim"] = << >>, RejectMalformed \/ RejectCorrupted
  PROVE  Handled
<1>1. counts["received"] \in Nat
  BY DEF Counter
<1>2. counts' \in [Counter -> Nat] /\ validator' = validator /\ current' = NoRecord
  BY DEF RejectMalformed, RejectCorrupted, Counter
<1>3. CASE RejectMalformed
  <2>1. Emit("INVALID_PACKET") \in Seq(Fresh) /\ NoRecords(Emit("INVALID_PACKET"))
    BY <1>1, EmitOrdered DEF What
  <2>2. Begins("sim", Emit("INVALID_PACKET"))
    BY <1>3, <2>1, NoRecordsOrdered DEF Begins, RejectMalformed
  <2> QED BY <1>2, <2>2 DEF Handled
<1>4. CASE RejectCorrupted
  <2>1. PICK q : q = Emit("CRC_FAILURE") \o Insert("packets", "CRC_FAILURE")
    OBVIOUS
  <2>2. "CRC_FAILURE" \in What
    BY DEF What
  <2>3. q \in Seq(Fresh) /\ NoRecords(q)
    BY <1>1, <2>1, <2>2, EmitOrdered, PacketOrdered, NoRecordsConcat
  <2>4. Begins("sim", q)
    BY <1>4, <2>1, <2>3, NoRecordsOrdered DEF Begins, RejectCorrupted
  <2> QED BY <1>2, <2>4 DEF Handled
<1> QED BY <1>3, <1>4

\* Frames the CRC lets through
LEMMA DecodeHandled ==
  ASSUME counts \in [Counter -> Nat], validator \in Validator, mission \in Nat,
         current = NoRecord, todo["sim"] = << >>, NEW s \in SequenceNumber,
         RejectUndecodable(s) \/ DecoderRaises(s) \/ \E reading \in Readings : AcceptRecord(s, reading)
  PROVE  Handled
<1>1. counts["received"] \in Nat
  BY DEF Counter
<1>2. counts' \in [Counter -> Nat] /\ validator' \in Validator
  <2>1. "rejected" \in Counter /\ "accepted" \in Counter /\ "raised" \in Counter
    BY DEF Counter
  <2>2. counts' \in [Counter -> Nat]
    <3>1. /\ Tallied(s, "rejected") \in [Counter -> Nat]
          /\ Tallied(s, "accepted") \in [Counter -> Nat]
          /\ Tallied(s, "raised") \in [Counter -> Nat]
      BY <2>1, TalliedType
    <3>2. counts' \in {Tallied(s, "rejected"), Tallied(s, "accepted"), Tallied(s, "raised")}
      BY DEF RejectUndecodable, DecoderRaises, AcceptRecord
    <3> QED BY <3>1, <3>2
  <2>3. Validated(validator, s) \in Validator
    BY ValidatorType, SequenceAssumption
  <2> QED BY <2>2, <2>3 DEF RejectUndecodable, DecoderRaises, AcceptRecord
<1>3. CASE RejectUndecodable(s)
  <2>1. PICK q : q = ReportMissing(s) \o Emit("INVALID_PACKET") \o Insert("packets", "DECODE_FAILED")
    OBVIOUS
  <2>2. "INVALID_PACKET" \in What /\ "DECODE_FAILED" \in What
    BY DEF What
  <2>3. /\ ReportMissing(s) \o Emit("INVALID_PACKET") \in Seq(Fresh)
        /\ NoRecords(ReportMissing(s) \o Emit("INVALID_PACKET"))
    BY <1>1, <2>2, ReportOrdered, EmitOrdered, NoRecordsConcat
  <2>4. q \in Seq(Fresh) /\ NoRecords(q)
    BY <1>1, <2>1, <2>2, <2>3, PacketOrdered, NoRecordsConcat
  <2>5. Begins("sim", q)
    BY <1>3, <2>1, <2>4, NoRecordsOrdered DEF Begins, RejectUndecodable
  <2> QED BY <1>2, <1>3, <2>5 DEF Handled, RejectUndecodable
<1>4. CASE DecoderRaises(s)
  <2>1. ReportMissing(s) \in Seq(Fresh) /\ NoRecords(ReportMissing(s))
    BY <1>1, ReportOrdered
  <2>2. Begins("sim", ReportMissing(s))
    BY <1>4, <2>1, NoRecordsOrdered DEF Begins, DecoderRaises
  <2> QED BY <1>2, <1>4, <2>2 DEF Handled, DecoderRaises
<1>5. CASE \E reading \in Readings : AcceptRecord(s, reading)
  <2>1. PICK reading \in Readings : AcceptRecord(s, reading)
    BY <1>5
  <2>2. PICK findings : findings = Findings([reading EXCEPT !.time = s])
    OBVIOUS
  <2>3. findings \in SUBSET Rule
    BY <2>2 DEF Findings, DetectAnomalies, AbsoluteFindings, RateFindings
  <2>4. current'.anomalies = findings
    <3>1. current' = [[reading EXCEPT !.time = s] EXCEPT !.anomalies = findings]
      BY <2>1, <2>2 DEF AcceptRecord
    <3> QED BY <3>1, AcceptedType
  <2>5. Begins("sim", ReportMissing(s) \o OnAccepted(findings))
    <3>1. todo' = [todo EXCEPT !["sim"] = ReportMissing(s) \o OnAccepted(findings)]
      BY <2>1, <2>2 DEF AcceptRecord
    <3> QED BY <1>1, <2>3, <3>1, AcceptedOrdered DEF Begins
  <2> QED BY <1>2, <2>3, <2>4, <2>5 DEF Handled
<1> QED BY <1>3, <1>4, <1>5

\* on_downlink keeps rows and control state well formed.
LEMMA DownlinkKeeps ==
  ASSUME RowsOK, ControlOK, NEW sent \in SequenceNumber, OnDownlink(sent)
  PROVE  RowsOK' /\ ControlOK'
<1>1. /\ todo["sim"] = << >> /\ current = NoRecord
      /\ used.inputs < MaxInputs
      /\ used' = [used EXCEPT !.inputs = @ + 1]
      /\ heard' = heard \union {sent}
      /\ UNCHANGED <<mission, previous, contact, bus, tables>>
  BY DEF OnDownlink, Arrives, Idle
<1>2. counts \in [Counter -> Nat] /\ validator \in Validator /\ mission \in Nat
  BY DEF ControlOK
<1>3. \/ RejectMalformed \/ RejectCorrupted
      \/ \E s \in SequenceNumber :
           RejectUndecodable(s) \/ DecoderRaises(s) \/ \E reading \in Readings : AcceptRecord(s, reading)
  BY DEF OnDownlink
<1>4. Handled
  BY <1>1, <1>2, <1>3, RejectHandled, DecodeHandled
<1>5. RowsOK'
  <2>1. PICK q : Begins("sim", q)
    BY <1>4 DEF Handled
  <2>2. "sim" \in Thread
    BY DEF Thread
  <2> QED BY <1>1, <1>2, <2>1, <2>2, BeginsKeeps
<1>6. ControlOK'
  <2>1. used' \in [inputs : 0 .. MaxInputs, failures : Nat] /\ used'.inputs = used.inputs + 1
    BY <1>1, BoundsAssumption DEF ControlOK
  <2> QED BY <1>1, <1>4, <2>1 DEF ControlOK, Handled
<1> QED BY <1>5, <1>6

-------------------------------------------------------------------------------
(* Theorems *)

(***************************************************************************)
(* Every step keeps the inductive invariant: one step of the proof for     *)
(* each action of Next.                                                    *)
(***************************************************************************)
LEMMA Inductive ==
  ASSUME RowsOK, ControlOK, [Next]_vars
  PROVE  RowsOK' /\ ControlOK'
<1> USE DEF ControlOK
<1>1. mission \in Nat
  OBVIOUS
<1>2. ASSUME NEW s \in SequenceNumber, OnDownlink(s)
      PROVE  RowsOK' /\ ControlOK'
  BY <1>2, DownlinkKeeps
<1>3. CASE Remember
  <2>1. UNCHANGED <<mission, counts, validator, heard, contact, bus, todo, tables, used>>
        /\ previous' = current /\ current' = NoRecord
    BY <1>3 DEF Remember
  <2>2. RowsOK'
    BY <2>1, SameKeeps
  <2>3. ControlOK'
    BY <2>1
  <2> QED BY <2>2, <2>3
<1>4. ASSUME NEW visible \in BOOLEAN, UpdateContact(visible)
      PROVE  RowsOK' /\ ControlOK'
  <2>1. PICK what : what = IF visible THEN "GROUND_CONTACT_STARTED" ELSE "GROUND_CONTACT_LOST"
    OBVIOUS
  <2>2. what \in What
    BY <2>1 DEF What
  <2>3. PICK q : /\ q \in {EmitAbout(0, what), << >>}
                 /\ todo' = [todo EXCEPT !["sim"] = q]
    BY <1>4, <2>1 DEF UpdateContact
  <2>4. << >> \in Seq(Fresh) /\ NoRecords(<< >>)
    BY DEF NoRecords
  <2>5. EmitAbout(0, what) \in Seq(Fresh) /\ NoRecords(EmitAbout(0, what))
    <3>1. counts["received"] \in Nat
      BY DEF Counter
    <3> QED BY <2>2, <3>1, EmitOrdered
  <2>6. Begins("sim", q) /\ "sim" \in Thread
    BY <1>4, <2>3, <2>4, <2>5, NoRecordsOrdered DEF Begins, UpdateContact, Idle, Thread
  <2>7. RowsOK'
    BY <1>1, <1>4, <2>6, BeginsKeeps DEF UpdateContact
  <2>8. ControlOK'
    BY <1>4, BoundsAssumption DEF UpdateContact
  <2> QED BY <2>7, <2>8
<1>5. ASSUME NEW t \in ApiThreads,
             NEW what \in {"TELECOMMAND_RECEIVED", "REPLAY_ATTACK_DETECTED"}, Request(t, what)
      PROVE  RowsOK' /\ ControlOK'
  <2>1. EmitAbout(0, what) \in Seq(Fresh) /\ NoRecords(EmitAbout(0, what))
    <3>1. counts["received"] \in Nat /\ what \in What
      BY DEF Counter, What
    <3> QED BY <3>1, EmitOrdered
  <2>2. Begins(t, EmitAbout(0, what)) /\ t \in Thread
    BY <1>5, <2>1, NoRecordsOrdered DEF Begins, Request, Thread
  <2>3. UNCHANGED <<mission, counts, validator, heard, current, previous, contact, bus, tables>>
        /\ used' = [used EXCEPT !.inputs = @ + 1] /\ used.inputs < MaxInputs
    BY <1>5 DEF Request, memory
  <2>4. RowsOK'
    BY <1>1, <2>2, <2>3, BeginsKeeps
  <2>5. ControlOK'
    BY <2>3, BoundsAssumption
  <2> QED BY <2>4, <2>5
<1>6. ASSUME NEW t \in Thread, ThreadStep(t)
      PROVE  RowsOK' /\ ControlOK'
  <2>1. RowsOK'
    BY <1>1, <1>6, EmitEventKeeps, ExecuteKeeps, CommitKeeps, RaiseKeeps DEF ThreadStep
  <2>2. UNCHANGED <<mission, counts, validator, heard, current, previous, contact>>
    BY <1>6 DEF ThreadStep, EmitEvent, Execute, Commit, Raise, memory
  <2>3. used' = used \/ used' = [used EXCEPT !.failures = @ + 1]
    BY <1>6 DEF ThreadStep, EmitEvent, Execute, Commit, Raise
  <2>4. ControlOK'
    BY <2>2, <2>3
  <2> QED BY <2>1, <2>4
<1>7. CASE Restart
  <2>1. RowsOK'
    BY <1>1, <1>7, RestartKeeps
  <2>2. counts' \in [Counter -> Nat] /\ validator' \in Validator
    BY <1>7 DEF Restart, Validator, NewValidator
  <2>3. ControlOK'
    BY <1>7, <2>2, BoundsAssumption DEF Restart
  <2> QED BY <2>1, <2>3
<1>8. CASE UNCHANGED vars
  <2>1. UNCHANGED <<mission, counts, validator, heard, current, previous, contact, bus, todo,
                    tables, used>>
    BY <1>8 DEF vars, memory
  <2>2. RowsOK'
    BY <2>1, SameKeeps
  <2> QED BY <2>1, <2>2
<1> QED BY <1>2, <1>3, <1>4, <1>5, <1>6, <1>7, <1>8 DEF Next

\* A fresh database satisfies the inductive invariant.
LEMMA Initially ==
  ASSUME Init
  PROVE  RowsOK /\ ControlOK
<1>1. /\ todo \in [Thread -> Seq(Op)]
      /\ \A t \in Thread : \A i \in 1 .. Len(todo[t]) : todo[t][i] \in EmitOp
  BY StartType DEF Init
<1>2. \A t \in Thread : \A i \in 1 .. Len(todo[t]) : ~IsInsert(todo[t][i])
  BY <1>1 DEF EmitOp, IsInsert
<1>3. \A b \in Table : tx[b] = {} /\ db[b] = {} /\ failed[b] = {}
  BY DEF Init, NoRows
<1>4. CallsOK
  <2>1. \A t \in Thread : \A i \in 2 .. Len(todo[t]) : i \in 1 .. Len(todo[t])
    OBVIOUS
  <2>2. \A t \in Thread : \A i \in 2 .. Len(todo[t]) : todo[t][i] \in Fresh
    BY <1>1, <2>1 DEF Fresh
  <2> QED BY <1>1, <2>2 DEF CallsOK, Op
<1>5. TablesOK
  BY DEF Init, NoRows, TablesOK
<1>6. BusOK
  BY FS_EmptySet DEF Init, BusOK
<1>7. MissionsOK
  BY <1>2, <1>3 DEF MissionsOK
<1>8. EventsFollow
  <2>1. \A t \in Thread : todo[t] # << >> => 1 \in 1 .. Len(todo[t])
    BY <1>1
  <2>2. \A t \in Thread : todo[t] # << >> => ~IsInsert(todo[t][1])
    BY <1>2, <2>1
  <2> QED BY <1>3, <2>2 DEF EventsFollow, Table
<1>9. RecordsFollow
  BY <1>2, <1>3 DEF RecordsFollow, IsRecord, Table
<1>10. Logging /\ Committing
  BY <1>3 DEF Init, Logging, Committing
<1>11. ControlOK
  BY BoundsAssumption DEF Init, ControlOK, Validator, NewValidator
<1> QED BY <1>4, <1>5, <1>6, <1>7, <1>8, <1>9, <1>10, <1>11 DEF RowsOK

(***************************************************************************)
(* The inductive invariant holds in every reachable state.                 *)
(***************************************************************************)
THEOREM Invariance == Spec => []IInv
<1>1. Init => RowsOK /\ ControlOK
  BY Initially
<1>2. (RowsOK /\ ControlOK) /\ [Next]_vars => (RowsOK /\ ControlOK)'
  BY Inductive
<1>3. RowsOK /\ ControlOK => IInv
  BY DEF RowsOK, IInv, TypeInv
<1> QED BY <1>1, <1>2, <1>3, PTL DEF Spec

(***************************************************************************)
(* TypeOK of the ground station: control state, calls of which only the    *)
(* first operation is under way, and rows of no later mission.             *)
(***************************************************************************)
THEOREM TypeCorrectness == Spec => []TypeOK
<1>1. IInv => TypeOK
  <2> SUFFICES ASSUME IInv PROVE TypeOK
    OBVIOUS
  <2>1. mission \in 1 .. MaxInputs + 1
    BY BoundsAssumption DEF IInv, TypeInv, ControlOK
  <2>2. \A t \in Thread : \A i \in 1 .. Len(todo[t]) : todo[t][i].do = "commit" => i = 1
    <3>1. \A op \in Fresh : op.do # "commit"
      BY DEF Fresh, EmitOp, PlainOp
    <3>2. \A t \in Thread : \A i \in 1 .. Len(todo[t]) : i = 1 \/ i \in 2 .. Len(todo[t])
      OBVIOUS
    <3> QED BY <3>1, <3>2 DEF IInv, TypeInv, CallsOK
  <2>3. \A rows \in {tx, db, failed} : DOMAIN rows = Table
    BY DEF IInv, TypeInv, TablesOK
  <2> QED BY <2>1, <2>2, <2>3 DEF IInv, TypeInv, ControlOK, MissionsOK, TypeOK
<1> QED BY <1>1, Invariance, PTL

(***************************************************************************)
(* HistoryIsLogged, the claim of README.md:87 as far as it holds: an event *)
(* is logged, being recorded, or lost to an insert that raised, and what   *)
(* such an insert can take from other threads is executed and uncommitted. *)
(***************************************************************************)
THEOREM EventsAreLogged == Spec => []HistoryIsLogged
<1>1. IInv => HistoryIsLogged
  BY DEF IInv, Logging, Committing, EventLogged, UncommittedBy, HistoryIsLogged, Uncommitted
<1> QED BY <1>1, Invariance, PTL

(***************************************************************************)
(* TablesAreConsistent: the order of the inserts makes the tables explain  *)
(* one another after a stop at any moment.                                 *)
(***************************************************************************)
THEOREM TablesExplainOneAnother == Spec => []TablesAreConsistent
<1>1. IInv => TablesAreConsistent
  BY DEF IInv, EventsFollow, RecordsFollow, TablesAreConsistent, PacketOf, AlertKept
<1> QED BY <1>1, Invariance, PTL
-------------------------------------------------------------------------------
(* The account of rows and counters *)

\* The tables on_downlink writes itself
Plain == {"packets", "telemetry"}

ContactEvent == {"GROUND_CONTACT_STARTED", "GROUND_CONTACT_LOST"}

\* The rows a call will still insert into the table
RowsOf(q, b) == {q[i].row : i \in {j \in 1 .. Len(q) : IsInsert(q[j]) /\ q[j].tables = <<b>>}}

\* The rows the table has, and those it will get from on_downlink
Held(b) == db[b] \union failed[b] \union RowsOf(todo["sim"], b)

Ours(b) == {r \in Held(b) : r.mission = mission}

Due(b, what) == {r \in Ours(b) : r.what = what}

\* A row that was executed is one of those; and frames are numbered as they come.
RowsCounted ==
  \A b \in Plain :
    /\ tx[b] \subseteq Held(b)
    /\ IsFiniteSet(Ours(b))
    /\ \A r \in Ours(b) : r.frame <= counts["received"]

Announces(q, what) == \E i \in 1 .. Len(q) : q[i].do = "emit" /\ q[i].what = what

\* The events of a kind on the bus, and the one update_contact has yet to emit
Announced(what) ==
  Cardinality({e \in bus : e.what = what}) + (IF Announces(todo["sim"], what) THEN 1 ELSE 0)

\* Only the simulation thread handles frames and contact.
OnlySim ==
  \A t \in Thread \ {"sim"} :
    /\ \A b \in Plain : RowsOf(todo[t], b) = {}
    /\ \A what \in ContactEvent : ~Announces(todo[t], what)

ContactCounted ==
  /\ \A e \in bus : e.n <= Cardinality(bus)
  /\ \A what \in ContactEvent : Announces(todo["sim"], what) => Len(todo["sim"]) = 1
  /\ Announced("GROUND_CONTACT_STARTED") - Announced("GROUND_CONTACT_LOST")
       = IF contact = "yes" THEN 1 ELSE 0

FramesCounted ==
  /\ counts["accepted"] = Cardinality(Due("packets", "ACCEPTED"))
  /\ counts["accepted"] = Cardinality(Due("telemetry", "harmless"))
                            + Cardinality(Due("telemetry", "critical"))
  /\ counts["corrupted"] = Cardinality(Due("packets", "CRC_FAILURE"))
  /\ counts["received"] = counts["accepted"] + counts["rejected"] + counts["raised"]

Accounts == OnlySim /\ RowsCounted /\ FramesCounted /\ ContactCounted

(***************************************************************************)
(* The rows and events of calls                                            *)
(***************************************************************************)
LEMMA RowsOfConcat ==
  ASSUME NEW a \in Seq(Fresh), NEW b \in Seq(Fresh)
  PROVE  /\ a \o b \in Seq(Fresh)
         /\ \A c : RowsOf(a \o b, c) = RowsOf(a, c) \union RowsOf(b, c)
         /\ \A w : Announces(a \o b, w) => Announces(a, w) \/ Announces(b, w)
<1>1. PICK s : s = a \o b
  OBVIOUS
<1>2. /\ s \in Seq(Fresh) /\ Len(s) = Len(a) + Len(b)
      /\ \A i \in 1 .. Len(a) : s[i] = a[i]
      /\ \A i \in 1 .. Len(b) : s[Len(a) + i] = b[i]
      /\ Len(a) \in Nat /\ Len(b) \in Nat
  BY <1>1, Behind
<1>3. ASSUME NEW i \in 1 .. Len(s)
      PROVE  \/ i \in 1 .. Len(a) /\ s[i] = a[i]
             \/ \E j \in 1 .. Len(b) : s[i] = b[j]
  <2>1. CASE i <= Len(a)
    BY <1>2, <2>1
  <2>2. CASE ~(i <= Len(a))
    <3>1. i - Len(a) \in 1 .. Len(b) /\ Len(a) + (i - Len(a)) = i
      BY <1>2, <2>2
    <3>2. s[Len(a) + (i - Len(a))] = b[i - Len(a)]
      BY <1>2, <3>1
    <3> QED BY <3>1, <3>2
  <2> QED BY <2>1, <2>2
<1>4. /\ \A i \in 1 .. Len(a) : i \in 1 .. Len(s)
      /\ \A i \in 1 .. Len(b) : Len(a) + i \in 1 .. Len(s)
  BY <1>2
<1>5. \A c : RowsOf(s, c) \subseteq RowsOf(a, c) \union RowsOf(b, c)
  BY <1>3 DEF RowsOf
<1>6. \A c : RowsOf(a, c) \subseteq RowsOf(s, c)
  BY <1>2, <1>4 DEF RowsOf
<1>7. \A c : RowsOf(b, c) \subseteq RowsOf(s, c)
  <2> SUFFICES ASSUME NEW c, NEW j \in 1 .. Len(b), IsInsert(b[j]), b[j].tables = <<c>>
               PROVE  b[j].row \in RowsOf(s, c)
    BY DEF RowsOf
  <2>1. PICK i \in 1 .. Len(s) : s[i] = b[j]
    BY <1>2, <1>4
  <2> QED BY <2>1 DEF RowsOf
<1>8. \A w : Announces(s, w) => Announces(a, w) \/ Announces(b, w)
  BY <1>3 DEF Announces
<1> QED BY <1>1, <1>2, <1>5, <1>6, <1>7, <1>8

\* Nothing to do
LEMMA NothingToDo ==
  /\ << >> \in Seq(Fresh)
  /\ \A c : RowsOf(<< >>, c) = {}
  /\ \A what : ~Announces(<< >>, what)
BY DEF RowsOf, Announces

\* Events alone insert nothing.
LEMMA EventsInsertNothing ==
  ASSUME NEW q \in Seq(EmitOp), NEW c
  PROVE  q \in Seq(Fresh) /\ RowsOf(q, c) = {}
<1>1. \A i \in 1 .. Len(q) : q[i] \in EmitOp
  BY ElementOfSeq
<1>2. \A op \in EmitOp : ~IsInsert(op)
  BY DEF EmitOp, IsInsert
<1> QED BY <1>1, <1>2, FreshSeq DEF RowsOf

\* A single event
LEMMA OneEvent ==
  ASSUME counts["received"] \in Nat, NEW what \in What
  PROVE  /\ Emit(what) \in Seq(Fresh) /\ EmitAbout(0, what) \in Seq(Fresh)
         /\ \A c : RowsOf(Emit(what), c) = {} /\ RowsOf(EmitAbout(0, what), c) = {}
         /\ \A w : Announces(Emit(what), w) => w = what
         /\ \A w : Announces(EmitAbout(0, what), w) <=> w = what
         /\ Len(EmitAbout(0, what)) = 1
<1>1. /\ Emit(what) \in Seq(EmitOp) /\ Len(Emit(what)) = 1
      /\ Emit(what)[1] = [do |-> "emit", frame |-> counts["received"] + 1, what |-> what]
      /\ EmitAbout(0, what) \in Seq(EmitOp)
  BY EmitType
<1>2. /\ Len(EmitAbout(0, what)) = 1
      /\ EmitAbout(0, what)[1] = [do |-> "emit", frame |-> 0, what |-> what]
  BY DEF EmitAbout
<1>3. \A w : Announces(EmitAbout(0, what), w) <=> w = what
  <2>1. 1 \in 1 .. Len(EmitAbout(0, what)) /\ \A i \in 1 .. Len(EmitAbout(0, what)) : i = 1
    BY <1>2
  <2> QED BY <1>2, <2>1 DEF Announces
<1>4. \A w : Announces(Emit(what), w) => w = what
  <2>1. \A i \in 1 .. Len(Emit(what)) : i = 1
    BY <1>1
  <2> QED BY <1>1, <2>1 DEF Announces
<1> QED BY <1>1, <1>2, <1>3, <1>4, EventsInsertNothing

\* A single insert
LEMMA OneInsert ==
  ASSUME counts["received"] \in Nat, mission \in Nat, NEW table \in Plain, NEW what \in What
  PROVE  /\ Insert(table, what) \in Seq(Fresh)
         /\ \A c \in Plain : RowsOf(Insert(table, what), c) =
              IF c = table THEN {Row(0, counts["received"] + 1, what)} ELSE {}
         /\ \A w : ~Announces(Insert(table, what), w)
<1>1. PICK q : q = Insert(table, what)
  OBVIOUS
<1>2. PICK row : row = Row(0, counts["received"] + 1, what)
  OBVIOUS
<1>3. /\ q \in Seq(PlainOp)
      /\ q[1] = [do |-> "insert", tables |-> <<table>>, row |-> row]
      /\ Len(q) = 1
  BY <1>1, <1>2, InsertType DEF Plain
<1>4. 1 \in 1 .. Len(q) /\ \A i \in 1 .. Len(q) : i = 1
  BY <1>3
<1>5. IsInsert(q[1]) /\ q[1].tables = <<table>> /\ q[1].row = row
  BY <1>3 DEF IsInsert
<1>6. ASSUME NEW c \in Plain
      PROVE  RowsOf(q, c) = IF c = table THEN {row} ELSE {}
  <2>1. <<table>> = <<c>> => c = table
    OBVIOUS
  <2> QED BY <1>4, <1>5, <2>1 DEF RowsOf
<1>7. \A w : ~Announces(q, w)
  BY <1>4, <1>5 DEF Announces, IsInsert
<1> QED BY <1>1, <1>2, <1>3, <1>6, <1>7, FreshSeq

\* The report of missing frames inserts nothing and announces no contact.
LEMMA OneReport ==
  ASSUME counts["received"] \in Nat, NEW s
  PROVE  /\ ReportMissing(s) \in Seq(Fresh)
         /\ \A c : RowsOf(ReportMissing(s), c) = {}
         /\ \A w \in ContactEvent : ~Announces(ReportMissing(s), w)
<1>1. "PACKET_MISSING" \in What /\ "PACKET_MISSING" \notin ContactEvent
  BY DEF What, ContactEvent
<1> QED BY <1>1, OneEvent, NothingToDo DEF ReportMissing

(***************************************************************************)
(* What on_downlink does with an accepted record: one packet, one record.  *)
(***************************************************************************)
LEMMA AcceptedRows ==
  ASSUME counts["received"] \in Nat, mission \in Nat, NEW s, NEW findings \in SUBSET Rule
  PROVE  LET q == ReportMissing(s) \o OnAccepted(findings)
             severity == IF IsCritical(findings) THEN "critical" ELSE "harmless"
         IN  /\ RowsOf(q, "packets") = {Row(0, counts["received"] + 1, "ACCEPTED")}
             /\ RowsOf(q, "telemetry") = {Row(0, counts["received"] + 1, severity)}
             /\ \A w \in ContactEvent : ~Announces(q, w)
<1> DEFINE severity == IF IsCritical(findings) THEN "critical" ELSE "harmless"
           packet == Insert("packets", "ACCEPTED")
           events == [i \in 1 .. Cardinality(findings) |-> Emit("ANOMALY_DETECTED")[1]]
           alert == IF IsCritical(findings) THEN Emit("SECURITY_ALERT") ELSE << >>
           record == Insert("telemetry", severity)
<1>1. /\ {"ACCEPTED", "ANOMALY_DETECTED", "SECURITY_ALERT", severity} \subseteq What
      /\ "SECURITY_ALERT" \notin ContactEvent /\ "ANOMALY_DETECTED" \notin ContactEvent
      /\ "packets" \in Plain /\ "telemetry" \in Plain
  BY DEF What, ContactEvent, Plain
<1>2. /\ packet \in Seq(Fresh)
      /\ RowsOf(packet, "packets") = {Row(0, counts["received"] + 1, "ACCEPTED")}
      /\ RowsOf(packet, "telemetry") = {}
      /\ \A w : ~Announces(packet, w)
  BY <1>1, OneInsert
<1>3. /\ record \in Seq(Fresh)
      /\ RowsOf(record, "telemetry") = {Row(0, counts["received"] + 1, severity)}
      /\ RowsOf(record, "packets") = {}
      /\ \A w : ~Announces(record, w)
  BY <1>1, OneInsert
<1>4. /\ alert \in Seq(Fresh)
      /\ \A c : RowsOf(alert, c) = {}
      /\ \A w \in ContactEvent : ~Announces(alert, w)
  BY <1>1, OneEvent, NothingToDo
<1>5. /\ events \in Seq(Fresh)
      /\ \A c : RowsOf(events, c) = {}
      /\ \A w \in ContactEvent : ~Announces(events, w)
  <2>1. Cardinality(findings) \in Nat
    BY RuleFinite, FS_Subset, FS_CardinalityType
  <2>2. PICK op : op = Emit("ANOMALY_DETECTED")[1]
    OBVIOUS
  <2>3. op \in EmitOp /\ op.what = "ANOMALY_DETECTED"
    <3>1. "ANOMALY_DETECTED" \in What
      BY <1>1
    <3>2. op = [do |-> "emit", frame |-> counts["received"] + 1, what |-> "ANOMALY_DETECTED"]
      BY <2>2, <3>1, EmitType
    <3> QED BY <3>1, <3>2 DEF EmitOp
  <2>4. events \in Seq(EmitOp) /\ Len(events) = Cardinality(findings)
        /\ \A i \in 1 .. Len(events) : events[i] = op
    BY <2>1, <2>2, <2>3
  <2>5. \A w \in ContactEvent : ~Announces(events, w)
    BY <1>1, <2>3, <2>4 DEF Announces
  <2> QED BY <2>4, <2>5, EventsInsertNothing
<1>6. /\ ReportMissing(s) \in Seq(Fresh)
      /\ \A c : RowsOf(ReportMissing(s), c) = {}
      /\ \A w \in ContactEvent : ~Announces(ReportMissing(s), w)
  BY OneReport
<1>7. OnAccepted(findings) = packet \o events \o alert \o record
  BY DEF OnAccepted
<1> HIDE DEF packet, events, alert, record
<1>8. PICK a : a = packet \o events
  OBVIOUS
<1>9. PICK b : b = a \o alert
  OBVIOUS
<1>10. PICK d : d = b \o record
  OBVIOUS
<1>11. PICK q : q = ReportMissing(s) \o d
  OBVIOUS
<1>12. /\ a \in Seq(Fresh)
       /\ \A c : RowsOf(a, c) = RowsOf(packet, c) \union RowsOf(events, c)
       /\ \A w \in ContactEvent : ~Announces(a, w)
  BY <1>2, <1>5, <1>8, RowsOfConcat
<1>13. /\ b \in Seq(Fresh)
       /\ \A c : RowsOf(b, c) = RowsOf(a, c) \union RowsOf(alert, c)
       /\ \A w \in ContactEvent : ~Announces(b, w)
  BY <1>4, <1>9, <1>12, RowsOfConcat
<1>14. /\ d \in Seq(Fresh)
       /\ \A c : RowsOf(d, c) = RowsOf(b, c) \union RowsOf(record, c)
       /\ \A w \in ContactEvent : ~Announces(d, w)
  BY <1>3, <1>10, <1>13, RowsOfConcat
<1>15. /\ \A c : RowsOf(q, c) = RowsOf(ReportMissing(s), c) \union RowsOf(d, c)
       /\ \A w \in ContactEvent : ~Announces(q, w)
  BY <1>6, <1>11, <1>14, RowsOfConcat
<1>16. q = ReportMissing(s) \o OnAccepted(findings)
  BY <1>7, <1>8, <1>9, <1>10, <1>11
<1>17. /\ RowsOf(q, "packets") = {Row(0, counts["received"] + 1, "ACCEPTED")}
       /\ RowsOf(q, "telemetry") = {Row(0, counts["received"] + 1, severity)}
  BY <1>2, <1>3, <1>4, <1>5, <1>6, <1>12, <1>13, <1>14, <1>15
<1> QED BY <1>15, <1>16, <1>17

\* The insert is of the same packet or record as the operation before it, or of none.
SameInsert(x, op) ==
  /\ \A b \in Plain : x.tables = <<b>> <=> IsInsert(op) /\ op.tables = <<b>>
  /\ IsInsert(op) => x.row = op.row

(***************************************************************************)
(* What a call still has to do after its first operation was replaced by   *)
(* an insert or a commit.                                                  *)
(***************************************************************************)
LEMMA ReplaceRows ==
  ASSUME CallsOK, NEW t \in Thread, todo[t] # << >>, NEW x \in Op, IsInsert(x),
         Continue(t, <<x>>), NEW op, op = todo[t][1],
         SameInsert(x, op)
  PROVE  /\ \A b \in Plain : RowsOf(todo'[t], b) = RowsOf(todo[t], b)
         /\ \A w : Announces(todo[t], w) <=> \/ Announces(todo'[t], w)
                                             \/ op.do = "emit" /\ op.what = w
         /\ Len(todo'[t]) = Len(todo[t])
<1>1. PICK s : s = todo[t]
  OBVIOUS
<1>2. PICK q : q = todo'[t]
  OBVIOUS
<1>3. /\ Len(q) = Len(s) /\ q[1] = x /\ s[1] = op
      /\ \A i \in 2 .. Len(s) : q[i] = s[i]
      /\ Len(s) \in Nat \ {0}
  BY <1>1, <1>2, ReplaceType, HeadOp
<1>4. 1 \in 1 .. Len(s) /\ \A i \in 1 .. Len(s) : i = 1 \/ i \in 2 .. Len(s)
  BY <1>3
<1>5. ASSUME NEW b \in Plain
      PROVE  RowsOf(q, b) = RowsOf(s, b)
  <2>1. \A i \in 1 .. Len(s) : IsInsert(q[i]) /\ q[i].tables = <<b>>
                                 <=> IsInsert(s[i]) /\ s[i].tables = <<b>>
    BY <1>3, <1>4 DEF SameInsert
  <2>2. \A i \in 1 .. Len(s) : IsInsert(s[i]) /\ s[i].tables = <<b>> => q[i].row = s[i].row
    BY <1>3, <1>4 DEF SameInsert
  <2> QED BY <1>3, <2>1, <2>2 DEF RowsOf
<1>6. ASSUME NEW w
      PROVE  Announces(s, w) <=> (Announces(q, w) \/ (op.do = "emit" /\ op.what = w))
  BY <1>3, <1>4 DEF Announces, IsInsert
<1> QED BY <1>1, <1>2, <1>3, <1>5, <1>6

\* The same after it was dropped
LEMMA DropRows ==
  ASSUME CallsOK, NEW t \in Thread, todo[t] # << >>, Continue(t, << >>), NEW op,
         op = todo[t][1], IsInsert(op)
  PROVE  /\ \A b : RowsOf(todo[t], b) = RowsOf(todo'[t], b)
                                          \union IF op.tables = <<b>> THEN {op.row} ELSE {}
         /\ \A w : Announces(todo[t], w) <=> Announces(todo'[t], w)
         /\ Len(todo'[t]) = Len(todo[t]) - 1
<1>1. PICK s : s = todo[t]
  OBVIOUS
<1>2. PICK q : q = todo'[t]
  OBVIOUS
<1>3. /\ Len(q) = Len(s) - 1 /\ s[1] = op
      /\ \A i \in 1 .. Len(q) : q[i] = s[i + 1]
      /\ Len(s) \in Nat \ {0}
  BY <1>1, <1>2, DropType, HeadOp
<1>4. /\ 1 \in 1 .. Len(s)
      /\ \A i \in 1 .. Len(q) : i + 1 \in 1 .. Len(s)
      /\ \A i \in 1 .. Len(s) : i = 1 \/ (i - 1 \in 1 .. Len(q) /\ i - 1 + 1 = i)
  BY <1>3
<1>5. \A i \in 1 .. Len(s) : i = 1 \/ \E j \in 1 .. Len(q) : q[j] = s[i]
  <2> SUFFICES ASSUME NEW i \in 1 .. Len(s), i # 1
               PROVE  \E j \in 1 .. Len(q) : q[j] = s[i]
    OBVIOUS
  <2>1. i - 1 \in 1 .. Len(q) /\ q[i - 1] = s[i - 1 + 1] /\ i - 1 + 1 = i
    BY <1>3, <1>4
  <2> QED BY <2>1
<1>6. \A j \in 1 .. Len(q) : \E i \in 1 .. Len(s) : s[i] = q[j]
  <2> SUFFICES ASSUME NEW j \in 1 .. Len(q)
               PROVE  \E i \in 1 .. Len(s) : s[i] = q[j]
    OBVIOUS
  <2>1. j + 1 \in 1 .. Len(s) /\ s[j + 1] = q[j]
    BY <1>3, <1>4
  <2> QED BY <2>1
<1>7. ASSUME NEW b
      PROVE  RowsOf(s, b) = RowsOf(q, b) \union IF op.tables = <<b>> THEN {op.row} ELSE {}
  <2>1. \A r : r \in RowsOf(s, b) <=>
          \E i \in 1 .. Len(s) : IsInsert(s[i]) /\ s[i].tables = <<b>> /\ r = s[i].row
    BY DEF RowsOf
  <2>2. \A r : r \in RowsOf(q, b) <=>
          \E i \in 1 .. Len(q) : IsInsert(q[i]) /\ q[i].tables = <<b>> /\ r = q[i].row
    BY DEF RowsOf
  <2>3. RowsOf(q, b) \subseteq RowsOf(s, b)
    <3> SUFFICES ASSUME NEW j \in 1 .. Len(q), IsInsert(q[j]), q[j].tables = <<b>>
                 PROVE  q[j].row \in RowsOf(s, b)
      BY <2>2
    <3>1. PICK i \in 1 .. Len(s) : s[i] = q[j]
      BY <1>6
    <3>2. IsInsert(s[i]) /\ s[i].tables = <<b>> /\ s[i].row = q[j].row
      BY <3>1
    <3> QED BY <2>1, <3>2
  <2>4. ASSUME NEW i \in 1 .. Len(s), IsInsert(s[i]), s[i].tables = <<b>>, i # 1
        PROVE  s[i].row \in RowsOf(q, b)
    <3>1. PICK j \in 1 .. Len(q) : q[j] = s[i]
      BY <1>5, <2>4
    <3>2. IsInsert(q[j]) /\ q[j].tables = <<b>> /\ q[j].row = s[i].row
      BY <2>4, <3>1
    <3> QED BY <2>2, <3>2
  <2>5. op.tables = <<b>> => op.row \in RowsOf(s, b)
    BY <1>3, <1>4, <2>1
  <2>6. ASSUME NEW r \in RowsOf(s, b)
        PROVE  r \in RowsOf(q, b) \union IF op.tables = <<b>> THEN {op.row} ELSE {}
    <3>1. PICK i \in 1 .. Len(s) : IsInsert(s[i]) /\ s[i].tables = <<b>> /\ r = s[i].row
      BY <2>1
    <3>2. CASE i = 1
      BY <1>3, <3>1, <3>2
    <3>3. CASE i # 1
      BY <2>4, <3>1, <3>3
    <3> QED BY <3>2, <3>3
  <2> QED BY <2>3, <2>5, <2>6
<1>8. ASSUME NEW w
      PROVE  Announces(s, w) <=> Announces(q, w)
  <2>1. Announces(q, w) => Announces(s, w)
    BY <1>6 DEF Announces
  <2>2. Announces(s, w) => Announces(q, w)
    BY <1>3, <1>5 DEF Announces, IsInsert
  <2> QED BY <2>1, <2>2
<1> QED BY <1>1, <1>2, <1>3, <1>7, <1>8

\* An insert of on_downlink is for one table.
LEMMA PlainTables ==
  ASSUME NEW list \in TableList, NEW b \in Plain
  PROVE  /\ b \in Range(list) <=> list = <<b>>
         /\ Head(list) = b => list = <<b>>
         /\ list = <<b>> => Len(list) = 1 /\ Head(list) = b
<1>1. CASE list \in {<<"telemetry">>, <<"packets">>, <<"events">>, <<"security_events">>}
  <2>1. PICK c : list = <<c>>
    BY <1>1
  <2>2. DOMAIN list = {1} /\ list[1] = c /\ Head(list) = c /\ Len(list) = 1
    BY <2>1
  <2>3. Range(list) = {c}
    BY <2>2 DEF Range
  <2> QED BY <2>1, <2>2, <2>3
<1>2. CASE list = <<"events", "security_events">>
  <2>1. DOMAIN list = {1, 2} /\ list[1] = "events" /\ list[2] = "security_events"
        /\ Head(list) = "events" /\ Len(list) = 2
    BY <1>2
  <2>2. Range(list) = {"events", "security_events"}
    BY <2>1 DEF Range
  <2>3. Len(<<b>>) = 1
    OBVIOUS
  <2> QED BY <2>1, <2>2, <2>3 DEF Plain
<1> QED BY <1>1, <1>2 DEF TableList

\* What is held in the same way by the same mission is counted in the same way.
LEMMA SameHeld ==
  ASSUME Accounts, UNCHANGED <<mission, counts>>,
         \A b \in Plain : Held(b)' = Held(b) /\ tx'[b] \subseteq Held(b)
  PROVE  RowsCounted' /\ FramesCounted'
<1>1. RowsCounted'
  BY DEF Accounts, RowsCounted, Ours
<1>2. "packets" \in Plain /\ "telemetry" \in Plain
  BY DEF Plain
<1>3. \A b \in Plain : \A what : Due(b, what)' = Due(b, what)
  BY DEF Due, Ours
<1> QED BY <1>1, <1>2, <1>3 DEF Accounts, FramesCounted

(***************************************************************************)
(* A step of a thread keeps the account if it moves no row out of what is  *)
(* held, and takes an event from the call only to the bus.                 *)
(***************************************************************************)
LEMMA AccountsStep ==
  ASSUME Accounts, CallsOK, CallsOK', NEW t \in Thread, OnlyCall(t),
         UNCHANGED <<mission, counts, contact>>,
         \A b \in Plain : Held(b)' = Held(b) /\ tx'[b] \subseteq Held(b),
         \A b \in Plain : RowsOf(todo'[t], b) \subseteq RowsOf(todo[t], b),
         \A w \in ContactEvent :
           Announces(todo'[t], w) => Announces(todo[t], w) /\ Len(todo'[t]) <= Len(todo[t]),
         \A w \in ContactEvent : Announced(w)' = Announced(w),
         \A e \in bus' : e.n <= Cardinality(bus')
  PROVE  Accounts'
<1>1. \A u \in Thread : u # t => todo'[u] = todo[u]
  BY DEF OnlyCall
<1>2. OnlySim'
  <2>1. OnlySim
    BY DEF Accounts
  <2>2. ASSUME NEW u \in Thread \ {"sim"}, NEW b \in Plain
        PROVE  RowsOf(todo'[u], b) = {}
    <3>1. RowsOf(todo[u], b) = {}
      BY <2>1 DEF OnlySim
    <3>2. RowsOf(todo'[u], b) \subseteq RowsOf(todo[u], b)
      BY <1>1
    <3> QED BY <3>1, <3>2
  <2>3. ASSUME NEW u \in Thread \ {"sim"}, NEW w \in ContactEvent
        PROVE  ~Announces(todo'[u], w)
    BY <1>1, <2>1 DEF OnlySim
  <2> QED BY <2>2, <2>3 DEF OnlySim, RowsOf, Announces, IsInsert
<1>3. RowsCounted' /\ FramesCounted'
  BY SameHeld
<1>4. ContactCounted'
  <2>1. ASSUME NEW w \in ContactEvent, Announces(todo'["sim"], w)
        PROVE  Len(todo'["sim"]) = 1
    <3>1. Announces(todo["sim"], w)
      BY <1>1, <2>1 DEF Thread
    <3>2. Len(todo["sim"]) = 1
      BY <3>1 DEF Accounts, ContactCounted
    <3>3. PICK q : q = todo'["sim"]
      OBVIOUS
    <3>4. q \in Seq(Op) /\ Len(q) <= 1
      BY <1>1, <2>1, <3>2, <3>3 DEF CallsOK, Thread
    <3>5. Len(q) # 0
      BY <2>1, <3>3, <3>4 DEF Announces
    <3>6. PICK n \in Nat : n = Len(q)
      BY <3>4
    <3>7. n <= 1 /\ n # 0
      BY <3>4, <3>5, <3>6
    <3>8. n = 1
      BY <3>7
    <3> QED BY <3>3, <3>6, <3>8
  <2>2. "GROUND_CONTACT_STARTED" \in ContactEvent /\ "GROUND_CONTACT_LOST" \in ContactEvent
    BY DEF ContactEvent
  <2> QED BY <2>1, <2>2 DEF Accounts, ContactCounted, Announces
<1> QED BY <1>2, <1>3, <1>4 DEF Accounts

\* No event leaves or comes to the bus, and contact events stay to be emitted.
LEMMA SameAnnounced ==
  ASSUME bus' = bus, NEW t \in Thread, OnlyCall(t),
         \A w \in ContactEvent : Announces(todo'[t], w) <=> Announces(todo[t], w)
  PROVE  \A w \in ContactEvent : Announced(w)' = Announced(w)
<1>1. ASSUME NEW w \in ContactEvent
      PROVE  Announces(todo["sim"], w)' <=> Announces(todo["sim"], w)
  <2>1. "sim" \in Thread
    BY DEF Thread
  <2>2. CASE t = "sim"
    BY <2>2 DEF Announces
  <2>3. CASE t # "sim"
    BY <2>1, <2>3 DEF Announces, OnlyCall
  <2> QED BY <2>2, <2>3
<1> QED BY <1>1 DEF Announced

(***************************************************************************)
(* The steps of a thread, one by one                                       *)
(***************************************************************************)
LEMMA EmitEventCounts ==
  ASSUME RowsOK, Accounts, mission \in Nat, NEW t \in Thread, EmitEvent(t)
  PROVE  Accounts'
<1>1. PICK op : op = todo[t][1]
  OBVIOUS
<1>2. /\ todo[t] # << >> /\ op = Head(todo[t]) /\ op \in EmitOp /\ op.do = "emit"
      /\ op.frame \in Nat /\ op.what \in What /\ Len(todo[t]) \in Nat \ {0}
  <2>1. todo[t] # << >> /\ op = Head(todo[t]) /\ op \in Op /\ op.do = "emit"
        /\ Len(todo[t]) \in Nat \ {0}
    BY <1>1, HeadOp DEF EmitEvent, Does, RowsOK
  <2>2. op \in EmitOp
    BY <2>1 DEF Op, InsertOp
  <2> QED BY <2>1, <2>2 DEF EmitOp
<1>3. PICK n \in Nat : n = Cardinality(bus)
  BY FS_CardinalityType DEF RowsOK, BusOK
<1>4. PICK row : row = Row(n + 1, op.frame, op.what)
  OBVIOUS
<1>5. row \in RowSet /\ row.n = n + 1 /\ row.what = op.what
  BY <1>2, <1>3, <1>4 DEF Row, RowSet
<1>6. PICK x : x = [do |-> "insert", tables |-> TablesOf(op.what), row |-> row]
  OBVIOUS
<1>7. /\ bus' = bus \union {row}
      /\ Continue(t, <<x>>)
      /\ UNCHANGED <<mission, counts, contact, tx, db, failed>>
  BY <1>2, <1>3, <1>4, <1>6 DEF EmitEvent, tables
<1>8. x.tables = TablesOf(op.what) /\ x \in Op /\ IsInsert(x)
  <2>1. TablesOf(op.what) \in TableList
    BY DEF TablesOf, TableList
  <2> QED BY <1>5, <1>6, <2>1 DEF Op, InsertOp, IsInsert
<1>9. \A b \in Plain : x.tables # <<b>>
  <2>1. Len(<<"events", "security_events">>) = 2
    OBVIOUS
  <2> QED BY <1>8, <2>1 DEF TablesOf, Plain
<1>10. /\ \A b \in Plain : RowsOf(todo'[t], b) = RowsOf(todo[t], b)
       /\ \A w : Announces(todo[t], w) <=> (Announces(todo'[t], w) \/ op.what = w)
       /\ Len(todo'[t]) = Len(todo[t])
       /\ CallsOK' /\ OnlyCall(t) /\ todo'[t][1] = x
  <2>1. ~IsInsert(op)
    BY <1>2 DEF IsInsert
  <2>2. /\ \A b \in Plain : RowsOf(todo'[t], b) = RowsOf(todo[t], b)
        /\ \A w : Announces(todo[t], w) <=> (Announces(todo'[t], w) \/ (op.do = "emit" /\ op.what = w))
        /\ Len(todo'[t]) = Len(todo[t])
    <3>1. SameInsert(x, op)
      BY <1>9, <2>1 DEF SameInsert
    <3> QED BY <1>1, <1>2, <1>7, <1>8, <3>1, ReplaceRows DEF RowsOK
  <2>3. CallsOK' /\ OnlyCall(t) /\ todo'[t][1] = x
    BY <1>2, <1>7, <1>8, ReplaceType DEF RowsOK, OnlyCall
  <2> QED BY <1>2, <2>2, <2>3
<1>11. \A e \in bus : e.n \in Nat /\ e.n <= n
  BY <1>3 DEF Accounts, ContactCounted, RowsOK, BusOK, RowSet
<1>12. row \notin bus
  BY <1>3, <1>5, <1>11
<1>13. Cardinality(bus') = n + 1
  BY <1>3, <1>7, <1>12, FS_AddElement DEF RowsOK, BusOK
<1>14. \A e \in bus' : e.n <= Cardinality(bus')
  BY <1>3, <1>5, <1>7, <1>11, <1>13
<1>15. \A b \in Plain : Held(b)' = Held(b) /\ tx'[b] \subseteq Held(b)
  <2>1. \A b \in Plain : RowsOf(todo'["sim"], b) = RowsOf(todo["sim"], b)
    BY <1>10 DEF OnlyCall, Thread
  <2>2. \A b \in Plain : Held(b)' = Held(b)
    BY <1>7, <2>1 DEF Held, RowsOf, IsInsert
  <2> QED BY <1>7, <2>2 DEF Accounts, RowsCounted
<1>16. ASSUME NEW w \in ContactEvent
       PROVE  Announced(w)' = Announced(w)
  <2> DEFINE Told == {e \in bus : e.what = w}
  <2>1. Told \subseteq bus /\ row \notin Told
    BY <1>12
  <2>2. IsFiniteSet(Told)
    BY <2>1, FS_Subset DEF RowsOK, BusOK
  <2>3. PICK m \in Nat : m = Cardinality(Told)
    BY <2>2, FS_CardinalityType
  <2>4. CASE op.what = w
    <3>1. {e \in bus' : e.what = w} = Told \union {row}
      BY <1>5, <1>7, <2>4
    <3>2. Cardinality(Told \union {row}) = m + 1
      BY <2>1, <2>2, <2>3, FS_AddElement
    <3>3. Announces(todo[t], w)
      BY <1>10, <2>4
    <3>4. t = "sim" /\ Len(todo["sim"]) = 1
      BY <3>3 DEF Accounts, OnlySim, ContactCounted
    <3>5. ~Announces(todo'["sim"], w)
      <4>1. Len(todo'["sim"]) = 1 /\ todo'["sim"][1] = x
        BY <1>10, <3>4
      <4>2. \A i \in 1 .. Len(todo'["sim"]) : i = 1
        BY <4>1
      <4> QED BY <1>8, <4>1, <4>2 DEF Announces, IsInsert
    <3>6. Announced(w) = m + 1
      BY <2>3, <3>3, <3>4 DEF Announced
    <3>7. Announced(w)' = m + 1
      <4>1. Announced(w)' = Cardinality({e \in bus' : e.what = w}) + 0
        BY <3>5 DEF Announced, Announces
      <4>2. Cardinality({e \in bus' : e.what = w}) = m + 1
        BY <3>1, <3>2
      <4> QED BY <4>1, <4>2
    <3> QED BY <3>6, <3>7
  <2>5. CASE op.what # w
    <3>1. {e \in bus' : e.what = w} = Told
      BY <1>5, <1>7, <2>5
    <3>2. Announces(todo'["sim"], w) <=> Announces(todo["sim"], w)
      BY <1>10, <2>5 DEF OnlyCall, Thread
    <3> QED BY <3>1, <3>2 DEF Announced, Announces
  <2> QED BY <2>4, <2>5
<1>17. \A w : Announces(todo'[t], w) => Announces(todo[t], w)
  BY <1>10
<1>18. Len(todo'[t]) <= Len(todo[t])
  BY <1>2, <1>10
<1>19. \A b \in Plain : RowsOf(todo'[t], b) \subseteq RowsOf(todo[t], b)
  BY <1>10
<1> QED BY <1>7, <1>10, <1>14, <1>15, <1>16, <1>17, <1>18, <1>19, AccountsStep DEF RowsOK

\* An insert of another thread than the simulation is of no packet and no record.
LEMMA ForeignInsert ==
  ASSUME Accounts, CallsOK, NEW t \in Thread, todo[t] # << >>, NEW op, op = todo[t][1],
         IsInsert(op), NEW b \in Plain, op.tables = <<b>>
  PROVE  t = "sim" /\ op.row \in RowsOf(todo[t], b)
<1>1. 1 \in 1 .. Len(todo[t])
  BY HeadOp
<1>2. op.row \in RowsOf(todo[t], b)
  BY <1>1 DEF RowsOf
<1> QED BY <1>2 DEF Accounts, OnlySim

\* execute: a packet or record in the transaction is one its call will commit.
LEMMA ExecuteCounts ==
  ASSUME RowsOK, Accounts, mission \in Nat, NEW t \in Thread, Execute(t)
  PROVE  Accounts'
<1>1. PICK op : op = todo[t][1]
  OBVIOUS
<1>2. /\ todo[t] # << >> /\ op = Head(todo[t]) /\ op \in InsertOp /\ IsInsert(op)
      /\ op.tables \in TableList /\ op.row \in RowSet /\ Len(todo[t]) \in Nat \ {0}
      /\ op.do = "insert"
  BY <1>1, InsertHead, HeadOp DEF Execute, Does, RowsOK
<1>3. PICK x : x = [op EXCEPT !.do = "commit"]
  OBVIOUS
<1>4. x \in Op /\ IsInsert(x) /\ x.row = op.row /\ x.tables = op.tables
  BY <1>2, <1>3 DEF InsertOp, Op, IsInsert
<1>5. /\ tx' = [tx EXCEPT ![Head(op.tables)] = @ \union {op.row}]
      /\ Continue(t, <<x>>)
      /\ UNCHANGED <<mission, counts, contact, bus, db, failed>>
  BY <1>2, <1>3 DEF Execute, memory
<1>6. /\ \A b \in Plain : RowsOf(todo'[t], b) = RowsOf(todo[t], b)
      /\ \A w : Announces(todo'[t], w) <=> Announces(todo[t], w)
      /\ Len(todo'[t]) = Len(todo[t])
      /\ CallsOK' /\ OnlyCall(t)
  <2>1. /\ \A b \in Plain : RowsOf(todo'[t], b) = RowsOf(todo[t], b)
        /\ \A w : Announces(todo[t], w) <=> (Announces(todo'[t], w) \/ (op.do = "emit" /\ op.what = w))
        /\ Len(todo'[t]) = Len(todo[t])
    <3>1. SameInsert(x, op)
      BY <1>2, <1>4 DEF SameInsert
    <3> QED BY <1>1, <1>2, <1>4, <1>5, <3>1, ReplaceRows DEF RowsOK
  <2>2. CallsOK' /\ OnlyCall(t)
    BY <1>2, <1>4, <1>5, ReplaceType DEF RowsOK, OnlyCall
  <2> QED BY <1>2, <2>1, <2>2
<1>7. ASSUME NEW b \in Plain
      PROVE  Held(b)' = Held(b) /\ tx'[b] \subseteq Held(b)
  <2>1. RowsOf(todo'["sim"], b) = RowsOf(todo["sim"], b)
    BY <1>6 DEF OnlyCall, Thread
  <2>2. Held(b)' = Held(b)
    BY <1>5, <2>1 DEF Held, RowsOf, IsInsert
  <2>3. tx[b] \subseteq Held(b)
    BY DEF Accounts, RowsCounted
  <2>4. b \in Table
    BY DEF Plain, Table
  <2>5. CASE Head(op.tables) = b
    <3>1. op.tables = <<b>>
      BY <1>2, <2>5, PlainTables
    <3>2. op.row \in Held(b)
      BY <1>1, <1>2, <3>1, ForeignInsert DEF RowsOK, Held
    <3> QED BY <1>5, <2>2, <2>3, <2>4, <2>5, <3>2 DEF RowsOK, TablesOK
  <2>6. CASE Head(op.tables) # b
    BY <1>5, <2>2, <2>3, <2>4, <2>6 DEF RowsOK, TablesOK
  <2> QED BY <2>5, <2>6
<1>8. \A w \in ContactEvent : Announced(w)' = Announced(w)
  BY <1>5, <1>6, SameAnnounced
<1>9. \A e \in bus' : e.n <= Cardinality(bus')
  BY <1>5 DEF Accounts, ContactCounted
<1>10. Len(todo'[t]) <= Len(todo[t])
  BY <1>2, <1>6
<1>11. \A b \in Plain : RowsOf(todo'[t], b) \subseteq RowsOf(todo[t], b)
  BY <1>6
<1>12. \A w : Announces(todo'[t], w) => Announces(todo[t], w)
  BY <1>6
<1> QED BY <1>5, <1>6, <1>7, <1>8, <1>9, <1>10, <1>11, <1>12, AccountsStep DEF RowsOK

\* commit: what is durable now was executed, and so held before.
LEMMA CommitCounts ==
  ASSUME RowsOK, Accounts, mission \in Nat, NEW t \in Thread, Commit(t)
  PROVE  Accounts'
<1>1. PICK op : op = todo[t][1]
  OBVIOUS
<1>2. /\ todo[t] # << >> /\ op = Head(todo[t]) /\ op \in InsertOp /\ IsInsert(op) /\ Progress(op)
      /\ op.tables \in TableList /\ op.row \in RowSet /\ Len(todo[t]) \in Nat \ {0}
      /\ op.do = "commit"
  BY <1>1, InsertHead, HeadOp DEF Commit, Does, RowsOK
<1>3. /\ \A b \in Table : db'[b] = db[b] \union tx[b] /\ tx'[b] = {}
      /\ Continue(t, Rest(op))
      /\ UNCHANGED <<mission, counts, contact, bus, failed>>
  BY <1>2 DEF Commit, NoRows, memory
<1>4. Plain \subseteq Table
  BY DEF Plain, Table
<1>5. \A b \in Plain : tx[b] \subseteq Held(b)
  BY DEF Accounts, RowsCounted
<1>6. \A e \in bus' : e.n <= Cardinality(bus')
  BY <1>3 DEF Accounts, ContactCounted
<1>7. CASE Len(op.tables) = 1
  <2>1. Continue(t, << >>)
    BY <1>3, <1>7 DEF Rest
  <2>2. CallsOK' /\ OnlyCall(t)
    BY <1>2, <2>1, DropType DEF RowsOK, OnlyCall
  <2>3. /\ \A b : RowsOf(todo[t], b) = RowsOf(todo'[t], b)
                                          \union IF op.tables = <<b>> THEN {op.row} ELSE {}
        /\ \A w : Announces(todo[t], w) <=> Announces(todo'[t], w)
        /\ Len(todo'[t]) = Len(todo[t]) - 1
    BY <1>1, <1>2, <2>1, DropRows DEF RowsOK
  <2>4. ASSUME NEW b \in Plain
        PROVE  Held(b)' = Held(b) /\ tx'[b] \subseteq Held(b)
    <3>1. op.tables = <<b>> => op.row \in db'[b] \union failed'[b]
      BY <1>2, <1>3, <1>4, PlainTables DEF Progress
    <3>2. RowsOf(todo'["sim"], b) \subseteq RowsOf(todo["sim"], b)
      BY <2>2, <2>3 DEF OnlyCall, Thread
    <3>3. RowsOf(todo["sim"], b) \subseteq RowsOf(todo'["sim"], b) \union db'[b] \union failed'[b]
      BY <2>2, <2>3, <3>1 DEF OnlyCall, Thread
    <3>4. db'[b] = db[b] \union tx[b] /\ tx'[b] = {} /\ failed'[b] = failed[b]
      BY <1>3, <1>4
    <3>5. Held(b)' = db'[b] \union failed'[b] \union RowsOf(todo'["sim"], b)
      BY DEF Held, RowsOf, IsInsert
    <3>6. Held(b) = db[b] \union failed[b] \union RowsOf(todo["sim"], b)
      BY DEF Held
    <3> QED BY <1>5, <3>2, <3>3, <3>4, <3>5, <3>6
  <2>5. \A w \in ContactEvent : Announced(w)' = Announced(w)
    BY <1>3, <2>2, <2>3, SameAnnounced
  <2>6. Len(todo'[t]) <= Len(todo[t])
    BY <1>2, <2>3
  <2>7. \A b \in Plain : RowsOf(todo'[t], b) \subseteq RowsOf(todo[t], b)
    BY <2>3
  <2>8. \A w : Announces(todo'[t], w) => Announces(todo[t], w)
    BY <2>3
  <2> QED BY <1>3, <1>6, <2>2, <2>4, <2>5, <2>6, <2>7, <2>8, AccountsStep DEF RowsOK
<1>8. CASE Len(op.tables) # 1
  <2>1. PICK x : x = [op EXCEPT !.do = "insert", !.tables = Tail(@)]
    OBVIOUS
  <2>2. op.tables = <<"events", "security_events">> /\ Tail(op.tables) = <<"security_events">>
    BY <1>2, <1>8, TablesOfInsert
  <2>3. /\ x \in Op /\ IsInsert(x) /\ x.row = op.row
        /\ x.tables = <<"security_events">>
    <3>1. x = [do |-> "insert", tables |-> <<"security_events">>, row |-> op.row]
      BY <1>2, <2>1, <2>2 DEF InsertOp
    <3> QED BY <1>2, <3>1 DEF Op, InsertOp, IsInsert, TableList
  <2>4. Continue(t, <<x>>)
    BY <1>3, <1>8, <2>1 DEF Rest
  <2>5. CallsOK' /\ OnlyCall(t)
    BY <1>2, <2>3, <2>4, ReplaceType DEF RowsOK, OnlyCall
  <2>6. SameInsert(x, op)
    <3>1. \A b \in Plain : op.tables # <<b>>
      BY <1>2, <1>8, PlainTables
    <3>2. \A b \in Plain : x.tables # <<b>>
      BY <2>3 DEF Plain
    <3> QED BY <2>3, <3>1, <3>2 DEF SameInsert
  <2>7. /\ \A b \in Plain : RowsOf(todo'[t], b) = RowsOf(todo[t], b)
        /\ \A w : Announces(todo[t], w) <=> (Announces(todo'[t], w) \/ (op.do = "emit" /\ op.what = w))
        /\ Len(todo'[t]) = Len(todo[t])
    BY <1>1, <1>2, <2>3, <2>4, <2>6, ReplaceRows DEF RowsOK
  <2>8. ASSUME NEW b \in Plain
        PROVE  Held(b)' = Held(b) /\ tx'[b] \subseteq Held(b)
    <3>1. RowsOf(todo'["sim"], b) = RowsOf(todo["sim"], b)
      BY <2>5, <2>7 DEF OnlyCall, Thread
    <3>2. db'[b] = db[b] \union tx[b] /\ tx'[b] = {} /\ failed'[b] = failed[b]
      BY <1>3, <1>4
    <3>3. Held(b)' = db'[b] \union failed'[b] \union RowsOf(todo'["sim"], b)
      BY DEF Held, RowsOf, IsInsert
    <3>4. Held(b) = db[b] \union failed[b] \union RowsOf(todo["sim"], b)
      BY DEF Held
    <3> QED BY <1>5, <3>1, <3>2, <3>3, <3>4
  <2>9. \A w : Announces(todo'[t], w) <=> Announces(todo[t], w)
    BY <1>2, <2>7
  <2>10. \A w \in ContactEvent : Announced(w)' = Announced(w)
    BY <1>3, <2>5, <2>9, SameAnnounced
  <2>11. Len(todo'[t]) <= Len(todo[t])
    BY <1>2, <2>7
  <2>12. \A b \in Plain : RowsOf(todo'[t], b) \subseteq RowsOf(todo[t], b)
    BY <2>7
  <2>13. \A w : Announces(todo'[t], w) => Announces(todo[t], w)
    BY <2>9
  <2> QED BY <1>3, <1>6, <2>5, <2>8, <2>10, <2>11, <2>12, <2>13, AccountsStep DEF RowsOK
<1> QED BY <1>7, <1>8

\* An insert that raises: a packet or record goes from the call to the failed ones.
LEMMA RaiseCounts ==
  ASSUME RowsOK, Accounts, mission \in Nat, NEW t \in Thread, Raise(t)
  PROVE  Accounts'
<1>1. PICK op : op = todo[t][1]
  OBVIOUS
<1>2. /\ todo[t] # << >> /\ op = Head(todo[t]) /\ op \in InsertOp /\ IsInsert(op)
      /\ op.tables \in TableList /\ op.row \in RowSet /\ Len(todo[t]) \in Nat \ {0}
  BY <1>1, InsertHead, HeadOp DEF Raise, RowsOK
<1>3. Continue(t, << >>) /\ UNCHANGED <<mission, counts, contact, bus, db>>
  BY <1>2 DEF Raise, memory
<1>4. CallsOK' /\ OnlyCall(t)
  BY <1>2, <1>3, DropType DEF RowsOK, OnlyCall
<1>5. /\ \A b : RowsOf(todo[t], b) = RowsOf(todo'[t], b)
                                        \union IF op.tables = <<b>> THEN {op.row} ELSE {}
      /\ \A w : Announces(todo[t], w) <=> Announces(todo'[t], w)
      /\ Len(todo'[t]) = Len(todo[t]) - 1
  BY <1>1, <1>2, <1>3, DropRows DEF RowsOK
<1>6. ASSUME NEW b \in Plain
      PROVE  Held(b)' = Held(b) /\ tx'[b] \subseteq Held(b)
  <2>1. b \in Table
    BY DEF Plain, Table
  <2>2. /\ failed[b] \subseteq failed'[b]
        /\ failed'[b] \subseteq failed[b] \union tx[b]
                                  \union (IF op.tables = <<b>> THEN {op.row} ELSE {})
        /\ op.tables = <<b>> => op.row \in failed'[b]
        /\ tx'[b] \subseteq tx[b]
    <3>1. Skipped(op)[b] = IF op.tables = <<b>> THEN {op.row} ELSE {}
      BY <1>2, <2>1, PlainTables DEF Skipped
    <3> QED BY <1>2, <2>1, <3>1, RaiseRows DEF RowsOK
  <2>3. op.tables = <<b>> => t = "sim"
    BY <1>1, <1>2, ForeignInsert DEF RowsOK
  <2>4. RowsOf(todo["sim"], b) \union (IF op.tables = <<b>> THEN {op.row} ELSE {})
          = RowsOf(todo'["sim"], b) \union (IF op.tables = <<b>> THEN {op.row} ELSE {})
    BY <1>4, <1>5 DEF OnlyCall, Thread
  <2>5. op.tables = <<b>> => op.row \in RowsOf(todo["sim"], b)
    BY <1>5, <2>3
  <2>6. Held(b)' = db'[b] \union failed'[b] \union RowsOf(todo'["sim"], b)
    BY DEF Held, RowsOf, IsInsert
  <2>7. Held(b) = db[b] \union failed[b] \union RowsOf(todo["sim"], b)
    BY DEF Held
  <2>8. tx[b] \subseteq Held(b)
    BY DEF Accounts, RowsCounted
  <2>9. Held(b)' = Held(b)
    BY <1>3, <2>2, <2>4, <2>5, <2>6, <2>7, <2>8
  <2> QED BY <2>2, <2>8, <2>9
<1>7. \A w \in ContactEvent : Announced(w)' = Announced(w)
  BY <1>3, <1>4, <1>5, SameAnnounced
<1>8. \A e \in bus' : e.n <= Cardinality(bus')
  BY <1>3 DEF Accounts, ContactCounted
<1>9. Len(todo'[t]) <= Len(todo[t])
  BY <1>2, <1>5
<1>10. \A b \in Plain : RowsOf(todo'[t], b) \subseteq RowsOf(todo[t], b)
  BY <1>5
<1>11. \A w : Announces(todo'[t], w) => Announces(todo[t], w)
  BY <1>5
<1> QED BY <1>3, <1>4, <1>6, <1>7, <1>8, <1>9, <1>10, <1>11, AccountsStep DEF RowsOK

-------------------------------------------------------------------------------
(* Steps of the simulation thread that begin a call *)

\* The other threads go on handling neither frames nor contact.
LEMMA SimGoesOn ==
  ASSUME OnlySim, OnlyCall("sim")
  PROVE  OnlySim'
<1>1. ASSUME NEW u \in Thread \ {"sim"}
      PROVE  /\ \A b \in Plain : RowsOf(todo'[u], b) = {}
             /\ \A w \in ContactEvent : ~Announces(todo'[u], w)
  <2>1. todo'[u] = todo[u]
    BY DEF OnlyCall
  <2> QED BY <2>1 DEF OnlySim
<1> QED BY <1>1 DEF OnlySim, RowsOf, Announces, IsInsert

\* A call the simulation thread begins adds its rows to what is held.
LEMMA BeginsHeld ==
  ASSUME RowsOK, Accounts, todo["sim"] = << >>, NEW q \in Seq(Fresh),
         todo' = [todo EXCEPT !["sim"] = q], UNCHANGED <<mission, tables>>
  PROVE  /\ \A b \in Plain : /\ Held(b)' = Held(b) \union RowsOf(q, b)
                             /\ tx'[b] \subseteq Held(b)
         /\ OnlySim'
         /\ todo'["sim"] = q
         /\ \A w : Announced(w) = Cardinality({e \in bus : e.what = w}) + 0
<1>1. UNCHANGED <<tx, db, failed>>
  BY DEF tables
<1>2. /\ todo'["sim"] = q
      /\ \A u \in Thread : u # "sim" => todo'[u] = todo[u]
  <2>1. "sim" \in Thread
    BY DEF Thread
  <2> QED BY <2>1 DEF RowsOK, CallsOK
<1>3. \A b \in Plain : Held(b) = db[b] \union failed[b]
  BY NothingToDo DEF Held
<1>4. \A b \in Plain : Held(b)' = Held(b) \union RowsOf(q, b)
  BY <1>1, <1>2, <1>3 DEF Held, RowsOf, IsInsert
<1>5. \A b \in Plain : tx'[b] \subseteq Held(b)
  BY <1>1 DEF Accounts, RowsCounted
<1>6. OnlySim'
  BY <1>2, SimGoesOn DEF Accounts, OnlyCall
<1>7. \A w : Announced(w) = Cardinality({e \in bus : e.what = w}) + 0
  BY NothingToDo DEF Announced
<1> QED BY <1>2, <1>4, <1>5, <1>6, <1>7

\* Only the simulation thread's call begins, and it announces nothing.
LEMMA SilentCall ==
  ASSUME RowsOK, Accounts, todo["sim"] = << >>, NEW q \in Seq(Fresh),
         todo' = [todo EXCEPT !["sim"] = q], UNCHANGED <<mission, contact, bus, tables>>,
         \A w \in ContactEvent : ~Announces(q, w)
  PROVE  ContactCounted'
<1>1. /\ todo'["sim"] = q
      /\ \A w : Announced(w) = Cardinality({e \in bus : e.what = w}) + 0
  BY BeginsHeld
<1>2. "GROUND_CONTACT_STARTED" \in ContactEvent /\ "GROUND_CONTACT_LOST" \in ContactEvent
  BY DEF ContactEvent
<1>3. \A w \in ContactEvent : ~Announces(todo'["sim"], w)
  BY <1>1
<1>4. ASSUME NEW w \in ContactEvent
      PROVE  Announced(w)' = Announced(w)
  BY <1>1, <1>3 DEF Announced, Announces
<1> QED BY <1>2, <1>3, <1>4 DEF Accounts, ContactCounted, Announces

(***************************************************************************)
(* The frame just received has no row yet: its packet, or its record, is   *)
(* one more.                                                               *)
(***************************************************************************)
LEMMA DueGrows ==
  ASSUME RowsOK, RowsCounted, counts["received"] \in Nat, mission \in Nat, mission' = mission,
         todo["sim"] = << >>, NEW b \in Plain, NEW rows, NEW p \in What,
         rows \subseteq {Row(0, counts["received"] + 1, p)}, Held(b)' = Held(b) \union rows
  PROVE  /\ IsFiniteSet(Ours(b))'
         /\ \A r \in Ours(b)' : r.frame <= counts["received"] + 1
         /\ \A what : /\ Cardinality(Due(b, what)) \in Nat
                      /\ Cardinality(Due(b, what))' = Cardinality(Due(b, what)) +
                           (IF Row(0, counts["received"] + 1, what) \in rows THEN 1 ELSE 0)
<1>1. PICK row : row = Row(0, counts["received"] + 1, p)
  OBVIOUS
<1>2. PICK n \in Nat : n = counts["received"]
  OBVIOUS
<1>3. row.mission = mission /\ row.frame = n + 1 /\ row.what = p
  BY <1>1, <1>2 DEF Row
<1>4. /\ IsFiniteSet(Ours(b))
      /\ \A r \in Ours(b) : r.frame <= n
  BY <1>2 DEF RowsCounted
<1>5. Ours(b)' = Ours(b) \union rows
  BY <1>1, <1>3 DEF Ours
<1>6. IsFiniteSet(Ours(b))'
  <2>1. rows = {} \/ rows = {row}
    BY <1>1
  <2>2. IsFiniteSet(Ours(b) \union {row}) /\ Ours(b) \union {} = Ours(b)
    BY <1>4, FS_AddElement
  <2> QED BY <1>4, <1>5, <2>1, <2>2
<1>7. \A r \in Ours(b) : r.frame \in Nat
  <2>1. b \in Table
    BY DEF Plain, Table
  <2>2. Held(b) = db[b] \union failed[b]
    BY NothingToDo DEF Held
  <2> QED BY <2>1, <2>2 DEF Ours, RowsOK, TablesOK, RowSet
<1>8. \A r \in Ours(b)' : r.frame <= n + 1
  BY <1>1, <1>3, <1>4, <1>5, <1>7
<1>9. row \notin Ours(b)
  BY <1>3, <1>4
<1>10. ASSUME NEW what
       PROVE  /\ Cardinality(Due(b, what)) \in Nat
              /\ Cardinality(Due(b, what))' = Cardinality(Due(b, what)) +
                   (IF Row(0, counts["received"] + 1, what) \in rows THEN 1 ELSE 0)
  <2>1. Due(b, what) \subseteq Ours(b)
    BY DEF Due
  <2>2. IsFiniteSet(Due(b, what))
    BY <1>4, <2>1, FS_Subset
  <2>3. PICK m \in Nat : m = Cardinality(Due(b, what))
    BY <2>2, FS_CardinalityType
  <2>4. CASE row \in rows /\ p = what
    <3>1. Due(b, what)' = Due(b, what) \union {row}
      BY <1>1, <1>3, <1>5, <2>4 DEF Due
    <3>2. Cardinality(Due(b, what) \union {row}) = m + 1
      BY <1>9, <2>1, <2>2, <2>3, FS_AddElement
    <3>3. Row(0, counts["received"] + 1, what) \in rows
      BY <1>1, <2>4
    <3> QED BY <2>3, <3>1, <3>2, <3>3
  <2>5. CASE ~(row \in rows /\ p = what)
    <3>1. Due(b, what)' = Due(b, what)
      BY <1>1, <1>3, <1>5, <2>5 DEF Due
    <3>2. Row(0, counts["received"] + 1, what) \notin rows
      <4>1. Row(0, counts["received"] + 1, what).what = what
        BY DEF Row
      <4> QED BY <1>1, <1>3, <2>5, <4>1
    <3> QED BY <2>3, <3>1, <3>2
  <2> QED BY <2>4, <2>5
<1> QED BY <1>2, <1>6, <1>8, <1>10

(***************************************************************************)
(* A frame is booked if its counter and its rows say the same.             *)
(***************************************************************************)
LEMMA FrameBooked ==
  ASSUME RowsOK, Accounts, counts \in [Counter -> Nat], mission \in Nat, todo["sim"] = << >>,
         NEW q \in Seq(Fresh), todo' = [todo EXCEPT !["sim"] = q],
         UNCHANGED <<mission, contact, bus, tables>>,
         \A w \in ContactEvent : ~Announces(q, w),
         NEW f, f = counts["received"] + 1, counts'["received"] = f,
         NEW p \in What, RowsOf(q, "packets") \subseteq {Row(0, f, p)},
         NEW d \in What, RowsOf(q, "telemetry") \subseteq {Row(0, f, d)},
         counts'["accepted"] = counts["accepted"]
           + (IF Row(0, f, "ACCEPTED") \in RowsOf(q, "packets") THEN 1 ELSE 0),
         counts'["accepted"] = counts["accepted"]
           + (IF Row(0, f, "harmless") \in RowsOf(q, "telemetry") THEN 1 ELSE 0)
           + (IF Row(0, f, "critical") \in RowsOf(q, "telemetry") THEN 1 ELSE 0),
         counts'["corrupted"] = counts["corrupted"]
           + (IF Row(0, f, "CRC_FAILURE") \in RowsOf(q, "packets") THEN 1 ELSE 0),
         counts'["rejected"] + counts'["raised"] + counts'["accepted"]
           = counts["rejected"] + counts["raised"] + counts["accepted"] + 1,
         counts' \in [Counter -> Nat]
  PROVE  Accounts'
<1>1. /\ \A b \in Plain : /\ Held(b)' = Held(b) \union RowsOf(q, b)
                          /\ tx'[b] \subseteq Held(b)
      /\ OnlySim'
  BY BeginsHeld
<1>2. ContactCounted'
  BY SilentCall
<1>3. counts["received"] \in Nat /\ RowsCounted /\ FramesCounted
  BY DEF Counter, Accounts
<1>4. "packets" \in Plain /\ "telemetry" \in Plain
  BY DEF Plain
<1>5. /\ IsFiniteSet(Ours("packets"))'
      /\ \A r \in Ours("packets")' : r.frame <= f
      /\ \A what : /\ Cardinality(Due("packets", what)) \in Nat
                   /\ Cardinality(Due("packets", what))' = Cardinality(Due("packets", what)) +
                        (IF Row(0, f, what) \in RowsOf(q, "packets") THEN 1 ELSE 0)
  <2>1. PICK rows : rows = RowsOf(q, "packets")
    OBVIOUS
  <2>2. rows \subseteq {Row(0, counts["received"] + 1, p)}
    BY <2>1
  <2>3. Held("packets")' = Held("packets") \union rows
    BY <1>1, <1>4, <2>1
  <2>4. mission' = mission
    OBVIOUS
  <2>5. /\ IsFiniteSet(Ours("packets"))'
        /\ \A r \in Ours("packets")' : r.frame <= counts["received"] + 1
        /\ \A what : /\ Cardinality(Due("packets", what)) \in Nat
                     /\ Cardinality(Due("packets", what))' = Cardinality(Due("packets", what)) +
                          (IF Row(0, counts["received"] + 1, what) \in rows THEN 1 ELSE 0)
    BY <1>3, <1>4, <2>2, <2>3, <2>4, DueGrows
  <2> QED BY <2>1, <2>5
<1>6. /\ IsFiniteSet(Ours("telemetry"))'
      /\ \A r \in Ours("telemetry")' : r.frame <= f
      /\ \A what : /\ Cardinality(Due("telemetry", what)) \in Nat
                   /\ Cardinality(Due("telemetry", what))' = Cardinality(Due("telemetry", what)) +
                        (IF Row(0, f, what) \in RowsOf(q, "telemetry") THEN 1 ELSE 0)
  <2>1. PICK rows : rows = RowsOf(q, "telemetry")
    OBVIOUS
  <2>2. rows \subseteq {Row(0, counts["received"] + 1, d)}
    BY <2>1
  <2>3. Held("telemetry")' = Held("telemetry") \union rows
    BY <1>1, <1>4, <2>1
  <2>4. mission' = mission
    OBVIOUS
  <2>5. /\ IsFiniteSet(Ours("telemetry"))'
        /\ \A r \in Ours("telemetry")' : r.frame <= counts["received"] + 1
        /\ \A what : /\ Cardinality(Due("telemetry", what)) \in Nat
                     /\ Cardinality(Due("telemetry", what))' = Cardinality(Due("telemetry", what)) +
                          (IF Row(0, counts["received"] + 1, what) \in rows THEN 1 ELSE 0)
    BY <1>3, <1>4, <2>2, <2>3, <2>4, DueGrows
  <2> QED BY <2>1, <2>5
<1>7. RowsCounted'
  <2>1. \A b \in Plain : b = "packets" \/ b = "telemetry"
    BY DEF Plain
  <2> QED BY <1>1, <1>5, <1>6, <2>1 DEF RowsCounted
<1>8. FramesCounted'
  <2>1. /\ counts["accepted"] \in Nat /\ counts["rejected"] \in Nat /\ counts["raised"] \in Nat
        /\ counts'["accepted"] \in Nat /\ counts'["rejected"] \in Nat /\ counts'["raised"] \in Nat
    BY DEF Counter
  <2>2. counts'["accepted"] = Cardinality(Due("packets", "ACCEPTED"))'
    BY <1>3, <1>5 DEF FramesCounted
  <2>3. counts'["accepted"] = Cardinality(Due("telemetry", "harmless"))'
                                + Cardinality(Due("telemetry", "critical"))'
    <3>1. PICK h \in Nat : h = Cardinality(Due("telemetry", "harmless"))
      BY <1>6
    <3>2. PICK c \in Nat : c = Cardinality(Due("telemetry", "critical"))
      BY <1>6
    <3>3. PICK i \in {0, 1} :
            i = IF Row(0, f, "harmless") \in RowsOf(q, "telemetry") THEN 1 ELSE 0
      OBVIOUS
    <3>4. PICK j \in {0, 1} :
            j = IF Row(0, f, "critical") \in RowsOf(q, "telemetry") THEN 1 ELSE 0
      OBVIOUS
    <3>5. /\ Cardinality(Due("telemetry", "harmless"))' = h + i
          /\ Cardinality(Due("telemetry", "critical"))' = c + j
      BY <1>6, <3>1, <3>2, <3>3, <3>4
    <3>6. counts["accepted"] = h + c
      BY <1>3, <3>1, <3>2 DEF FramesCounted
    <3>7. counts'["accepted"] = counts["accepted"] + i + j
      BY <3>3, <3>4
    <3>8. counts'["accepted"] = (h + i) + (c + j)
      BY <3>6, <3>7
    <3> QED BY <3>5, <3>8
  <2>4. counts'["corrupted"] = Cardinality(Due("packets", "CRC_FAILURE"))'
    BY <1>3, <1>5 DEF FramesCounted
  <2>5. counts'["received"] = counts'["accepted"] + counts'["rejected"] + counts'["raised"]
    <3>1. counts'["received"] = counts["accepted"] + counts["rejected"] + counts["raised"] + 1
      BY <1>3 DEF FramesCounted
    <3> QED BY <2>1, <3>1
  <2> QED BY <2>2, <2>3, <2>4, <2>5 DEF FramesCounted
<1> QED BY <1>1, <1>2, <1>7, <1>8 DEF Accounts

\* The counters of a frame the CRC lets through
LEMMA TalliedIs ==
  ASSUME counts \in [Counter -> Nat], validator \in Validator, NEW s \in SequenceNumber,
         NEW k \in {"accepted", "rejected", "raised"}, counts' = Tallied(s, k)
  PROVE  /\ counts' \in [Counter -> Nat]
         /\ counts'["received"] = counts["received"] + 1
         /\ counts'["corrupted"] = counts["corrupted"] + 0
         /\ \A c \in {"accepted", "rejected", "raised"} :
              counts'[c] = counts[c] + (IF c = k THEN 1 ELSE 0)
<1>1. {"received", "corrupted", "accepted", "rejected", "raised", "missing", "duplicates", "late"}
        \subseteq Counter
  BY DEF Counter
<1>2. Tallied(s, k) \in [Counter -> Nat]
  BY <1>1, TalliedType
<1>3. PICK m : m = Missing(validator, s)
  OBVIOUS
<1>4. PICK d : d = IF Status(validator, s) = "DUPLICATE" THEN 1 ELSE 0
  OBVIOUS
<1>5. PICK l : l = IF Status(validator, s) = "LATE" THEN 1 ELSE 0
  OBVIOUS
<1>6. counts' = [counts EXCEPT !["received"] = @ + 1, ![k] = @ + 1, !["missing"] = @ + m,
                               !["duplicates"] = @ + d, !["late"] = @ + l]
  BY <1>3, <1>4, <1>5 DEF Tallied
<1>7. counts'["received"] = counts["received"] + 1
  BY <1>1, <1>6
<1>8. counts'["corrupted"] = counts["corrupted"] + 0
  BY <1>1, <1>6
<1>9. ASSUME NEW c \in {"accepted", "rejected", "raised"}
      PROVE  counts'[c] = counts[c] + (IF c = k THEN 1 ELSE 0)
  BY <1>1, <1>6
<1> QED BY <1>2, <1>7, <1>8, <1>9

\* One of the three counters that account for frames has grown by one.
LEMMA OneMore ==
  ASSUME counts \in [Counter -> Nat], NEW k \in {"accepted", "rejected", "raised"},
         \A c \in {"accepted", "rejected", "raised"} :
           counts'[c] = counts[c] + (IF c = k THEN 1 ELSE 0)
  PROVE  counts'["rejected"] + counts'["raised"] + counts'["accepted"]
           = counts["rejected"] + counts["raised"] + counts["accepted"] + 1
<1>1. PICK a \in Nat : a = counts["accepted"]
  BY DEF Counter
<1>2. PICK j \in Nat : j = counts["rejected"]
  BY DEF Counter
<1>3. PICK e \in Nat : e = counts["raised"]
  BY DEF Counter
<1>4. CASE k = "accepted"
  <2>1. counts'["accepted"] = a + 1 /\ counts'["rejected"] = j + 0 /\ counts'["raised"] = e + 0
    BY <1>1, <1>2, <1>3, <1>4
  <2> QED BY <1>1, <1>2, <1>3, <2>1
<1>5. CASE k = "rejected"
  <2>1. counts'["accepted"] = a + 0 /\ counts'["rejected"] = j + 1 /\ counts'["raised"] = e + 0
    BY <1>1, <1>2, <1>3, <1>5
  <2> QED BY <1>1, <1>2, <1>3, <2>1
<1>6. CASE k = "raised"
  <2>1. counts'["accepted"] = a + 0 /\ counts'["rejected"] = j + 0 /\ counts'["raised"] = e + 1
    BY <1>1, <1>2, <1>3, <1>6
  <2> QED BY <1>1, <1>2, <1>3, <2>1
<1> QED BY <1>4, <1>5, <1>6

\* What the types say of the ground station between two calls
Ready ==
  /\ RowsOK /\ Accounts
  /\ counts \in [Counter -> Nat] /\ validator \in Validator /\ mission \in Nat
  /\ todo["sim"] = << >>
  /\ UNCHANGED <<mission, contact, bus, tables>>

(***************************************************************************)
(* The outcomes of a frame, one by one                                     *)
(***************************************************************************)
LEMMA MalformedBooked ==
  ASSUME Ready, RejectMalformed
  PROVE  Accounts'
<1> USE DEF Ready
<1>1. counts["received"] \in Nat /\ "INVALID_PACKET" \in What /\ "INVALID_PACKET" \notin ContactEvent
  BY DEF Counter, What, ContactEvent
<1>2. PICK q : q = Emit("INVALID_PACKET")
  OBVIOUS
<1>3. /\ q \in Seq(Fresh)
      /\ \A c : RowsOf(q, c) = {}
      /\ \A w \in ContactEvent : ~Announces(q, w)
  BY <1>1, <1>2, OneEvent
<1>4. todo' = [todo EXCEPT !["sim"] = q]
  BY <1>2 DEF RejectMalformed
<1>5. /\ counts' \in [Counter -> Nat]
      /\ counts'["received"] = counts["received"] + 1
      /\ counts'["corrupted"] = counts["corrupted"] + 0
      /\ counts["accepted"] \in Nat
      /\ \A c \in {"accepted", "rejected", "raised"} :
           counts'[c] = counts[c] + (IF c = "rejected" THEN 1 ELSE 0)
  BY DEF RejectMalformed, Counter
<1>6. PICK f : f = counts["received"] + 1
  OBVIOUS
<1>7. /\ RowsOf(q, "packets") \subseteq {Row(0, f, "INVALID_PACKET")}
      /\ RowsOf(q, "telemetry") \subseteq {Row(0, f, "INVALID_PACKET")}
      /\ \A what : Row(0, f, what) \notin RowsOf(q, "packets")
                   /\ Row(0, f, what) \notin RowsOf(q, "telemetry")
  BY <1>3
<1>8. /\ counts'["rejected"] + counts'["raised"] + counts'["accepted"]
           = counts["rejected"] + counts["raised"] + counts["accepted"] + 1
      /\ counts'["accepted"] = counts["accepted"] + 0
      /\ counts'["accepted"] = counts["accepted"] + 0 + 0
  <2>1. counts'["accepted"] = counts["accepted"] + 0
    BY <1>5
  <2> QED BY <1>5, <2>1, OneMore
<1> QED BY <1>1, <1>3, <1>4, <1>5, <1>6, <1>7, <1>8, FrameBooked

\* A frame whose checksum is wrong: one packet
LEMMA CorruptedBooked ==
  ASSUME Ready, RejectCorrupted
  PROVE  Accounts'
<1> USE DEF Ready
<1>1. /\ counts["received"] \in Nat /\ "CRC_FAILURE" \in What /\ "CRC_FAILURE" \notin ContactEvent
      /\ "packets" \in Plain /\ "telemetry" \in Plain /\ "telemetry" # "packets"
  BY DEF Counter, What, ContactEvent, Plain
<1>2. PICK f : f = counts["received"] + 1
  OBVIOUS
<1>3. PICK q : q = Emit("CRC_FAILURE") \o Insert("packets", "CRC_FAILURE")
  OBVIOUS
<1>4. /\ Emit("CRC_FAILURE") \in Seq(Fresh)
      /\ \A c : RowsOf(Emit("CRC_FAILURE"), c) = {}
      /\ \A w \in ContactEvent : ~Announces(Emit("CRC_FAILURE"), w)
  BY <1>1, OneEvent
<1>5. /\ Insert("packets", "CRC_FAILURE") \in Seq(Fresh)
      /\ RowsOf(Insert("packets", "CRC_FAILURE"), "packets") = {Row(0, f, "CRC_FAILURE")}
      /\ RowsOf(Insert("packets", "CRC_FAILURE"), "telemetry") = {}
      /\ \A w \in ContactEvent : ~Announces(Insert("packets", "CRC_FAILURE"), w)
  BY <1>1, <1>2, OneInsert
<1>6. /\ q \in Seq(Fresh)
      /\ RowsOf(q, "packets") = {Row(0, f, "CRC_FAILURE")}
      /\ RowsOf(q, "telemetry") = {}
      /\ \A w \in ContactEvent : ~Announces(q, w)
  <2>1. PICK a : a = Emit("CRC_FAILURE")
    OBVIOUS
  <2>2. PICK b : b = Insert("packets", "CRC_FAILURE")
    OBVIOUS
  <2>3. q = a \o b /\ a \in Seq(Fresh) /\ b \in Seq(Fresh)
    BY <1>3, <1>4, <1>5, <2>1, <2>2
  <2>4. /\ q \in Seq(Fresh)
        /\ \A c : RowsOf(q, c) = RowsOf(a, c) \union RowsOf(b, c)
        /\ \A w : Announces(q, w) => Announces(a, w) \/ Announces(b, w)
    BY <2>3, RowsOfConcat
  <2> QED BY <1>4, <1>5, <2>1, <2>2, <2>4
<1>7. todo' = [todo EXCEPT !["sim"] = q]
  BY <1>3 DEF RejectCorrupted
<1>8. /\ counts' \in [Counter -> Nat]
      /\ counts'["received"] = f
      /\ counts'["corrupted"] = counts["corrupted"] + 1
      /\ counts["accepted"] \in Nat
      /\ \A c \in {"accepted", "rejected", "raised"} :
           counts'[c] = counts[c] + (IF c = "rejected" THEN 1 ELSE 0)
  BY <1>2 DEF RejectCorrupted, Counter
<1>9. Row(0, f, "CRC_FAILURE").what = "CRC_FAILURE" /\ Row(0, f, "ACCEPTED").what = "ACCEPTED"
  BY DEF Row
<1>10. /\ RowsOf(q, "packets") \subseteq {Row(0, f, "CRC_FAILURE")}
       /\ RowsOf(q, "telemetry") \subseteq {Row(0, f, "CRC_FAILURE")}
       /\ Row(0, f, "CRC_FAILURE") \in RowsOf(q, "packets")
       /\ Row(0, f, "ACCEPTED") \notin RowsOf(q, "packets")
       /\ \A what : Row(0, f, what) \notin RowsOf(q, "telemetry")
  BY <1>6, <1>9
<1>11. /\ counts'["rejected"] + counts'["raised"] + counts'["accepted"]
            = counts["rejected"] + counts["raised"] + counts["accepted"] + 1
       /\ counts'["accepted"] = counts["accepted"] + 0
       /\ counts'["accepted"] = counts["accepted"] + 0 + 0
  <2>1. counts'["accepted"] = counts["accepted"] + 0
    BY <1>8
  <2> QED BY <1>8, <2>1, OneMore
<1> QED BY <1>1, <1>2, <1>6, <1>7, <1>8, <1>10, <1>11, FrameBooked

\* A frame the CRC lets through, but the decoder does not
LEMMA UndecodedBooked ==
  ASSUME Ready, NEW s \in SequenceNumber, RejectUndecodable(s) \/ DecoderRaises(s)
  PROVE  Accounts'
<1> USE DEF Ready
<1>1. /\ counts["received"] \in Nat /\ "DECODE_FAILED" \in What
      /\ "INVALID_PACKET" \in What /\ "INVALID_PACKET" \notin ContactEvent
      /\ "packets" \in Plain /\ "telemetry" \in Plain /\ "telemetry" # "packets"
  BY DEF Counter, What, ContactEvent, Plain
<1>2. PICK f : f = counts["received"] + 1
  OBVIOUS
<1>3. /\ ReportMissing(s) \in Seq(Fresh)
      /\ \A c : RowsOf(ReportMissing(s), c) = {}
      /\ \A w \in ContactEvent : ~Announces(ReportMissing(s), w)
  BY <1>1, OneReport
<1>4. PICK q : /\ q \in Seq(Fresh)
               /\ RowsOf(q, "packets") \subseteq {Row(0, f, "DECODE_FAILED")}
               /\ RowsOf(q, "telemetry") = {}
               /\ \A w \in ContactEvent : ~Announces(q, w)
               /\ todo' = [todo EXCEPT !["sim"] = q]
  <2>1. CASE DecoderRaises(s)
    <3>1. RowsOf(ReportMissing(s), "packets") \subseteq {Row(0, f, "DECODE_FAILED")}
      BY <1>3
    <3> QED BY <1>3, <2>1, <3>1 DEF DecoderRaises
  <2>2. CASE RejectUndecodable(s)
    <3>1. PICK a : a = ReportMissing(s) \o Emit("INVALID_PACKET")
      OBVIOUS
    <3>2. PICK b : b = a \o Insert("packets", "DECODE_FAILED")
      OBVIOUS
    <3>3. /\ Emit("INVALID_PACKET") \in Seq(Fresh)
          /\ \A c : RowsOf(Emit("INVALID_PACKET"), c) = {}
          /\ \A w \in ContactEvent : ~Announces(Emit("INVALID_PACKET"), w)
      BY <1>1, OneEvent
    <3>4. /\ a \in Seq(Fresh)
          /\ RowsOf(a, "packets") = {} /\ RowsOf(a, "telemetry") = {}
          /\ \A w \in ContactEvent : ~Announces(a, w)
      BY <1>3, <3>1, <3>3, RowsOfConcat
    <3>5. /\ Insert("packets", "DECODE_FAILED") \in Seq(Fresh)
          /\ RowsOf(Insert("packets", "DECODE_FAILED"), "packets") = {Row(0, f, "DECODE_FAILED")}
          /\ RowsOf(Insert("packets", "DECODE_FAILED"), "telemetry") = {}
          /\ \A w \in ContactEvent : ~Announces(Insert("packets", "DECODE_FAILED"), w)
      BY <1>1, <1>2, OneInsert
    <3>6. /\ b \in Seq(Fresh)
          /\ RowsOf(b, "packets") = {Row(0, f, "DECODE_FAILED")}
          /\ RowsOf(b, "telemetry") = {}
          /\ \A w \in ContactEvent : ~Announces(b, w)
      <4>1. PICK d : d = Insert("packets", "DECODE_FAILED")
        OBVIOUS
      <4>2. b = a \o d /\ d \in Seq(Fresh)
        BY <3>2, <3>5, <4>1
      <4>3. /\ b \in Seq(Fresh)
            /\ \A c : RowsOf(b, c) = RowsOf(a, c) \union RowsOf(d, c)
            /\ \A w : Announces(b, w) => Announces(a, w) \/ Announces(d, w)
        BY <3>4, <4>2, RowsOfConcat
      <4> QED BY <3>4, <3>5, <4>1, <4>3
    <3>7. todo' = [todo EXCEPT !["sim"] = b]
      BY <2>2, <3>1, <3>2 DEF RejectUndecodable
    <3> QED BY <3>6, <3>7
  <2> QED BY <2>1, <2>2
<1>5. PICK k \in {"rejected", "raised"} : counts' = Tallied(s, k)
  BY DEF RejectUndecodable, DecoderRaises
<1>6. /\ counts' \in [Counter -> Nat]
      /\ counts'["received"] = f
      /\ counts'["corrupted"] = counts["corrupted"] + 0
      /\ \A c \in {"accepted", "rejected", "raised"} :
           counts'[c] = counts[c] + (IF c = k THEN 1 ELSE 0)
  BY <1>2, <1>5, TalliedIs
<1>7. \A c \in {"accepted", "corrupted", "rejected", "raised"} : counts[c] \in Nat
  BY DEF Counter
<1>8. /\ Row(0, f, "CRC_FAILURE").what = "CRC_FAILURE" /\ Row(0, f, "ACCEPTED").what = "ACCEPTED"
      /\ Row(0, f, "DECODE_FAILED").what = "DECODE_FAILED"
  BY DEF Row
<1>9. /\ RowsOf(q, "telemetry") \subseteq {Row(0, f, "DECODE_FAILED")}
      /\ Row(0, f, "CRC_FAILURE") \notin RowsOf(q, "packets")
      /\ Row(0, f, "ACCEPTED") \notin RowsOf(q, "packets")
      /\ \A what : Row(0, f, what) \notin RowsOf(q, "telemetry")
  BY <1>4, <1>8
<1>10. /\ counts'["rejected"] + counts'["raised"] + counts'["accepted"]
            = counts["rejected"] + counts["raised"] + counts["accepted"] + 1
       /\ counts'["accepted"] = counts["accepted"] + 0
       /\ counts'["accepted"] = counts["accepted"] + 0 + 0
  <2>1. counts'["accepted"] = counts["accepted"] + 0
    BY <1>5, <1>6
  <2>2. k \in {"accepted", "rejected", "raised"}
    OBVIOUS
  <2> QED BY <1>6, <1>7, <2>1, <2>2, OneMore
<1> QED BY <1>1, <1>2, <1>4, <1>6, <1>9, <1>10, FrameBooked

\* A frame whose record is accepted: one packet, one record
LEMMA AcceptedBooked ==
  ASSUME Ready, NEW s \in SequenceNumber, NEW reading \in Readings, AcceptRecord(s, reading)
  PROVE  Accounts'
<1> USE DEF Ready
<1>1. counts["received"] \in Nat /\ {"ACCEPTED", "harmless", "critical"} \subseteq What
  BY DEF Counter, What
<1>2. PICK f : f = counts["received"] + 1
  OBVIOUS
<1>3. PICK findings : findings = Findings([reading EXCEPT !.time = s])
  OBVIOUS
<1>4. findings \in SUBSET Rule
  BY <1>3 DEF Findings, DetectAnomalies, AbsoluteFindings, RateFindings
<1>5. PICK severity \in {"harmless", "critical"} :
        severity = IF IsCritical(findings) THEN "critical" ELSE "harmless"
  OBVIOUS
<1>6. PICK q : q = ReportMissing(s) \o OnAccepted(findings)
  OBVIOUS
<1>7. q \in Seq(Fresh)
  BY <1>1, <1>4, <1>6, AcceptedOrdered
<1>8. /\ RowsOf(q, "packets") = {Row(0, f, "ACCEPTED")}
      /\ RowsOf(q, "telemetry") = {Row(0, f, severity)}
      /\ \A w \in ContactEvent : ~Announces(q, w)
  BY <1>1, <1>2, <1>4, <1>5, <1>6, AcceptedRows
<1>9. todo' = [todo EXCEPT !["sim"] = q] /\ counts' = Tallied(s, "accepted")
  BY <1>3, <1>6 DEF AcceptRecord
<1>10. /\ counts' \in [Counter -> Nat]
       /\ counts'["received"] = f
       /\ counts'["corrupted"] = counts["corrupted"] + 0
       /\ \A c \in {"accepted", "rejected", "raised"} :
            counts'[c] = counts[c] + (IF c = "accepted" THEN 1 ELSE 0)
  BY <1>2, <1>9, TalliedIs
<1>11. \A c \in {"accepted", "corrupted", "rejected", "raised"} : counts[c] \in Nat
  BY DEF Counter
<1>12. \A what : Row(0, f, what).what = what
  BY DEF Row
<1>13. /\ RowsOf(q, "packets") \subseteq {Row(0, f, "ACCEPTED")}
       /\ RowsOf(q, "telemetry") \subseteq {Row(0, f, severity)}
       /\ Row(0, f, "CRC_FAILURE") \notin RowsOf(q, "packets")
       /\ Row(0, f, "ACCEPTED") \in RowsOf(q, "packets")
  BY <1>8, <1>12
<1>14. (IF Row(0, f, "harmless") \in RowsOf(q, "telemetry") THEN 1 ELSE 0)
         + (IF Row(0, f, "critical") \in RowsOf(q, "telemetry") THEN 1 ELSE 0) = 1
  <2>1. CASE severity = "harmless"
    BY <1>8, <1>12, <2>1
  <2>2. CASE severity = "critical"
    BY <1>8, <1>12, <2>2
  <2> QED BY <1>5, <2>1, <2>2
<1>15. /\ counts'["rejected"] + counts'["raised"] + counts'["accepted"]
            = counts["rejected"] + counts["raised"] + counts["accepted"] + 1
       /\ counts'["accepted"] = counts["accepted"] + 1
       /\ counts'["accepted"] = counts["accepted"]
            + (IF Row(0, f, "harmless") \in RowsOf(q, "telemetry") THEN 1 ELSE 0)
            + (IF Row(0, f, "critical") \in RowsOf(q, "telemetry") THEN 1 ELSE 0)
  <2>1. counts'["accepted"] = counts["accepted"] + 1
    BY <1>10
  <2>2. PICK i \in {0, 1} :
          i = IF Row(0, f, "harmless") \in RowsOf(q, "telemetry") THEN 1 ELSE 0
    OBVIOUS
  <2>3. PICK j \in {0, 1} :
          j = IF Row(0, f, "critical") \in RowsOf(q, "telemetry") THEN 1 ELSE 0
    OBVIOUS
  <2>4. PICK a \in Nat : a = counts["accepted"]
    BY <1>11
  <2>5. i + j = 1
    BY <1>14, <2>2, <2>3
  <2>6. a + 1 = a + i + j
    BY <2>5
  <2>7. counts'["accepted"] = counts["accepted"] + i + j
    BY <2>1, <2>4, <2>6
  <2> QED BY <1>10, <2>1, <2>2, <2>3, <2>7, OneMore
<1> QED BY <1>1, <1>2, <1>5, <1>7, <1>8, <1>9, <1>10, <1>13, <1>15, FrameBooked

-------------------------------------------------------------------------------
(* The other steps, and the theorem *)

\* A step that touches no row, no event and no counter
LEMMA SameCounts ==
  ASSUME Accounts, UNCHANGED <<mission, counts, contact, bus, todo, tables>>
  PROVE  Accounts'
<1>1. UNCHANGED <<mission, counts, contact, bus, todo, tx, db, failed>>
  BY DEF tables
<1>2. OnlySim'
  BY <1>1, SimGoesOn DEF Accounts, OnlyCall
<1>3. RowsCounted' /\ FramesCounted'
  <2>1. \A b \in Plain : Held(b)' = Held(b) /\ tx'[b] \subseteq Held(b)
    BY <1>1 DEF Held, RowsOf, IsInsert, Accounts, RowsCounted
  <2> QED BY <1>1, <2>1, SameHeld
<1>4. ContactCounted'
  BY <1>1 DEF Accounts, ContactCounted, Announced, Announces
<1> QED BY <1>2, <1>3, <1>4 DEF Accounts

\* update_contact: an event is on its way whenever the contact state changes.
LEMMA ContactKept ==
  ASSUME RowsOK, ControlOK, Accounts, NEW visible \in BOOLEAN, UpdateContact(visible)
  PROVE  Accounts'
<1>1. PICK what \in ContactEvent :
        what = IF visible THEN "GROUND_CONTACT_STARTED" ELSE "GROUND_CONTACT_LOST"
  BY DEF ContactEvent
<1>2. PICK changes \in BOOLEAN :
        changes = IF visible THEN contact # "yes" ELSE contact = "yes"
  OBVIOUS
<1>3. PICK q : q = IF changes THEN EmitAbout(0, what) ELSE << >>
  OBVIOUS
<1>4. /\ todo["sim"] = << >>
      /\ todo' = [todo EXCEPT !["sim"] = q]
      /\ contact' = IF visible THEN "yes" ELSE "no"
      /\ UNCHANGED <<mission, counts, bus, tables>>
  BY <1>1, <1>2, <1>3 DEF UpdateContact, Idle
<1>5. what \in What /\ counts["received"] \in Nat
  BY DEF ContactEvent, What, ControlOK, Counter
<1>6. /\ q \in Seq(Fresh)
      /\ \A c : RowsOf(q, c) = {}
      /\ \A w : Announces(q, w) <=> (changes /\ w = what)
      /\ changes => Len(q) = 1
  <2>1. CASE changes
    <3>1. q = EmitAbout(0, what)
      BY <1>3, <2>1
    <3> QED BY <1>5, <2>1, <3>1, OneEvent
  <2>2. CASE ~changes
    BY <1>3, <2>2, NothingToDo
  <2> QED BY <2>1, <2>2
<1>7. /\ \A b \in Plain : /\ Held(b)' = Held(b) \union RowsOf(q, b)
                          /\ tx'[b] \subseteq Held(b)
      /\ OnlySim'
      /\ todo'["sim"] = q
      /\ \A w : Announced(w) = Cardinality({e \in bus : e.what = w}) + 0
  BY <1>4, <1>6, BeginsHeld
<1>8. RowsCounted' /\ FramesCounted'
  <2>1. \A b \in Plain : Held(b)' = Held(b) /\ tx'[b] \subseteq Held(b)
    BY <1>6, <1>7
  <2> QED BY <1>4, <2>1, SameHeld
<1>9. PICK i \in Nat : i = Cardinality({e \in bus : e.what = "GROUND_CONTACT_STARTED"})
  <2>1. {e \in bus : e.what = "GROUND_CONTACT_STARTED"} \subseteq bus
    OBVIOUS
  <2> QED BY <2>1, FS_Subset, FS_CardinalityType DEF RowsOK, BusOK
<1>10. PICK j \in Nat : j = Cardinality({e \in bus : e.what = "GROUND_CONTACT_LOST"})
  <2>1. {e \in bus : e.what = "GROUND_CONTACT_LOST"} \subseteq bus
    OBVIOUS
  <2> QED BY <2>1, FS_Subset, FS_CardinalityType DEF RowsOK, BusOK
<1>11. i - j = IF contact = "yes" THEN 1 ELSE 0
  <2>1. Announced("GROUND_CONTACT_STARTED") = i /\ Announced("GROUND_CONTACT_LOST") = j
    BY <1>7, <1>9, <1>10
  <2> QED BY <2>1 DEF Accounts, ContactCounted
<1>12. \A w : Announced(w)' = Cardinality({e \in bus : e.what = w})
                                + (IF changes /\ w = what THEN 1 ELSE 0)
  BY <1>4, <1>6, <1>7 DEF Announced, Announces
<1>13. Announced("GROUND_CONTACT_STARTED")' - Announced("GROUND_CONTACT_LOST")'
         = IF contact' = "yes" THEN 1 ELSE 0
  <2>1. CASE visible /\ contact = "yes"
    <3>1. ~changes /\ contact' = "yes"
      BY <1>2, <1>4, <2>1
    <3>2. Announced("GROUND_CONTACT_STARTED")' = i + 0 /\ Announced("GROUND_CONTACT_LOST")' = j + 0
      BY <1>9, <1>10, <1>12, <3>1
    <3> QED BY <1>11, <2>1, <3>1, <3>2
  <2>2. CASE visible /\ contact # "yes"
    <3>1. changes /\ contact' = "yes" /\ what = "GROUND_CONTACT_STARTED"
      BY <1>1, <1>2, <1>4, <2>2
    <3>2. Announced("GROUND_CONTACT_STARTED")' = i + 1 /\ Announced("GROUND_CONTACT_LOST")' = j + 0
      BY <1>9, <1>10, <1>12, <3>1
    <3> QED BY <1>11, <2>2, <3>1, <3>2
  <2>3. CASE ~visible /\ contact = "yes"
    <3>1. changes /\ contact' = "no" /\ what = "GROUND_CONTACT_LOST"
      BY <1>1, <1>2, <1>4, <2>3
    <3>2. Announced("GROUND_CONTACT_STARTED")' = i + 0 /\ Announced("GROUND_CONTACT_LOST")' = j + 1
      BY <1>9, <1>10, <1>12, <3>1
    <3> QED BY <1>11, <2>3, <3>1, <3>2
  <2>4. CASE ~visible /\ contact # "yes"
    <3>1. ~changes /\ contact' = "no"
      BY <1>2, <1>4, <2>4
    <3>2. Announced("GROUND_CONTACT_STARTED")' = i + 0 /\ Announced("GROUND_CONTACT_LOST")' = j + 0
      BY <1>9, <1>10, <1>12, <3>1
    <3> QED BY <1>11, <2>4, <3>1, <3>2
  <2> QED BY <2>1, <2>2, <2>3, <2>4
<1>14. \A w : Announces(todo'["sim"], w) => Len(todo'["sim"]) = 1
  BY <1>6, <1>7
<1>15. \A e \in bus' : e.n <= Cardinality(bus')
  BY <1>4 DEF Accounts, ContactCounted
<1>16. ContactCounted'
  BY <1>13, <1>14, <1>15 DEF ContactCounted, Announces
<1> QED BY <1>7, <1>8, <1>16 DEF Accounts

\* A request emits no contact event and inserts no packet or record itself.
LEMMA RequestCounts ==
  ASSUME RowsOK, ControlOK, Accounts, NEW t \in ApiThreads,
         NEW what \in {"TELECOMMAND_RECEIVED", "REPLAY_ATTACK_DETECTED"}, Request(t, what)
  PROVE  Accounts'
<1>1. PICK q : q = EmitAbout(0, what)
  OBVIOUS
<1>2. counts["received"] \in Nat /\ what \in What /\ what \notin ContactEvent /\ t \in Thread
  BY DEF ControlOK, Counter, What, ContactEvent, Thread
<1>3. /\ q \in Seq(Fresh)
      /\ \A c : RowsOf(q, c) = {}
      /\ \A w \in ContactEvent : ~Announces(q, w)
  BY <1>1, <1>2, OneEvent
<1>4. /\ todo[t] = << >>
      /\ todo' = [todo EXCEPT ![t] = q]
      /\ UNCHANGED <<mission, counts, contact, bus, tx, db, failed>>
  BY <1>1 DEF Request, memory, tables
<1>5. CallsOK'
  BY <1>2, <1>3, <1>4, BeginType DEF RowsOK
<1>6. todo'[t] = q /\ OnlyCall(t)
  BY <1>2, <1>4 DEF RowsOK, CallsOK, OnlyCall
<1>7. \A c : RowsOf(todo'[t], c) = RowsOf(todo[t], c)
  BY <1>3, <1>4, <1>6, NothingToDo
<1>8. \A w \in ContactEvent : Announces(todo'[t], w) <=> Announces(todo[t], w)
  BY <1>3, <1>4, <1>6, NothingToDo
<1>9. \A b \in Plain : Held(b)' = Held(b) /\ tx'[b] \subseteq Held(b)
  <2>1. \A c : RowsOf(todo'["sim"], c) = RowsOf(todo["sim"], c)
    BY <1>6, <1>7 DEF OnlyCall, Thread
  <2>2. \A b \in Plain : Held(b)' = Held(b)
    BY <1>4, <2>1 DEF Held, RowsOf, IsInsert
  <2> QED BY <1>4, <2>2 DEF Accounts, RowsCounted
<1>10. \A w \in ContactEvent : Announced(w)' = Announced(w)
  BY <1>2, <1>4, <1>6, <1>8, SameAnnounced
<1>11. \A e \in bus' : e.n <= Cardinality(bus')
  BY <1>4 DEF Accounts, ContactCounted
<1>12. \A b \in Plain : RowsOf(todo'[t], b) \subseteq RowsOf(todo[t], b)
  BY <1>7
<1>13. \A w \in ContactEvent :
         Announces(todo'[t], w) => Announces(todo[t], w) /\ Len(todo'[t]) <= Len(todo[t])
  BY <1>3, <1>6
<1> QED BY <1>2, <1>4, <1>5, <1>6, <1>9, <1>10, <1>11, <1>12, <1>13, AccountsStep DEF RowsOK

\* A process that has just started: nothing counted, nothing of this mission held.
StartsAnew ==
  /\ todo = [t \in Thread |-> IF t = "sim" THEN Startup ELSE << >>]
  /\ counts = [c \in Counter |-> 0]
  /\ bus = {} /\ contact = "unknown"
  /\ \A b \in Plain : tx[b] = {} /\ \A r \in db[b] \union failed[b] : r.mission # mission

\* Its accounts are right.
LEMMA StartBooked == StartsAnew => Accounts
<1> SUFFICES ASSUME StartsAnew PROVE Accounts
  OBVIOUS
<1> USE DEF StartsAnew
<1>1. "SYSTEM_BOOT" \in What /\ "SYSTEM_BOOT" \notin ContactEvent /\ counts["received"] \in Nat
  BY DEF What, ContactEvent, Counter
<1>2. \A t \in Thread : /\ \A c : RowsOf(todo[t], c) = {}
                        /\ \A w \in ContactEvent : ~Announces(todo[t], w)
  <2>1. /\ \A c : RowsOf(Startup, c) = {}
        /\ \A w \in ContactEvent : ~Announces(Startup, w)
    BY <1>1, OneEvent DEF Startup
  <2>2. ASSUME NEW t \in Thread PROVE todo[t] = Startup \/ todo[t] = << >>
    OBVIOUS
  <2> QED BY <2>1, <2>2, NothingToDo
<1>3. OnlySim
  BY <1>2 DEF OnlySim
<1>4. "sim" \in Thread
  BY DEF Thread
<1>5. \A b \in Plain : Ours(b) = {}
  BY <1>2, <1>4 DEF Ours, Held
<1>6. RowsCounted
  BY <1>5, FS_EmptySet DEF RowsCounted
<1>7. FramesCounted
  <2>1. \A b \in Plain : \A what : Due(b, what) = {}
    BY <1>5 DEF Due
  <2>2. "packets" \in Plain /\ "telemetry" \in Plain
    BY DEF Plain
  <2>3. \A b \in Plain : \A what : Cardinality(Due(b, what)) = 0
    BY <2>1, FS_EmptySet
  <2>4. /\ counts["accepted"] = 0 /\ counts["corrupted"] = 0 /\ counts["received"] = 0
        /\ counts["rejected"] = 0 /\ counts["raised"] = 0
    BY DEF Counter
  <2>5. /\ Cardinality(Due("packets", "ACCEPTED")) = 0
        /\ Cardinality(Due("packets", "CRC_FAILURE")) = 0
        /\ Cardinality(Due("telemetry", "harmless")) = 0
        /\ Cardinality(Due("telemetry", "critical")) = 0
    BY <2>2, <2>3
  <2> QED BY <2>4, <2>5 DEF FramesCounted
<1>8. ContactCounted
  <2>1. \A w \in ContactEvent : Announced(w) = 0
    <3>1. \A w : {e \in bus : e.what = w} = {}
      OBVIOUS
    <3> QED BY <1>2, <1>4, <3>1, FS_EmptySet DEF Announced
  <2>2. "GROUND_CONTACT_STARTED" \in ContactEvent /\ "GROUND_CONTACT_LOST" \in ContactEvent
    BY DEF ContactEvent
  <2> QED BY <1>2, <1>4, <2>1, <2>2 DEF ContactCounted
<1> QED BY <1>3, <1>6, <1>7, <1>8 DEF Accounts

\* Both starts are of this kind: on a fresh database, and on one with rows of earlier missions.
LEMMA Starts ==
  /\ Init => StartsAnew
  /\ RowsOK /\ ControlOK /\ Restart => StartsAnew'
<1>1. ASSUME Init PROVE StartsAnew
  <2>1. Plain \subseteq Table
    BY DEF Plain, Table
  <2> QED BY <1>1, <2>1 DEF Init, NoRows, StartsAnew
<1>2. ASSUME RowsOK, ControlOK, Restart PROVE StartsAnew'
  <2>1. Plain \subseteq Table
    BY DEF Plain, Table
  <2>2. \A b \in Plain : tx'[b] = {}
    BY <1>2, <2>1 DEF Restart, NoRows
  <2>3. ASSUME NEW b \in Plain, NEW r \in db'[b] \union failed'[b]
        PROVE  r.mission # mission'
    <3>1. b \in Table /\ r \in db[b] \union failed[b]
      BY <1>2, <2>1 DEF Restart
    <3>2. r.mission <= mission /\ r.mission \in Nat
      BY <1>2, <3>1 DEF RowsOK, MissionsOK, TablesOK, RowSet
    <3>3. mission' = mission + 1 /\ mission \in Nat
      BY <1>2 DEF Restart, ControlOK
    <3> QED BY <3>2, <3>3
  <2> QED BY <1>2, <2>2, <2>3 DEF Restart, StartsAnew
<1> QED BY <1>1, <1>2

\* Every step keeps the account: one step of the proof for each action of Next.
LEMMA AccountsKept ==
  ASSUME RowsOK, ControlOK, Accounts, [Next]_vars, StartsAnew' => Accounts'
  PROVE  Accounts'
<1>1. mission \in Nat /\ counts \in [Counter -> Nat] /\ validator \in Validator
  BY DEF ControlOK
<1>2. ASSUME NEW sent \in SequenceNumber, OnDownlink(sent)
      PROVE  Accounts'
  <2>1. Ready
    BY <1>1, <1>2 DEF OnDownlink, Arrives, Idle, Ready
  <2>2. \/ RejectMalformed \/ RejectCorrupted
        \/ \E s \in SequenceNumber :
             RejectUndecodable(s) \/ DecoderRaises(s) \/ \E reading \in Readings : AcceptRecord(s, reading)
    BY <1>2 DEF OnDownlink
  <2> QED BY <2>1, <2>2, MalformedBooked, CorruptedBooked, UndecodedBooked, AcceptedBooked
<1>3. CASE Remember
  BY <1>3, SameCounts DEF Remember
<1>4. ASSUME NEW visible \in BOOLEAN, UpdateContact(visible)
      PROVE  Accounts'
  BY <1>4, ContactKept
<1>5. ASSUME NEW t \in ApiThreads,
             NEW what \in {"TELECOMMAND_RECEIVED", "REPLAY_ATTACK_DETECTED"}, Request(t, what)
      PROVE  Accounts'
  BY <1>5, RequestCounts
<1>6. ASSUME NEW t \in Thread, ThreadStep(t)
      PROVE  Accounts'
  BY <1>1, <1>6, EmitEventCounts, ExecuteCounts, CommitCounts, RaiseCounts DEF ThreadStep
<1>7. CASE Restart
  BY <1>7, Starts
<1>8. CASE UNCHANGED vars
  BY <1>8, SameCounts DEF vars, memory
<1> QED BY <1>2, <1>3, <1>4, <1>5, <1>6, <1>7, <1>8 DEF Next

(***************************************************************************)
(* CountersMatchTables, the two halves of /api/packets/statistics: between *)
(* two frames the counters of the station are the packets and the records  *)
(* of this mission in the tables, with the inserts that raised.            *)
(***************************************************************************)
THEOREM StatisticsAgree == Spec => []CountersMatchTables
<1>1. Init => RowsOK /\ ControlOK /\ Accounts
  BY Initially, Starts, StartBooked
<1>2. (StartsAnew => Accounts)'
  BY StartBooked, PTL
<1>3. (RowsOK /\ ControlOK /\ Accounts) /\ [Next]_vars => (RowsOK /\ ControlOK /\ Accounts)'
  BY <1>2, Inductive, AccountsKept
<1>4. RowsOK /\ ControlOK /\ Accounts => CountersMatchTables
  <2> SUFFICES ASSUME RowsOK, Accounts, todo["sim"] = << >> PROVE CountersMatchTables
    BY DEF CountersMatchTables, Idle
  <2>1. "packets" \in Plain /\ "telemetry" \in Plain
    BY DEF Plain
  <2>2. \A b \in Plain : \A what : Logged(b, what) = Cardinality(Due(b, what))
    <3>1. \A b \in Plain : Held(b) = db[b] \union failed[b]
      BY NothingToDo DEF Held
    <3>2. ASSUME NEW b \in Plain, NEW what
          PROVE  {r \in db[b] \union failed[b] : r.mission = mission /\ r.what = what}
                   = Due(b, what)
      BY <3>1 DEF Due, Ours
    <3> QED BY <3>2 DEF Logged
  <2>3. ASSUME NEW w \in ContactEvent
        PROVE  Announced(w) = Cardinality({e \in bus : e.what = w})
    <3>1. {e \in bus : e.what = w} \subseteq bus
      OBVIOUS
    <3>2. PICK n \in Nat : n = Cardinality({e \in bus : e.what = w})
      BY <3>1, FS_Subset, FS_CardinalityType DEF RowsOK, BusOK
    <3>3. Announced(w) = n + 0
      BY <3>2, NothingToDo DEF Announced
    <3> QED BY <3>2, <3>3
  <2>4. Cardinality({e \in bus : e.what = "GROUND_CONTACT_STARTED"})
          - Cardinality({e \in bus : e.what = "GROUND_CONTACT_LOST"})
        = IF contact = "yes" THEN 1 ELSE 0
    <3>1. "GROUND_CONTACT_STARTED" \in ContactEvent /\ "GROUND_CONTACT_LOST" \in ContactEvent
      BY DEF ContactEvent
    <3> QED BY <2>3, <3>1 DEF Accounts, ContactCounted
  <2> QED BY <2>1, <2>2, <2>4 DEF Accounts, FramesCounted, CountersMatchTables
<1> QED BY <1>1, <1>3, <1>4, PTL DEF Spec
===============================================================================
