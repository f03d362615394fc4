------------------------- MODULE StoreAndForwardProofs -------------------------
(***************************************************************************)
(* Theorems about telemetry on its way to the ground station, for every    *)
(* capacity of the queue, every size of a batch, every memory of the       *)
(* validator and any number of records: every record is in one place, all  *)
(* of them are accounted for, and the counter of missing frames adds up.   *)
(***************************************************************************)
EXTENDS StoreAndForward, FiniteSetTheorems, FunctionTheorems, SequenceTheorems, TLAPS

-------------------------------------------------------------------------------
(* Lemmas about the onboard queue *)

\* Taken for its lemmas about one call of enqueue or drain; these are about any
\* queue, and do not depend on what the variables stand for.
Onboard == INSTANCE OnboardStorageProofs
             WITH Limits <- Int, dropped <- 0, next <- 0, offered <- 0, drained <- 0

Holds(q, record) == Onboard!Holds(q, record)
NoneTwice(q) == Onboard!NoneTwice(q)

\* What the instance assumes of its parameters.
LEMMA OnboardAssumptions ==
  /\ ConfiguredCapacity \in Nat \ {0} /\ FaultCapacity \in Nat \ {0}
  /\ Int \subseteq Int /\ MaxRecords \in Nat
  BY CapacityAssumption, MaxRecordsAssumption

\* Both speak of the same operations.
LEMMA OnboardIsTheQueue ==
  /\ Onboard!Priority = Priority
  /\ \A S : Onboard!Queue(S) = Queue(S)
  /\ \A q : Onboard!Used(q) = Used(q)
  /\ \A q, cap : Onboard!Drops(q, cap) = Drops(q, cap)
  /\ \A q, cap, p, r : Onboard!Enqueued(q, cap, p, r) = Enqueued(q, cap, p, r)
  /\ \A q, limit : Onboard!DrainCount(q, limit) = DrainCount(q, limit)
  /\ \A q, limit : Onboard!Drained(q, limit) = Drained(q, limit)
  /\ \A q, limit : Onboard!AfterDrain(q, limit) = AfterDrain(q, limit)
<1>1. Onboard!Priority = Priority /\ \A S : Onboard!Queue(S) = Queue(S)
  BY DEF Onboard!Priority, Priority, Onboard!Queue, Queue
<1>2. \A q : Onboard!Used(q) = Used(q)
  BY DEF Onboard!Used, Used
<1>3. /\ \A q, cap : Onboard!Drops(q, cap) = Drops(q, cap)
      /\ \A q, cap, p, r : Onboard!Enqueued(q, cap, p, r) = Enqueued(q, cap, p, r)
  BY DEF Onboard!Priority, Priority, Onboard!Used, Used, Onboard!Rank, Rank,
         Onboard!Victim, Victim, Onboard!MakeRoom, MakeRoom, Onboard!Stores, Stores,
         Onboard!Drops, Drops, Onboard!Enqueued, Enqueued
<1>4. \A q, limit : Onboard!DrainCount(q, limit) = DrainCount(q, limit)
  BY DEF Onboard!DrainCount, DrainCount, Onboard!Used, Used
<1>5. /\ \A q, limit : Onboard!Drained(q, limit) = Drained(q, limit)
      /\ \A q, limit : Onboard!AfterDrain(q, limit) = AfterDrain(q, limit)
  BY DEF Onboard!Used, Used, Onboard!DrainCount, DrainCount, Onboard!Scheduled, Scheduled,
         Onboard!Drained, Drained, Onboard!Taken, Taken, Onboard!Priority, Priority,
         Onboard!AfterDrain, AfterDrain
<1> QED BY <1>1, <1>2, <1>3, <1>4, <1>5

\* len(self) is a natural number.
LEMMA UsedType ==
  ASSUME NEW q \in Queue(Nat)
  PROVE  Used(q) \in Nat
<1>1. Onboard!Used(q) \in Nat
  <2>1. q \in Onboard!Queue(Nat)
    BY OnboardIsTheQueue
  <2> QED BY <2>1, OnboardAssumptions, Onboard!UsedNat
<1> QED BY <1>1, OnboardIsTheQueue

(***************************************************************************)
(* enqueue stores its record, drops it or drops another one, and puts      *)
(* nothing else into the queue.                                            *)
(***************************************************************************)
LEMMA EnqueuedIs ==
  ASSUME NEW q \in Queue(Nat), NEW cap \in Nat \ {0}, NEW p \in Priority, NEW r \in Nat,
         NoneTwice(q), ~Holds(q, r)
  PROVE  /\ Enqueued(q, cap, p, r) \in Queue(Nat)
         /\ Drops(q, cap) \in Nat
         /\ Used(Enqueued(q, cap, p, r)) + Drops(q, cap) = Used(q) + 1
         /\ NoneTwice(Enqueued(q, cap, p, r))
         /\ \A record : Holds(Enqueued(q, cap, p, r), record) => Holds(q, record) \/ record = r
<1>1. q \in Onboard!Queue(Nat) /\ p \in Onboard!Priority
  BY OnboardIsTheQueue
<1>2. /\ Onboard!Enqueued(q, cap, p, r) \in Onboard!Queue(Nat)
      /\ Onboard!Drops(q, cap) \in Nat
      /\ Onboard!Used(Onboard!Enqueued(q, cap, p, r)) + Onboard!Drops(q, cap)
           = Onboard!Used(q) + 1
  BY <1>1, OnboardAssumptions, Onboard!EnqueuedUsed
<1>3. /\ Onboard!NoneTwice(Onboard!Enqueued(q, cap, p, r))
      /\ \A record : Onboard!Holds(Onboard!Enqueued(q, cap, p, r), record)
                       => Onboard!Holds(q, record) \/ record = r
  BY <1>1, OnboardAssumptions, Onboard!EnqueuedRecords DEF NoneTwice, Holds
<1> QED BY <1>2, <1>3, OnboardIsTheQueue DEF NoneTwice, Holds

(***************************************************************************)
(* drain splits the queue into the records it hands out and those it       *)
(* leaves.                                                                 *)
(***************************************************************************)
LEMMA DrainIs ==
  ASSUME NEW q \in Queue(Nat), NEW limit \in Int, NoneTwice(q)
  PROVE  /\ AfterDrain(q, limit) \in Queue(Nat)
         /\ Drained(q, limit) \in Seq(Nat)
         /\ Used(AfterDrain(q, limit)) + Len(Drained(q, limit)) = Used(q)
         /\ NoneTwice(AfterDrain(q, limit))
         /\ \A record : Holds(AfterDrain(q, limit), record) => Holds(q, record)
         /\ \A j \in 1 .. Len(Drained(q, limit)) :
              /\ Holds(q, Drained(q, limit)[j])
              /\ ~Holds(AfterDrain(q, limit), Drained(q, limit)[j])
         /\ \A j, k \in 1 .. Len(Drained(q, limit)) :
              Drained(q, limit)[j] = Drained(q, limit)[k] => j = k
<1>1. q \in Onboard!Queue(Nat)
  BY OnboardIsTheQueue
<1>2. /\ Onboard!DrainCount(q, limit) \in 0 .. Onboard!Used(q)
      /\ Onboard!AfterDrain(q, limit) \in Onboard!Queue(Nat)
      /\ Onboard!Used(Onboard!AfterDrain(q, limit)) + Len(Onboard!Drained(q, limit))
           = Onboard!Used(q)
  BY <1>1, OnboardAssumptions, Onboard!DrainUsed, Onboard!TakenAddsUp
<1>3. /\ Onboard!NoneTwice(Onboard!AfterDrain(q, limit))
      /\ \A record : Onboard!Holds(Onboard!AfterDrain(q, limit), record) => Onboard!Holds(q, record)
      /\ \A j \in 1 .. Len(Onboard!Drained(q, limit)) :
           /\ Onboard!Holds(q, Onboard!Drained(q, limit)[j])
           /\ ~Onboard!Holds(Onboard!AfterDrain(q, limit), Onboard!Drained(q, limit)[j])
      /\ \A j, k \in 1 .. Len(Onboard!Drained(q, limit)) :
           Onboard!Drained(q, limit)[j] = Onboard!Drained(q, limit)[k] => j = k
  BY <1>1, OnboardAssumptions, Onboard!DrainedRecords DEF NoneTwice
<1>4. Drained(q, limit) \in Seq(Nat)
  <2>1. /\ q["CRITICAL"] \in Seq(Nat) /\ q["NORMAL"] \in Seq(Nat) /\ q["LOW"] \in Seq(Nat)
    BY DEF Queue, Priority
  <2>2. Scheduled(q) \in Seq(Nat) /\ Len(Scheduled(q)) = Used(q)
    BY <2>1 DEF Scheduled, Used
  <2>3. DrainCount(q, limit) \in 0 .. Used(q) /\ Used(q) \in Nat
    BY <1>2, OnboardIsTheQueue, UsedType
  <2> DEFINE s == Scheduled(q)
             n == DrainCount(q, limit)
  <2>4. s \in Seq(Nat) /\ n \in 0 .. Len(s)
    BY <2>2, <2>3
  <2> HIDE DEF s, n
  <2>5. SubSeq(s, 1, n) \in Seq(Nat)
    BY <2>4
  <2> QED BY <2>5 DEF Drained, s, n
<1> QED BY <1>2, <1>3, <1>4, OnboardIsTheQueue DEF NoneTwice, Holds

\* A drain with a limit hands out no more than that.
LEMMA BatchSize ==
  ASSUME NEW q \in Queue(Nat)
  PROVE  Len(Drained(q, DrainPerTick)) <= DrainPerTick
<1>1. Used(q) \in Nat /\ DrainPerTick \in Nat /\ DrainPerTick > 0
  BY UsedType, DrainAssumption
<1>2. /\ q["CRITICAL"] \in Seq(Nat) /\ q["NORMAL"] \in Seq(Nat) /\ q["LOW"] \in Seq(Nat)
  BY DEF Queue, Priority
<1>3. Scheduled(q) \in Seq(Nat) /\ Len(Scheduled(q)) = Used(q)
  BY <1>2 DEF Scheduled, Used
<1>4. PICK s \in Seq(Nat), n \in Nat :
        s = Scheduled(q) /\ n = DrainCount(q, DrainPerTick) /\ n <= DrainPerTick /\ n <= Len(s)
  BY <1>1, <1>3 DEF DrainCount
<1>5. Len(SubSeq(s, 1, n)) = n
  BY <1>4
<1> QED BY <1>4, <1>5 DEF Drained

\* The empty queue.
LEMMA EmptyQueueIs ==
  /\ EmptyQueue \in Queue(Nat) /\ Used(EmptyQueue) = 0 /\ NoneTwice(EmptyQueue)
  /\ \A record : ~Holds(EmptyQueue, record)
<1>1. \A p \in Priority : EmptyQueue[p] = << >> /\ Len(EmptyQueue[p]) = 0
  BY DEF EmptyQueue
<1>2. << >> \in Seq(Nat)
  OBVIOUS
<1>3. EmptyQueue \in Queue(Nat)
  BY <1>2 DEF EmptyQueue, Queue
<1>4. Used(EmptyQueue) = 0
  <2>1. /\ Len(EmptyQueue["CRITICAL"]) = 0 /\ Len(EmptyQueue["NORMAL"]) = 0
        /\ Len(EmptyQueue["LOW"]) = 0
    BY <1>1 DEF Priority
  <2> QED BY <2>1 DEF Used
<1>5. NoneTwice(EmptyQueue) /\ \A record : ~Holds(EmptyQueue, record)
  BY <1>1 DEF NoneTwice, Holds, Onboard!NoneTwice, Onboard!Holds, Onboard!Priority, Priority
<1> QED BY <1>3, <1>4, <1>5

-------------------------------------------------------------------------------
(* The invariant *)

\* A record is in one place: its place in the queue, its frame, or the memory
\* of the validator.
OnePlace ==
  /\ NoneTwice(queue)
  /\ \A s : Holds(queue, s) => s \in FirstSequence .. sequence - 1
  /\ \A f \in inFlight : ~Holds(queue, f.seq)
  /\ \A f, g \in inFlight : f.seq = g.seq => f = g
  /\ \A i \in 1 .. Len(validator.recent) :
       /\ validator.recent[i] < sequence
       /\ ~Holds(queue, validator.recent[i])
       /\ \A f \in inFlight : f.seq # validator.recent[i]

\* Before the first intact frame there is nothing to expect and nothing to count.
NothingYet ==
  /\ first = 0 <=> validator.expected = 0
  /\ first = 0 => \A c \in {"accepted", "missing", "late", "duplicates"} : counts[c] = 0

Finite == IsFiniteSet(inFlight)

\* What the steps need of each other.
BaseInv == TypeOK /\ sequence >= FirstSequence /\ Finite /\ OnePlace

Inv == BaseInv /\ NothingYet /\ EveryRecordIsAccounted /\ MissingAddsUp

-------------------------------------------------------------------------------
(* Lemmas about counting *)

\* A set counted by another one.
LEMMA CountOnto ==
  ASSUME NEW S, NEW T, IsFiniteSet(S), NEW f \in [S -> T],
         \A a, b \in S : f[a] = f[b] => a = b,
         \A t \in T : \E s \in S : f[s] = t
  PROVE  IsFiniteSet(T) /\ Cardinality(T) = Cardinality(S)
<1>1. f \in Bijection(S, T)
  BY Fun_IsBij
<1> QED BY <1>1, FS_Bijection DEF ExistsBijection

\* As many records as positions, if none is sent twice.
LEMMA RecordsCount ==
  ASSUME NEW records \in Seq(Nat),
         \A i, j \in 1 .. Len(records) : records[i] = records[j] => i = j
  PROVE  /\ IsFiniteSet({records[i] : i \in 1 .. Len(records)})
         /\ Cardinality({records[i] : i \in 1 .. Len(records)}) = Len(records)
<1> DEFINE S == 1 .. Len(records)
           T == {records[i] : i \in S}
           f == [i \in S |-> records[i]]
<1>1. IsFiniteSet(S) /\ Cardinality(S) = Len(records)
  <2>1. PICK n \in Nat : n = Len(records)
    OBVIOUS
  <2>2. IsFiniteSet(1 .. n) /\ Cardinality(1 .. n) = IF 1 > n THEN 0 ELSE n - 1 + 1
    BY FS_Interval
  <2>3. Cardinality(1 .. n) = n
    BY <2>2
  <2> QED BY <2>1, <2>2, <2>3
<1>2. f \in [S -> T] /\ \A i \in S : f[i] = records[i]
  OBVIOUS
<1>3. \A a, b \in S : f[a] = f[b] => a = b
  BY <1>2
<1>4. \A t \in T : \E s \in S : f[s] = t
  BY <1>2
<1> HIDE DEF S, T, f
<1>5. IsFiniteSet(T) /\ Cardinality(T) = Cardinality(S)
  BY <1>1, <1>2, <1>3, <1>4, CountOnto
<1> QED BY <1>1, <1>5 DEF S, T

Frames(sent, corrupt) == {[seq |-> s, intact |-> s \notin corrupt] : s \in sent}

\* As many frames as records.
LEMMA FramesCount ==
  ASSUME NEW sent, NEW corrupt, IsFiniteSet(sent)
  PROVE  /\ IsFiniteSet(Frames(sent, corrupt))
         /\ Cardinality(Frames(sent, corrupt)) = Cardinality(sent)
         /\ \A f \in Frames(sent, corrupt) : f.seq \in sent /\ f.intact \in BOOLEAN
         /\ \A f \in Frames(sent, corrupt) : f = [seq |-> f.seq, intact |-> f.intact]
         /\ \A f, g \in Frames(sent, corrupt) : f.seq = g.seq => f = g
<1> DEFINE T == Frames(sent, corrupt)
           f == [s \in sent |-> [seq |-> s, intact |-> s \notin corrupt]]
<1>1. f \in [sent -> T] /\ \A s \in sent : f[s].seq = s
  BY DEF Frames
<1>2. \A t \in T : \E s \in sent : f[s] = t
  BY DEF Frames
<1>3. \A a, b \in sent : f[a] = f[b] => a = b
  BY <1>1
<1>4. \A g \in T : /\ g.seq \in sent /\ g.intact \in BOOLEAN
                   /\ g = [seq |-> g.seq, intact |-> g.intact]
  <2>1. ASSUME NEW g \in T
        PROVE  /\ g.seq \in sent /\ g.intact \in BOOLEAN
               /\ g = [seq |-> g.seq, intact |-> g.intact]
    <3>1. PICK s \in sent : g = [seq |-> s, intact |-> s \notin corrupt]
      BY DEF Frames
    <3>2. PICK b \in BOOLEAN : b = (s \notin corrupt)
      OBVIOUS
    <3>3. g = [seq |-> s, intact |-> b]
      BY <3>1, <3>2
    <3> QED BY <3>3
  <2> QED BY <2>1
<1>5. \A g, h \in T : g.seq = h.seq => g = h
  BY DEF Frames
<1> HIDE DEF f, T
<1>6. IsFiniteSet(T) /\ Cardinality(T) = Cardinality(sent)
  BY <1>1, <1>2, <1>3, CountOnto
<1> QED BY <1>4, <1>5, <1>6 DEF T

\* What is left of a finite set.
LEMMA DifferenceCount ==
  ASSUME NEW S, IsFiniteSet(S), NEW T \in SUBSET S
  PROVE  /\ IsFiniteSet(T) /\ IsFiniteSet(S \ T)
         /\ Cardinality(S \ T) \in Nat /\ Cardinality(T) \in Nat
         /\ Cardinality(S \ T) + Cardinality(T) = Cardinality(S)
<1>1. IsFiniteSet(T) /\ IsFiniteSet(S \ T)
  BY FS_Subset
<1>2. (S \ T) \union T = S /\ (S \ T) \intersect T = {}
  OBVIOUS
<1>3. Cardinality(S) = Cardinality(S \ T) + Cardinality(T) - 0
  BY <1>1, <1>2, FS_Union, FS_EmptySet
<1>4. Cardinality(S \ T) \in Nat /\ Cardinality(T) \in Nat
  BY <1>1, FS_CardinalityType
<1> QED BY <1>1, <1>3, <1>4

\* Two finite sets with nothing in common.
LEMMA UnionCount ==
  ASSUME NEW S, NEW T, IsFiniteSet(S), IsFiniteSet(T), S \intersect T = {}
  PROVE  /\ IsFiniteSet(S \union T)
         /\ Cardinality(S \union T) = Cardinality(S) + Cardinality(T)
<1>1. Cardinality(S \union T) = Cardinality(S) + Cardinality(T) - 0 /\ IsFiniteSet(S \union T)
  BY FS_Union, FS_EmptySet
<1>2. Cardinality(S) \in Nat /\ Cardinality(T) \in Nat
  BY FS_CardinalityType
<1> QED BY <1>1, <1>2

-------------------------------------------------------------------------------
(* Lemmas about the actions *)

\* An element of a sequence of numbers.
LEMMA ElementIsNat ==
  ASSUME NEW s \in Seq(Nat), NEW i \in 1 .. Len(s)
  PROVE  s[i] \in Nat
  OBVIOUS

\* The parameters are numbers.
LEMMA Numbers ==
  FirstSequence \in Nat /\ FirstSequence > 0 /\ DrainPerTick \in Nat \ {0}
  BY FirstSequenceAssumption, DrainAssumption

\* produce_telemetry returns two records at most.
LEMMA ProductionsAre ==
  ASSUME NEW priorities \in Productions
  PROVE  /\ Len(priorities) \in {0, 1, 2}
         /\ \A i \in 1 .. Len(priorities) : priorities[i] \in Priority
<1>1. CASE priorities = << >>
  BY <1>1
<1>2. ASSUME NEW p \in {"CRITICAL", "NORMAL"}, priorities = <<p>>
      PROVE  /\ Len(priorities) \in {0, 1, 2}
             /\ \A i \in 1 .. Len(priorities) : priorities[i] \in Priority
  BY <1>2 DEF Priority
<1>3. ASSUME NEW p \in {"CRITICAL", "NORMAL"}, priorities = <<p, "LOW">>
      PROVE  /\ Len(priorities) \in {0, 1, 2}
             /\ \A i \in 1 .. Len(priorities) : priorities[i] \in Priority
  BY <1>3 DEF Priority
<1> QED BY <1>1, <1>2, <1>3 DEF Productions

(***************************************************************************)
(* The new records are stored, dropped or have displaced others, and the   *)
(* queue holds nothing else that it did not hold.                          *)
(***************************************************************************)
LEMMA EnqueueAllIs ==
  ASSUME BaseInv, NEW cap \in Nat \ {0}, NEW priorities, Len(priorities) \in {0, 1, 2},
         \A i \in 1 .. Len(priorities) : priorities[i] \in Priority,
         NEW result, result = EnqueueAll(priorities, cap)
  PROVE  /\ result.queue \in Queue(Nat) /\ result.drops \in Nat
         /\ Used(result.queue) + result.drops = Used(queue) + Len(priorities)
         /\ NoneTwice(result.queue)
         /\ \A s : Holds(result.queue, s) =>
              Holds(queue, s) \/ s \in sequence .. sequence + Len(priorities) - 1
<1>1. queue \in Queue(Nat) /\ sequence \in Nat /\ NoneTwice(queue) /\ Used(queue) \in Nat
  BY UsedType DEF BaseInv, TypeOK, OnePlace
<1>2. \A s : Holds(queue, s) => s \in Nat /\ s < sequence
  BY <1>1, Numbers DEF BaseInv, OnePlace
<1>3. CASE Len(priorities) = 0
  <2>1. result = [queue |-> queue, drops |-> 0]
    BY <1>3 DEF EnqueueAll
  <2> QED BY <1>1, <1>3, <2>1
<1>4. ASSUME Len(priorities) \in {1, 2}
      PROVE  \E e \in Queue(Nat), d \in Nat :
               /\ e = Enqueued(queue, cap, priorities[1], sequence) /\ d = Drops(queue, cap)
               /\ Used(e) + d = Used(queue) + 1 /\ NoneTwice(e)
               /\ \A s : Holds(e, s) => Holds(queue, s) \/ s = sequence
  <2>1. priorities[1] \in Priority
    BY <1>4
  <2>2. ~Holds(queue, sequence)
    BY <1>1, <1>2
  <2> QED BY <1>1, <2>1, <2>2, EnqueuedIs
<1>5. sequence + 1 - 1 = sequence /\ sequence + 2 - 1 = sequence + 1
  BY <1>1
<1>6. CASE Len(priorities) = 1
  <2>1. PICK e \in Queue(Nat), d \in Nat :
          /\ e = Enqueued(queue, cap, priorities[1], sequence) /\ d = Drops(queue, cap)
          /\ Used(e) + d = Used(queue) + 1 /\ NoneTwice(e)
          /\ \A s : Holds(e, s) => Holds(queue, s) \/ s = sequence
    BY <1>4, <1>6
  <2>2. result = [queue |-> e, drops |-> 0 + d]
    BY <1>5, <1>6, <2>1 DEF EnqueueAll
  <2>3. result.queue = e /\ result.drops = d
    BY <2>2
  <2> QED BY <1>1, <1>6, <2>1, <2>3
<1>7. CASE Len(priorities) = 2
  <2>1. PICK e \in Queue(Nat), d \in Nat :
          /\ e = Enqueued(queue, cap, priorities[1], sequence) /\ d = Drops(queue, cap)
          /\ Used(e) + d = Used(queue) + 1 /\ NoneTwice(e)
          /\ \A s : Holds(e, s) => Holds(queue, s) \/ s = sequence
    BY <1>4, <1>7
  <2>2. ~Holds(e, sequence + 1) /\ priorities[2] \in Priority /\ sequence + 1 \in Nat
    BY <1>1, <1>2, <1>7, <2>1
  <2>3. PICK h \in Queue(Nat), c \in Nat :
          /\ h = Enqueued(e, cap, priorities[2], sequence + 1) /\ c = Drops(e, cap)
          /\ Used(h) + c = Used(e) + 1 /\ NoneTwice(h)
          /\ \A s : Holds(h, s) => Holds(e, s) \/ s = sequence + 1
    BY <2>1, <2>2, EnqueuedIs
  <2>4. result = [queue |-> h, drops |-> 0 + d + c]
    BY <1>5, <1>7, <2>1, <2>3 DEF EnqueueAll
  <2>5. result.queue = h /\ result.drops = d + c
    BY <2>4
  <2>6. PICK x \in Nat, y \in Nat, z \in Nat :
          x = Used(queue) /\ y = Used(e) /\ z = Used(h)
    BY <1>1, UsedType
  <2>7. Used(h) + (d + c) = Used(queue) + 2
    <3>1. y + d = x + 1 /\ z + c = y + 1
      BY <2>1, <2>3, <2>6
    <3>2. z + (d + c) = x + 2
      BY <3>1
    <3> QED BY <2>6, <3>2
  <2>8. \A s : Holds(h, s) => Holds(queue, s) \/ s \in sequence .. sequence + 2 - 1
    BY <1>1, <2>1, <2>3
  <2> QED BY <1>7, <2>3, <2>5, <2>7, <2>8
<1> QED BY <1>3, <1>6, <1>7

\* Two counters go up.
LEMMA TwoCounters ==
  ASSUME NEW f \in [Counter -> Nat], NEW a \in Counter, NEW b \in Counter, a # b,
         NEW n \in Nat, NEW m \in Nat, NEW g, g = [f EXCEPT ![a] = @ + n, ![b] = @ + m]
  PROVE  /\ g \in [Counter -> Nat] /\ g[a] = f[a] + n /\ g[b] = f[b] + m
         /\ \A c \in Counter : c # a /\ c # b => g[c] = f[c]
  OBVIOUS

(***************************************************************************)
(* The open link: each record sent is lost or under way.                   *)
(***************************************************************************)
LEMMA ChannelIs ==
  ASSUME BaseInv, NEW sent, NEW losable \in SUBSET sent, NEW calls \in Nat, IsFiniteSet(sent),
         \A s \in sent : \A f \in inFlight : f.seq # s,
         Channel(sent, losable, calls)
  PROVE  /\ counts' \in [Counter -> Nat]
         /\ \A c \in Counter \ {"transmitted", "lost"} : counts'[c] = counts[c]
         /\ IsFiniteSet(inFlight')
         /\ \A f \in inFlight' :
              \/ f \in inFlight
              \/ f.seq \in sent /\ f.intact \in BOOLEAN /\ f = [seq |-> f.seq, intact |-> f.intact]
         /\ \A f, g \in inFlight' : f.seq = g.seq => f = g
         /\ Cardinality(inFlight') + counts'["lost"]
              = Cardinality(inFlight) + counts["lost"] + Cardinality(sent)
<1>0. /\ counts \in [Counter -> Nat] /\ IsFiniteSet(inFlight) /\ Cardinality(inFlight) \in Nat
      /\ \A f, g \in inFlight : f.seq = g.seq => f = g
  BY FS_CardinalityType DEF BaseInv, TypeOK, Finite, OnePlace
<1>1. "transmitted" \in Counter /\ "lost" \in Counter /\ counts["lost"] \in Nat
  BY <1>0 DEF Counter
<1>2. PICK lost \in SUBSET losable : \E corrupt \in SUBSET (sent \ lost) :
        /\ inFlight' = inFlight \union
             {[seq |-> s, intact |-> s \notin corrupt] : s \in sent \ lost}
        /\ counts' = [counts EXCEPT !["transmitted"] = @ + calls,
                                    !["lost"] = @ + Cardinality(lost)]
  BY DEF Channel
<1>3. PICK corrupt \in SUBSET (sent \ lost) :
        /\ inFlight' = inFlight \union
             {[seq |-> s, intact |-> s \notin corrupt] : s \in sent \ lost}
        /\ counts' = [counts EXCEPT !["transmitted"] = @ + calls,
                                    !["lost"] = @ + Cardinality(lost)]
  BY <1>2
<1> DEFINE new == Frames(sent \ lost, corrupt)
<1>4. inFlight' = inFlight \union new
  BY <1>3 DEF Frames
<1>5. /\ IsFiniteSet(sent \ lost) /\ Cardinality(lost) \in Nat /\ Cardinality(sent \ lost) \in Nat
      /\ Cardinality(sent \ lost) + Cardinality(lost) = Cardinality(sent)
  <2>1. lost \in SUBSET sent
    OBVIOUS
  <2> QED BY <2>1, DifferenceCount
<1>6. /\ IsFiniteSet(new) /\ Cardinality(new) = Cardinality(sent \ lost)
      /\ \A f \in new : f.seq \in sent \ lost /\ f.intact \in BOOLEAN
      /\ \A f \in new : f = [seq |-> f.seq, intact |-> f.intact]
      /\ \A f, g \in new : f.seq = g.seq => f = g
  BY <1>5, FramesCount
<1> HIDE DEF new
<1>7. inFlight \intersect new = {}
  BY <1>6
<1>8. /\ IsFiniteSet(inFlight')
      /\ Cardinality(inFlight') = Cardinality(inFlight) + Cardinality(sent \ lost)
  <2>1. IsFiniteSet(new) /\ Cardinality(new) = Cardinality(sent \ lost)
    BY <1>6
  <2>2. IsFiniteSet(inFlight)
    BY <1>0
  <2>3. /\ IsFiniteSet(inFlight \union new)
        /\ Cardinality(inFlight \union new) = Cardinality(inFlight) + Cardinality(new)
    BY ONLY <1>7, <2>1, <2>2, UnionCount
  <2> QED BY ONLY <1>4, <2>1, <2>3
<1>9. PICK m \in Nat : m = Cardinality(lost)
  BY <1>5
<1>10. counts' = [counts EXCEPT !["transmitted"] = @ + calls, !["lost"] = @ + m]
  BY <1>3, <1>9
<1>11. /\ counts' \in [Counter -> Nat] /\ counts'["lost"] = counts["lost"] + m
       /\ \A c \in Counter \ {"transmitted", "lost"} : counts'[c] = counts[c]
  BY <1>0, <1>1, <1>10, TwoCounters
<1>12. Cardinality(inFlight') + counts'["lost"]
         = Cardinality(inFlight) + counts["lost"] + Cardinality(sent)
  <2>1. PICK x \in Nat, y \in Nat : x = Cardinality(inFlight) /\ y = Cardinality(sent \ lost)
    BY <1>0, <1>5
  <2>2. Cardinality(inFlight') = x + y /\ Cardinality(sent) = y + m
    BY <1>5, <1>8, <1>9, <2>1
  <2>3. (x + y) + (counts["lost"] + m) = x + counts["lost"] + (y + m)
    BY <1>1
  <2> QED BY <1>11, <2>1, <2>2, <2>3
<1>13. \A f, g \in inFlight' : f.seq = g.seq => f = g
  BY <1>0, <1>4, <1>6
<1>14. \A f \in inFlight' :
         \/ f \in inFlight
         \/ f.seq \in sent /\ f.intact \in BOOLEAN /\ f = [seq |-> f.seq, intact |-> f.intact]
  BY <1>4, <1>6
<1> QED BY <1>8, <1>11, <1>12, <1>13, <1>14

\* The first records of a list.
LEMMA FirstCount ==
  ASSUME NEW records \in Seq(Nat), NEW n \in 0 .. Len(records),
         \A i, j \in 1 .. Len(records) : records[i] = records[j] => i = j
  PROVE  IsFiniteSet(First(records, n)) /\ Cardinality(First(records, n)) = n
<1>1. PICK s \in Seq(Nat) : s = SubSeq(records, 1, n) /\ Len(s) = n
                            /\ \A i \in 1 .. n : s[i] = records[i]
  <2>1. \A i \in 1 .. n : records[i] \in Nat
    OBVIOUS
  <2>2. 1 \in Int /\ n \in Int
    OBVIOUS
  <2>3. /\ SubSeq(records, 1, n) \in Seq(Nat)
        /\ Len(SubSeq(records, 1, n)) = IF 1 <= n THEN n - 1 + 1 ELSE 0
        /\ \A i \in 1 .. n - 1 + 1 : SubSeq(records, 1, n)[i] = records[1 + i - 1]
    BY <2>1, <2>2, SubSeqProperties
  <2>4. /\ Len(SubSeq(records, 1, n)) = n
        /\ \A i \in 1 .. n : SubSeq(records, 1, n)[i] = records[i]
    BY <2>3
  <2> QED BY <2>3, <2>4
<1>2. ASSUME NEW i \in 1 .. Len(s), NEW j \in 1 .. Len(s), s[i] = s[j]
      PROVE  i = j
  <2>1. i \in 1 .. n /\ j \in 1 .. n
    BY <1>1, <1>2
  <2>2. i \in 1 .. Len(records) /\ j \in 1 .. Len(records)
    BY <2>1
  <2>3. records[i] = records[j]
    BY <1>1, <1>2, <2>1
  <2> QED BY <2>2, <2>3
<1>3. /\ IsFiniteSet({s[i] : i \in 1 .. Len(s)})
      /\ Cardinality({s[i] : i \in 1 .. Len(s)}) = Len(s)
  BY <1>2, RecordsCount
<1>4. First(records, n) = {s[i] : i \in 1 .. Len(s)}
  BY <1>1 DEF First
<1> QED BY <1>1, <1>3, <1>4

\* What becomes of records handed to transmit: dropped by the gate, lost, under
\* way, or spilled.
HandedOver(records) ==
  /\ counts' \in [Counter -> Nat] /\ spilled' \in Nat
  /\ \A c \in Counter \ {"transmitted", "gate_dropped", "lost"} : counts'[c] = counts[c]
  /\ IsFiniteSet(inFlight')
  /\ \A f \in inFlight' :
       \/ f \in inFlight
       \/ /\ \E i \in 1 .. Len(records) : f.seq = records[i]
          /\ f.intact \in BOOLEAN /\ f = [seq |-> f.seq, intact |-> f.intact]
  /\ \A f, g \in inFlight' : f.seq = g.seq => f = g
  /\ Cardinality(inFlight') + counts'["gate_dropped"] + counts'["lost"] + spilled'
       = Cardinality(inFlight) + counts["gate_dropped"] + counts["lost"] + spilled + Len(records)

(***************************************************************************)
(* transmit, record by record.                                             *)
(***************************************************************************)
LEMMA TransmitIs ==
  ASSUME BaseInv, NEW records \in Seq(Nat), Transmit(records),
         \A i, j \in 1 .. Len(records) : records[i] = records[j] => i = j,
         \A i \in 1 .. Len(records) : \A f \in inFlight : f.seq # records[i]
  PROVE  HandedOver(records)
<1>0. /\ counts \in [Counter -> Nat] /\ IsFiniteSet(inFlight) /\ Cardinality(inFlight) \in Nat
      /\ \A f, g \in inFlight : f.seq = g.seq => f = g
      /\ spilled \in Nat /\ spilled' = spilled
  BY FS_CardinalityType DEF BaseInv, TypeOK, Finite, OnePlace, Transmit
<1>1. /\ "transmitted" \in Counter /\ "gate_dropped" \in Counter /\ "lost" \in Counter
      /\ counts["transmitted"] \in Nat /\ counts["gate_dropped"] \in Nat /\ counts["lost"] \in Nat
  BY <1>0 DEF Counter
<1>2. PICK n \in Nat : n = Len(records)
  OBVIOUS
<1>3. CASE ~gate
  <2>1. /\ inFlight' = inFlight
        /\ counts' = [counts EXCEPT !["transmitted"] = @ + n, !["gate_dropped"] = @ + n]
    BY <1>2, <1>3 DEF Transmit
  <2>2. /\ counts' \in [Counter -> Nat]
        /\ counts'["gate_dropped"] = counts["gate_dropped"] + n /\ counts'["lost"] = counts["lost"]
        /\ \A c \in Counter \ {"transmitted", "gate_dropped", "lost"} : counts'[c] = counts[c]
    <3>1. /\ counts' \in [Counter -> Nat]
          /\ counts'["gate_dropped"] = counts["gate_dropped"] + n
          /\ \A c \in Counter : c # "transmitted" /\ c # "gate_dropped" => counts'[c] = counts[c]
      BY <1>0, <1>1, <2>1, TwoCounters
    <3> QED BY <1>1, <3>1
  <2>3. Cardinality(inFlight') + counts'["gate_dropped"] + counts'["lost"] + spilled'
          = Cardinality(inFlight) + counts["gate_dropped"] + counts["lost"] + spilled + n
    <3>1. PICK c \in Nat, g \in Nat, h \in Nat, p \in Nat :
            c = Cardinality(inFlight) /\ g = counts["gate_dropped"] /\ h = counts["lost"]
              /\ p = spilled
      BY <1>0, <1>1
    <3>2. c + (g + n) + h + p = c + g + h + p + n
      OBVIOUS
    <3> QED BY <1>0, <2>1, <2>2, <3>1, <3>2
  <2> QED BY <1>0, <1>2, <2>1, <2>2, <2>3 DEF HandedOver
<1>4. CASE gate
  <2>1. n \in 0 .. Len(records)
    BY <1>2
  <2>2. PICK sent : sent = First(records, n)
    OBVIOUS
  <2>3. IsFiniteSet(sent) /\ Cardinality(sent) = n
    BY <2>1, <2>2, FirstCount
  <2>4. Channel(sent, sent, n) /\ sent \in SUBSET sent
    BY <1>2, <1>4, <2>2 DEF Transmit
  <2>5. \A s \in sent : \E i \in 1 .. Len(records) : s = records[i]
    BY <1>2, <2>2 DEF First
  <2>6. /\ counts' \in [Counter -> Nat]
        /\ \A c \in Counter \ {"transmitted", "lost"} : counts'[c] = counts[c]
        /\ IsFiniteSet(inFlight')
        /\ \A f \in inFlight' :
             \/ f \in inFlight
             \/ f.seq \in sent /\ f.intact \in BOOLEAN /\ f = [seq |-> f.seq, intact |-> f.intact]
        /\ \A f, g \in inFlight' : f.seq = g.seq => f = g
        /\ Cardinality(inFlight') + counts'["lost"]
             = Cardinality(inFlight) + counts["lost"] + Cardinality(sent)
    <3>1. \A s \in sent : \A f \in inFlight : f.seq # s
      BY <2>5
    <3> QED BY <2>3, <2>4, <3>1, ChannelIs
  <2>7. /\ counts'["gate_dropped"] = counts["gate_dropped"] /\ counts'["lost"] \in Nat
        /\ Cardinality(inFlight') \in Nat
    BY <1>1, <2>6, FS_CardinalityType
  <2>8. Cardinality(inFlight') + counts'["gate_dropped"] + counts'["lost"] + spilled'
          = Cardinality(inFlight) + counts["gate_dropped"] + counts["lost"] + spilled + n
    <3>1. PICK c \in Nat, d \in Nat, o \in Nat :
            c = Cardinality(inFlight) /\ d = Cardinality(inFlight') /\ o = counts'["lost"]
      BY <1>0, <2>7
    <3>2. PICK g \in Nat, h \in Nat, p \in Nat :
            g = counts["gate_dropped"] /\ h = counts["lost"] /\ p = spilled
      BY <1>0, <1>1
    <3>3. d + o = c + h + n
      BY <2>3, <2>6, <3>1, <3>2
    <3>4. d + g + o + p = c + g + h + p + n
      BY <3>3
    <3> QED BY <1>0, <2>7, <3>1, <3>2, <3>4
  <2>9. \A f \in inFlight' :
          \/ f \in inFlight
          \/ /\ \E i \in 1 .. Len(records) : f.seq = records[i]
             /\ f.intact \in BOOLEAN /\ f = [seq |-> f.seq, intact |-> f.intact]
    BY <2>5, <2>6
  <2> QED BY <1>0, <1>2, <2>6, <2>8, <2>9 DEF HandedOver
<1> QED BY <1>3, <1>4

(***************************************************************************)
(* transmit raises over record n: the records behind it are spilled, and   *)
(* maybe record n itself.                                                  *)
(***************************************************************************)
LEMMA BreakIs ==
  ASSUME BaseInv, NEW records \in Seq(Nat), NEW n \in 1 .. Len(records), Break(records, n),
         \A i, j \in 1 .. Len(records) : records[i] = records[j] => i = j,
         \A i \in 1 .. Len(records) : \A f \in inFlight : f.seq # records[i]
  PROVE  /\ HandedOver(records)
         /\ spilled' <= spilled + (Len(records) - n + 1)
<1>0. /\ counts \in [Counter -> Nat] /\ Cardinality(inFlight) \in Nat /\ spilled \in Nat
  BY FS_CardinalityType DEF BaseInv, TypeOK, Finite
<1>1. counts["gate_dropped"] \in Nat /\ counts["lost"] \in Nat
  BY <1>0 DEF Counter
<1>2. PICK m \in {n - 1, n} :
        /\ spilled' = spilled + (Len(records) - m)
        /\ Channel(First(records, m), First(records, n - 1), n)
  BY DEF Break
<1>3. m \in 0 .. Len(records) /\ n \in Nat
  OBVIOUS
<1>4. PICK sent, losable : sent = First(records, m) /\ losable = First(records, n - 1)
  OBVIOUS
<1>5. IsFiniteSet(sent) /\ Cardinality(sent) = m
  BY <1>3, <1>4, FirstCount
<1>6. /\ losable \in SUBSET sent
      /\ \A s \in sent : \E i \in 1 .. Len(records) : s = records[i]
  BY <1>3, <1>4 DEF First
<1>7. /\ counts' \in [Counter -> Nat]
      /\ \A c \in Counter \ {"transmitted", "lost"} : counts'[c] = counts[c]
      /\ IsFiniteSet(inFlight')
      /\ \A f \in inFlight' :
           \/ f \in inFlight
           \/ f.seq \in sent /\ f.intact \in BOOLEAN /\ f = [seq |-> f.seq, intact |-> f.intact]
      /\ \A f, g \in inFlight' : f.seq = g.seq => f = g
      /\ Cardinality(inFlight') + counts'["lost"]
           = Cardinality(inFlight) + counts["lost"] + Cardinality(sent)
  <2>1. Channel(sent, losable, n)
    BY <1>2, <1>4
  <2>2. \A s \in sent : \A f \in inFlight : f.seq # s
    BY <1>6
  <2> QED BY <1>3, <1>5, <1>6, <2>1, <2>2, ChannelIs
<1>8. /\ counts'["gate_dropped"] = counts["gate_dropped"] /\ counts'["lost"] \in Nat
      /\ Cardinality(inFlight') \in Nat
  BY <1>7, FS_CardinalityType DEF Counter
<1>9. PICK l \in Nat : l = Len(records)
  OBVIOUS
<1>10. spilled' = spilled + (l - m) /\ l - m \in Nat /\ l - m <= l - n + 1
  BY <1>2, <1>3, <1>9
<1>11. Cardinality(inFlight') + counts'["gate_dropped"] + counts'["lost"] + spilled'
         = Cardinality(inFlight) + counts["gate_dropped"] + counts["lost"] + spilled + l
  <2>1. PICK c \in Nat, d \in Nat, o \in Nat :
          c = Cardinality(inFlight) /\ d = Cardinality(inFlight') /\ o = counts'["lost"]
    BY <1>0, <1>8
  <2>2. d + o = c + counts["lost"] + m
    BY <1>5, <1>7, <2>1
  <2>3. PICK g \in Nat, h \in Nat, p \in Nat :
          g = counts["gate_dropped"] /\ h = counts["lost"] /\ p = spilled
    BY <1>0, <1>1
  <2>4. m \in Nat
    BY <1>3
  <2>5. d + o = c + h + m
    BY <2>2, <2>3
  <2>6. PICK i \in Nat : i = m
    BY <2>4
  <2>7. d + g + o + (p + (l - i)) = c + g + h + p + l
    BY <2>5, <2>6
  <2> QED BY <1>8, <1>10, <2>1, <2>3, <2>6, <2>7
<1>12. \A f \in inFlight' :
         \/ f \in inFlight
         \/ /\ \E i \in 1 .. Len(records) : f.seq = records[i]
            /\ f.intact \in BOOLEAN /\ f = [seq |-> f.seq, intact |-> f.intact]
  BY <1>6, <1>7
<1>13. spilled' \in Nat /\ spilled' <= spilled + (Len(records) - n + 1)
  BY <1>0, <1>3, <1>9, <1>10
<1> QED BY <1>7, <1>9, <1>11, <1>12, <1>13 DEF HandedOver

\* What the production and dispatch of records leaves true, whatever they were.
Produced ==
  /\ sequence' \in Nat /\ sequence' >= FirstSequence
  /\ queue' \in Queue(Nat) /\ unbuffered' \in Nat /\ counts' \in [Counter -> Nat]
  /\ errors' \in 0 .. MaxErrors /\ spilled' \in Nat
  /\ inFlight' \subseteq [seq : FirstSequence .. (sequence' - 1), intact : BOOLEAN]
  /\ Finite' /\ OnePlace' /\ EveryRecordIsAccounted'
  /\ \A c \in {"accepted", "missing", "late", "duplicates"} : counts'[c] = counts[c]

\* An exception costs no more than a batch.
LEMMA BatchBound ==
  ASSUME NEW e \in Nat, NEW s \in Nat, s <= e * Batch, NEW t \in Nat, t <= s + Batch
  PROVE  t <= (e + 1) * Batch
<1>1. PICK b \in Nat : b = Batch
  BY DrainAssumption DEF Batch
<1>2. PICK x \in Nat : x = e * b
  BY <1>1
<1>3. (e + 1) * b = x + b
  BY <1>2
<1> QED BY <1>1, <1>2, <1>3

(***************************************************************************)
(* New records and records taken out of the queue go to the link.          *)
(***************************************************************************)
LEMMA SendKeeps ==
  ASSUME BaseInv, EveryRecordIsAccounted,
         NEW new \in Seq(Nat), NEW old \in Seq(Nat),
         \A i \in 1 .. Len(new) : new[i] = sequence + i - 1,
         \A j \in 1 .. Len(old) : Holds(queue, old[j]) /\ ~Holds(queue', old[j]),
         \A j, k \in 1 .. Len(old) : old[j] = old[k] => j = k,
         queue' \in Queue(Nat), NoneTwice(queue'),
         \A s : Holds(queue', s) => Holds(queue, s),
         Used(queue') + Len(old) = Used(queue),
         sequence' = sequence + Len(new),
         UNCHANGED <<unbuffered, validator>>,
         \/ Transmit(new \o old)
         \/ \E n \in 1 .. Len(new \o old) :
              Break(new \o old, n) /\ Len(new \o old) - n < Batch
  PROVE  Produced
<1>0. /\ sequence \in Nat /\ sequence >= FirstSequence /\ FirstSequence \in Nat
      /\ unbuffered \in Nat /\ counts \in [Counter -> Nat]
      /\ inFlight \subseteq [seq : FirstSequence .. (sequence - 1), intact : BOOLEAN]
      /\ Used(queue) \in Nat /\ Used(queue') \in Nat /\ Cardinality(inFlight) \in Nat
      /\ validator.recent \in Seq(Nat)
  BY Numbers, UsedType, FS_CardinalityType DEF BaseInv, TypeOK, Finite, Validator
<1>1. /\ \A s : Holds(queue, s) => s \in FirstSequence .. sequence - 1
      /\ \A f \in inFlight : ~Holds(queue, f.seq)
      /\ \A i \in 1 .. Len(validator.recent) :
           /\ validator.recent[i] < sequence
           /\ ~Holds(queue, validator.recent[i])
           /\ \A f \in inFlight : f.seq # validator.recent[i]
  BY DEF BaseInv, OnePlace
<1>2. PICK k \in Nat, m \in Nat : k = Len(new) /\ m = Len(old)
  OBVIOUS
<1> DEFINE records == new \o old
<1>3. /\ records \in Seq(Nat) /\ Len(records) = k + m
      /\ \A i \in 1 .. k : records[i] = new[i]
      /\ \A i \in k + 1 .. k + m : records[i] = old[i - k]
  BY <1>2
<1> HIDE DEF records
<1>4. ASSUME NEW i \in 1 .. Len(records)
      PROVE  \/ i \in 1 .. k /\ records[i] = sequence + i - 1
             \/ i - k \in 1 .. m /\ records[i] = old[i - k]
  <2>1. CASE i <= k
    BY <1>2, <1>3, <2>1
  <2>2. CASE i > k
    BY <1>3, <2>2
  <2> QED BY <1>3, <2>1, <2>2
<1>5. ASSUME NEW i \in 1 .. Len(records)
      PROVE  /\ records[i] \in FirstSequence .. sequence' - 1
             /\ ~Holds(queue', records[i])
             /\ \A f \in inFlight : f.seq # records[i]
             /\ \A h \in 1 .. Len(validator.recent) : validator.recent[h] # records[i]
  <2>1. CASE i \in 1 .. k /\ records[i] = sequence + i - 1
    <3>1. records[i] \in FirstSequence .. sequence' - 1 /\ records[i] >= sequence
      BY <1>0, <1>2, <2>1
    <3>2. \A f \in inFlight : f.seq < sequence /\ f.seq \in Nat
      BY <1>0
    <3>3. ~Holds(queue', records[i])
      BY <1>0, <1>1, <3>1
    <3>4. ASSUME NEW h \in 1 .. Len(validator.recent)
          PROVE  validator.recent[h] # records[i]
      <4>1. validator.recent[h] \in Nat
        BY <1>0, ElementIsNat
      <4>2. validator.recent[h] < sequence
        BY <1>1
      <4>3. records[i] \in Int /\ records[i] >= sequence /\ sequence \in Nat
        BY <1>0, <3>1
      <4>4. PICK x \in Nat : x = validator.recent[h]
        BY <4>1
      <4>5. PICK y \in Int : y = records[i]
        BY <4>3
      <4>6. x < sequence /\ y >= sequence
        BY <4>2, <4>3, <4>4, <4>5
      <4>7. x # y
        BY <4>3, <4>6
      <4> QED BY ONLY <4>4, <4>5, <4>7
    <3>5. \A f \in inFlight : f.seq # records[i]
      <4>1. records[i] \in Int
        BY <1>0, <3>1
      <4> QED BY <1>0, <3>1, <3>2, <4>1
    <3> QED BY <3>1, <3>3, <3>4, <3>5
  <2>2. CASE i - k \in 1 .. m /\ records[i] = old[i - k]
    <3>1. Holds(queue, records[i]) /\ ~Holds(queue', records[i])
      BY <1>2, <2>2
    <3>2. records[i] \in FirstSequence .. sequence - 1
      BY <1>1, <3>1
    <3> QED BY <1>0, <1>1, <1>2, <3>1, <3>2
  <2> QED BY <1>4, <2>1, <2>2
<1>6. ASSUME NEW i \in 1 .. Len(records), NEW j \in 1 .. Len(records), records[i] = records[j]
      PROVE  i = j
  <2>1. \A h \in 1 .. m : old[h] \in Nat /\ old[h] < sequence
    BY <1>0, <1>1, <1>2
  <2>2. \A h, l \in 1 .. m : old[h] = old[l] => h = l
    BY <1>2
  <2>3. /\ \/ i \in 1 .. k /\ records[i] = sequence + i - 1
           \/ i - k \in 1 .. m /\ records[i] = old[i - k]
        /\ \/ j \in 1 .. k /\ records[j] = sequence + j - 1
           \/ j - k \in 1 .. m /\ records[j] = old[j - k]
    BY <1>4
  <2>4. i \in Int /\ j \in Int
    OBVIOUS
  <2>5. CASE i \in 1 .. k /\ records[i] = sequence + i - 1
    <3>1. CASE j \in 1 .. k /\ records[j] = sequence + j - 1
      <4>1. sequence + i - 1 = sequence + j - 1
        BY <1>6, <2>5, <3>1
      <4>2. sequence \in Int
        BY <1>0
      <4> QED BY ONLY <2>4, <4>1, <4>2
    <3>2. CASE j - k \in 1 .. m /\ records[j] = old[j - k]
      <4>1. records[j] < sequence
        BY <2>1, <3>2
      <4>2. sequence + i - 1 >= sequence /\ sequence + i - 1 \in Int
        BY <1>0, <2>5
      <4> QED BY <1>0, <1>6, <2>5, <4>1, <4>2
    <3> QED BY <2>3, <3>1, <3>2
  <2>6. CASE i - k \in 1 .. m /\ records[i] = old[i - k]
    <3>1. CASE j \in 1 .. k /\ records[j] = sequence + j - 1
      <4>1. records[i] < sequence
        BY <2>1, <2>6
      <4>2. sequence + j - 1 >= sequence /\ sequence + j - 1 \in Int
        BY <1>0, <3>1
      <4> QED BY <1>0, <1>6, <3>1, <4>1, <4>2
    <3>2. CASE j - k \in 1 .. m /\ records[j] = old[j - k]
      <4>1. i - k = j - k
        BY <1>6, <2>2, <2>6, <3>2
      <4> QED BY <2>4, <4>1
    <3> QED BY <2>3, <3>1, <3>2
  <2> QED BY <2>3, <2>5, <2>6
<1>15. /\ HandedOver(records)
       /\ errors' \in 0 .. MaxErrors /\ spilled' <= errors' * Batch
  <2>0. /\ \A i, j \in 1 .. Len(records) : records[i] = records[j] => i = j
        /\ \A i \in 1 .. Len(records) : \A f \in inFlight : f.seq # records[i]
    BY <1>5, <1>6
  <2>1. /\ errors \in 0 .. MaxErrors /\ errors \in Nat /\ spilled \in Nat
        /\ spilled <= errors * Batch
    BY MaxErrorsAssumption DEF BaseInv, TypeOK, EveryRecordIsAccounted
  <2>2. CASE Transmit(new \o old)
    <3>1. Transmit(records)
      BY <2>2 DEF records
    <3>2. HandedOver(records)
      BY <1>3, <2>0, <3>1, TransmitIs
    <3>3. UNCHANGED <<errors, spilled>>
      BY <3>1 DEF Transmit
    <3> QED BY <2>1, <3>2, <3>3
  <2>3. ASSUME NEW n \in 1 .. Len(new \o old), Break(new \o old, n),
               Len(new \o old) - n < Batch
        PROVE  /\ HandedOver(records)
               /\ errors' \in 0 .. MaxErrors /\ spilled' <= errors' * Batch
    <3>1. n \in 1 .. Len(records) /\ Break(records, n) /\ Len(records) - n < Batch
      BY <2>3 DEF records
    <3>2. HandedOver(records) /\ spilled' <= spilled + (Len(records) - n + 1)
      BY <1>3, <2>0, <3>1, BreakIs
    <3>3. errors' = errors + 1 /\ errors' \in 0 .. MaxErrors
      BY <2>1, <3>1, MaxErrorsAssumption DEF Break
    <3>4. spilled' \in Nat
      BY <3>2 DEF HandedOver
    <3>5. spilled' <= spilled + Batch
      <4>5. Batch \in Nat /\ Len(records) \in Nat
        BY <1>3, DrainAssumption DEF Batch
      <4>1. PICK b \in Nat, l \in Nat : b = Batch /\ l = Len(records)
        BY <4>5
      <4>2. PICK x \in Nat : x = spilled'
        BY <3>4
      <4>3. l - n < b /\ x <= spilled + (l - n + 1) /\ n \in Nat
        BY <3>1, <3>2, <4>1, <4>2
      <4>4. x <= spilled + b
        BY <2>1, <4>3
      <4> QED BY <4>1, <4>2, <4>4
    <3>6. spilled' <= (errors + 1) * Batch
      BY <2>1, <3>4, <3>5, BatchBound
    <3> QED BY <3>2, <3>3, <3>6
  <2> QED BY <2>2, <2>3
<1>7. /\ counts' \in [Counter -> Nat]
      /\ \A c \in Counter \ {"transmitted", "gate_dropped", "lost"} : counts'[c] = counts[c]
      /\ IsFiniteSet(inFlight')
      /\ \A f \in inFlight' :
           \/ f \in inFlight
           \/ /\ \E i \in 1 .. Len(records) : f.seq = records[i]
              /\ f.intact \in BOOLEAN /\ f = [seq |-> f.seq, intact |-> f.intact]
      /\ \A f, g \in inFlight' : f.seq = g.seq => f = g
      /\ spilled' \in Nat
      /\ Cardinality(inFlight') + counts'["gate_dropped"] + counts'["lost"] + spilled'
           = Cardinality(inFlight) + counts["gate_dropped"] + counts["lost"] + spilled
               + Len(records)
  BY <1>15 DEF HandedOver
<1>8. /\ {"received", "dropped", "accepted", "missing", "late", "duplicates"}
           \subseteq Counter \ {"transmitted", "gate_dropped", "lost"}
      /\ {"gate_dropped", "lost"} \subseteq Counter
  BY DEF Counter
<1>9. inFlight' \subseteq [seq : FirstSequence .. (sequence' - 1), intact : BOOLEAN]
  <2> SUFFICES ASSUME NEW f \in inFlight'
               PROVE  f \in [seq : FirstSequence .. (sequence' - 1), intact : BOOLEAN]
    OBVIOUS
  <2>1. CASE f \in inFlight
    <3>1. FirstSequence .. (sequence - 1) \subseteq FirstSequence .. (sequence' - 1)
      BY <1>0, <1>2
    <3> QED BY <1>0, <2>1, <3>1
  <2>2. CASE /\ \E i \in 1 .. Len(records) : f.seq = records[i]
             /\ f.intact \in BOOLEAN /\ f = [seq |-> f.seq, intact |-> f.intact]
    <3>1. f.seq \in FirstSequence .. (sequence' - 1)
      BY <1>5, <2>2
    <3> QED BY <2>2, <3>1
  <2> QED BY <1>7, <2>1, <2>2
<1>10. OnePlace'
  <2>1. \A s : Holds(queue', s) => s \in FirstSequence .. sequence' - 1
    BY <1>0, <1>1, <1>2
  <2>2. \A f \in inFlight' : ~Holds(queue', f.seq)
    BY <1>1, <1>5, <1>7
  <2>3. \A i \in 1 .. Len(validator.recent) :
          /\ validator.recent[i] < sequence'
          /\ ~Holds(queue', validator.recent[i])
          /\ \A f \in inFlight' : f.seq # validator.recent[i]
    <3> SUFFICES ASSUME NEW i \in 1 .. Len(validator.recent)
                 PROVE  /\ validator.recent[i] < sequence'
                        /\ ~Holds(queue', validator.recent[i])
                        /\ \A f \in inFlight' : f.seq # validator.recent[i]
      OBVIOUS
    <3>1. validator.recent[i] < sequence'
      <4>1. validator.recent[i] \in Nat
        BY <1>0, ElementIsNat
      <4>2. validator.recent[i] < sequence
        BY <1>1
      <4> QED BY <1>0, <1>2, <4>1, <4>2
    <3> QED BY <1>1, <1>5, <1>7, <3>1
  <2> QED BY <1>7, <2>1, <2>2, <2>3 DEF OnePlace
<1>11. EveryRecordIsAccounted'
  <2>1. /\ counts'["received"] = counts["received"] /\ counts'["dropped"] = counts["dropped"]
        /\ counts'["duplicates"] = counts["duplicates"]
    BY <1>7, <1>8
  <2>2. /\ counts["received"] \in Nat /\ counts["dropped"] \in Nat
        /\ counts["gate_dropped"] \in Nat /\ counts["lost"] \in Nat
        /\ counts'["gate_dropped"] \in Nat /\ counts'["lost"] \in Nat
        /\ Cardinality(inFlight') \in Nat /\ spilled \in Nat /\ spilled' \in Nat
    BY <1>0, <1>7, <1>8, FS_CardinalityType DEF BaseInv, TypeOK
  <2>3. sequence - FirstSequence =
          Used(queue) + Cardinality(inFlight) + unbuffered + spilled + counts["received"]
            + counts["dropped"] + counts["gate_dropped"] + counts["lost"]
    BY DEF EveryRecordIsAccounted
  <2>4. sequence' - FirstSequence =
          Used(queue') + Cardinality(inFlight') + unbuffered' + spilled' + counts'["received"]
            + counts'["dropped"] + counts'["gate_dropped"] + counts'["lost"]
    <3>1. /\ Used(queue') + m = Used(queue) /\ sequence' = sequence + k
          /\ unbuffered' = unbuffered
          /\ Cardinality(inFlight') + counts'["gate_dropped"] + counts'["lost"] + spilled'
               = Cardinality(inFlight) + counts["gate_dropped"] + counts["lost"] + spilled
                   + (k + m)
      BY <1>2, <1>3, <1>7
    <3>2. PICK u \in Nat, v \in Nat, c \in Nat, d \in Nat :
            /\ u = Used(queue) /\ v = Used(queue')
            /\ c = Cardinality(inFlight) /\ d = Cardinality(inFlight')
      BY <1>0, <2>2
    <3>3. PICK g \in Nat, h \in Nat, l \in Nat, o \in Nat :
            /\ g = counts["gate_dropped"] /\ h = counts'["gate_dropped"]
            /\ l = counts["lost"] /\ o = counts'["lost"]
      BY <2>2
    <3>4. PICK r \in Nat, e \in Nat, p \in Nat, q \in Nat :
            /\ r = counts["received"] /\ e = counts["dropped"]
            /\ p = spilled /\ q = spilled'
      BY <2>2
    <3>5. /\ v + m = u /\ sequence' = sequence + k /\ d + h + o + q = c + g + l + p + (k + m)
          /\ sequence - FirstSequence = u + c + unbuffered + p + r + e + g + l
      BY <2>3, <3>1, <3>2, <3>3, <3>4
    <3>6. sequence' - FirstSequence = v + d + unbuffered + q + r + e + h + o
      <4>1. sequence \in Nat /\ FirstSequence \in Nat /\ unbuffered \in Nat
        BY <1>0
      <4>2. sequence + k - FirstSequence = v + d + unbuffered + q + r + e + h + o
        BY <3>5, <4>1
      <4>3. sequence' = sequence + k /\ sequence' \in Nat
        BY <1>2, <4>1
      <4>4. PICK x \in Nat : x = sequence'
        BY <4>3
      <4>5. x = sequence + k
        BY <4>3, <4>4
      <4>6. x - FirstSequence = v + d + unbuffered + q + r + e + h + o
        BY <4>1, <4>2, <4>5
      <4> QED BY ONLY <4>4, <4>6
    <3> QED BY <2>1, <3>1, <3>2, <3>3, <3>4, <3>6
  <2> QED BY <1>15, <2>1, <2>4 DEF EveryRecordIsAccounted
<1>12. sequence' \in Nat /\ sequence' >= FirstSequence /\ unbuffered' \in Nat
  BY <1>0, <1>2
<1>13. Finite'
  BY <1>7 DEF Finite
<1>14. \A c \in {"accepted", "missing", "late", "duplicates"} : counts'[c] = counts[c]
  BY <1>7, <1>8
<1> QED BY <1>7, <1>9, <1>10, <1>11, <1>12, <1>13, <1>14, <1>15 DEF Produced

\* One counter goes up.
LEMMA OneCounter ==
  ASSUME NEW f \in [Counter -> Nat], NEW a \in Counter, NEW n \in Nat,
         NEW g, g = [f EXCEPT ![a] = @ + n]
  PROVE  /\ g \in [Counter -> Nat] /\ g[a] = f[a] + n
         /\ \A c \in Counter : c # a => g[c] = f[c]
  OBVIOUS

(***************************************************************************)
(* New records stay on board, or are lost there.                           *)
(***************************************************************************)
LEMMA BufferKeeps ==
  ASSUME BaseInv, EveryRecordIsAccounted, NEW cap \in Nat \ {0}, NEW priorities,
         Len(priorities) \in {0, 1, 2},
         \A i \in 1 .. Len(priorities) : priorities[i] \in Priority,
         sequence' = sequence + Len(priorities),
         UNCHANGED validator,
         BufferOutOfView(priorities, cap)
  PROVE  Produced
<1>0. /\ sequence \in Nat /\ sequence >= FirstSequence /\ FirstSequence \in Nat
      /\ unbuffered \in Nat /\ counts \in [Counter -> Nat] /\ queue \in Queue(Nat)
      /\ inFlight \subseteq [seq : FirstSequence .. (sequence - 1), intact : BOOLEAN]
      /\ Used(queue) \in Nat /\ Cardinality(inFlight) \in Nat
      /\ validator.recent \in Seq(Nat) /\ inFlight' = inFlight
  BY Numbers, UsedType, FS_CardinalityType
  DEF BaseInv, TypeOK, Finite, Validator, BufferOutOfView
<1>13. /\ errors \in 0 .. MaxErrors /\ spilled \in Nat
       /\ errors' = errors /\ spilled' = spilled
  BY DEF BaseInv, TypeOK, BufferOutOfView
<1>1. /\ NoneTwice(queue)
      /\ \A s : Holds(queue, s) => s \in FirstSequence .. sequence - 1
      /\ \A f \in inFlight : ~Holds(queue, f.seq)
      /\ \A f, g \in inFlight : f.seq = g.seq => f = g
      /\ \A i \in 1 .. Len(validator.recent) :
           /\ validator.recent[i] < sequence
           /\ ~Holds(queue, validator.recent[i])
           /\ \A f \in inFlight : f.seq # validator.recent[i]
  BY DEF BaseInv, OnePlace
<1>2. PICK k \in Nat : k = Len(priorities)
  OBVIOUS
<1>3. \E d, b \in Nat :
        /\ queue' \in Queue(Nat) /\ NoneTwice(queue')
        /\ unbuffered' = unbuffered + b
        /\ Used(queue') + d + b = Used(queue) + k
        /\ \A s : Holds(queue', s) => Holds(queue, s) \/ s \in sequence .. sequence + k - 1
        /\ counts' \in [Counter -> Nat] /\ counts'["dropped"] = counts["dropped"] + d
        /\ \A c \in Counter : c # "dropped" => counts'[c] = counts[c]
  <2>1. CASE config.buffer_when_not_visible
    <3>1. PICK result : result = EnqueueAll(priorities, cap)
      OBVIOUS
    <3>2. /\ result.queue \in Queue(Nat) /\ result.drops \in Nat
          /\ Used(result.queue) + result.drops = Used(queue) + k
          /\ NoneTwice(result.queue)
          /\ \A s : Holds(result.queue, s) => Holds(queue, s) \/ s \in sequence .. sequence + k - 1
      <4>1. /\ result.queue \in Queue(Nat) /\ result.drops \in Nat
            /\ Used(result.queue) + result.drops = Used(queue) + Len(priorities)
            /\ NoneTwice(result.queue)
            /\ \A s : Holds(result.queue, s) =>
                 Holds(queue, s) \/ s \in sequence .. sequence + Len(priorities) - 1
        BY <3>1, EnqueueAllIs
      <4> QED BY <1>2, <4>1
    <3>3. PICK d \in Nat : d = result.drops
      BY <3>2
    <3>4. /\ queue' = result.queue /\ unbuffered' = unbuffered
          /\ counts' = [counts EXCEPT !["dropped"] = @ + d]
      BY <2>1, <3>1, <3>3 DEF BufferOutOfView
    <3>5. /\ counts' \in [Counter -> Nat] /\ counts'["dropped"] = counts["dropped"] + d
          /\ \A c \in Counter : c # "dropped" => counts'[c] = counts[c]
      <4>1. "dropped" \in Counter
        BY DEF Counter
      <4> QED BY <1>0, <3>4, <4>1, OneCounter
    <3>6. Used(queue') + d + 0 = Used(queue) + k /\ unbuffered' = unbuffered + 0
      <4>1. Used(queue') \in Nat
        BY <3>2, <3>4, UsedType
      <4> QED BY <1>0, <3>2, <3>3, <3>4, <4>1
    <3>7. 0 \in Nat /\ d \in Nat
      OBVIOUS
    <3> QED BY <3>2, <3>4, <3>5, <3>6, <3>7
  <2>2. CASE ~config.buffer_when_not_visible
    <3>1. queue' = queue /\ counts' = counts /\ unbuffered' = unbuffered + k
      BY <1>2, <2>2 DEF BufferOutOfView
    <3>2. Used(queue') + 0 + k = Used(queue) + k
      BY <1>0, <3>1
    <3>3. counts["dropped"] = counts["dropped"] + 0
      BY <1>0 DEF Counter
    <3>4. 0 \in Nat /\ k \in Nat
      OBVIOUS
    <3> QED BY <1>0, <1>1, <3>1, <3>2, <3>3, <3>4
  <2> QED BY <2>1, <2>2
<1>4. PICK d \in Nat : \E b \in Nat :
        /\ queue' \in Queue(Nat) /\ NoneTwice(queue')
        /\ unbuffered' = unbuffered + b
        /\ Used(queue') + d + b = Used(queue) + k
        /\ \A s : Holds(queue', s) => Holds(queue, s) \/ s \in sequence .. sequence + k - 1
        /\ counts' \in [Counter -> Nat] /\ counts'["dropped"] = counts["dropped"] + d
        /\ \A c \in Counter : c # "dropped" => counts'[c] = counts[c]
  BY <1>3
<1>5. PICK b \in Nat :
        /\ queue' \in Queue(Nat) /\ NoneTwice(queue')
        /\ unbuffered' = unbuffered + b
        /\ Used(queue') + d + b = Used(queue) + k
        /\ \A s : Holds(queue', s) => Holds(queue, s) \/ s \in sequence .. sequence + k - 1
        /\ counts' \in [Counter -> Nat] /\ counts'["dropped"] = counts["dropped"] + d
        /\ \A c \in Counter : c # "dropped" => counts'[c] = counts[c]
  BY <1>4
<1>6. sequence' = sequence + k /\ sequence' \in Nat /\ sequence' >= FirstSequence
  BY <1>0, <1>2
<1>7. inFlight' \subseteq [seq : FirstSequence .. (sequence' - 1), intact : BOOLEAN]
  <2>1. FirstSequence .. (sequence - 1) \subseteq FirstSequence .. (sequence' - 1)
    BY <1>0, <1>6
  <2> QED BY <1>0, <2>1
<1>8. OnePlace'
  <2>1. ASSUME NEW s, s \in Int, s < sequence, ~Holds(queue, s)
        PROVE  ~Holds(queue', s)
    <3>1. s \notin sequence .. sequence + k - 1
      BY <1>0, <2>1
    <3> QED BY <1>5, <2>1, <3>1
  <2>2. ASSUME NEW s, Holds(queue', s)
        PROVE  s \in FirstSequence .. sequence' - 1
    <3>1. CASE Holds(queue, s)
      <4>1. s \in FirstSequence .. sequence - 1
        BY <1>1, <3>1
      <4> QED BY <1>0, <1>6, <4>1
    <3>2. CASE s \in sequence .. sequence + k - 1
      BY <1>0, <1>6, <3>2
    <3> QED BY <1>5, <2>2, <3>1, <3>2
  <2>3. ASSUME NEW f \in inFlight
        PROVE  ~Holds(queue', f.seq)
    <3>1. f.seq \in Int /\ f.seq < sequence
      BY <1>0
    <3> QED BY <1>1, <2>1, <3>1
  <2>4. ASSUME NEW i \in 1 .. Len(validator.recent)
        PROVE  /\ validator.recent[i] < sequence'
               /\ ~Holds(queue', validator.recent[i])
               /\ \A f \in inFlight : f.seq # validator.recent[i]
    <3>1. PICK x \in Nat : x = validator.recent[i]
      BY <1>0, ElementIsNat
    <3>2. x < sequence /\ ~Holds(queue, x) /\ x \in Int
      BY <1>1, <3>1
    <3>3. x < sequence' /\ ~Holds(queue', x)
      BY <1>0, <1>6, <2>1, <3>2
    <3> QED BY <1>1, <3>1, <3>3
  <2> QED BY <1>0, <1>1, <1>5, <2>2, <2>3, <2>4 DEF OnePlace
<1>9. EveryRecordIsAccounted'
  <2>1. /\ counts'["received"] = counts["received"] /\ counts'["gate_dropped"] = counts["gate_dropped"]
        /\ counts'["lost"] = counts["lost"] /\ counts'["duplicates"] = counts["duplicates"]
        /\ counts'["dropped"] = counts["dropped"] + d
    BY <1>5 DEF Counter
  <2>2. /\ counts["received"] \in Nat /\ counts["dropped"] \in Nat
        /\ counts["gate_dropped"] \in Nat /\ counts["lost"] \in Nat
    BY <1>0 DEF Counter
  <2>3. /\ counts["duplicates"] = 0
        /\ spilled <= errors * Batch
        /\ sequence - FirstSequence =
             Used(queue) + Cardinality(inFlight) + unbuffered + spilled + counts["received"]
               + counts["dropped"] + counts["gate_dropped"] + counts["lost"]
    BY DEF EveryRecordIsAccounted
  <2>4. PICK u \in Nat, v \in Nat, c \in Nat, w \in Nat,
             p \in Nat :
          /\ u = Used(queue) /\ v = Used(queue') /\ c = Cardinality(inFlight)
          /\ w = unbuffered /\ p = spilled
    BY <1>0, <1>5, <1>13, UsedType
  <2>5. PICK r \in Nat, e \in Nat, g \in Nat, l \in Nat :
          /\ r = counts["received"] /\ e = counts["dropped"]
          /\ g = counts["gate_dropped"] /\ l = counts["lost"]
    BY <2>2
  <2>6. sequence - FirstSequence = u + c + w + p + r + e + g + l /\ v + d + b = u + k
    BY <1>5, <2>3, <2>4, <2>5
  <2>7. sequence + k - FirstSequence = v + c + (w + b) + p + r + (e + d) + g + l
    BY <1>0, <2>6
  <2>8. PICK x \in Nat : x = sequence'
    BY <1>6
  <2>9. x - FirstSequence = v + c + (w + b) + p + r + (e + d) + g + l
    BY <1>0, <1>6, <2>7, <2>8
  <2>10. sequence' - FirstSequence =
           Used(queue') + Cardinality(inFlight') + unbuffered' + spilled' + counts'["received"]
             + counts'["dropped"] + counts'["gate_dropped"] + counts'["lost"]
    BY <1>0, <1>5, <1>13, <2>1, <2>4, <2>5, <2>8, <2>9
  <2> QED BY <1>13, <2>1, <2>3, <2>10 DEF EveryRecordIsAccounted
<1>10. Finite'
  BY <1>0 DEF BaseInv, Finite
<1>11. \A c \in {"accepted", "missing", "late", "duplicates"} : counts'[c] = counts[c]
  BY <1>5 DEF Counter
<1>12. unbuffered' \in Nat
  BY <1>0, <1>5
<1> QED BY <1>13, <1>5, <1>6, <1>7, <1>8, <1>9, <1>10, <1>11, <1>12 DEF Produced

\* The numbers of the new records.
Numbered(k) == [i \in 1 .. k |-> sequence + i - 1]

LEMMA NumberedIs ==
  ASSUME sequence \in Nat, NEW k \in Nat
  PROVE  /\ Numbered(k) \in Seq(Nat) /\ Len(Numbered(k)) = k
         /\ \A i \in 1 .. Len(Numbered(k)) : Numbered(k)[i] = sequence + i - 1
<1>1. \A i \in 1 .. k : sequence + i - 1 \in Nat
  OBVIOUS
<1> QED BY <1>1 DEF Numbered

\* Records taken out of nothing: the queue is left alone.
LEMMA SendsOnlyNew ==
  ASSUME BaseInv, EveryRecordIsAccounted, NEW new \in Seq(Nat),
         \A i \in 1 .. Len(new) : new[i] = sequence + i - 1,
         sequence' = sequence + Len(new), UNCHANGED <<queue, unbuffered, validator>>,
         \/ Transmit(new)
         \/ \E n \in 1 .. Len(new) : Break(new, n) /\ Len(new) - n < Batch
  PROVE  Produced
<1>1. /\ queue' \in Queue(Nat) /\ NoneTwice(queue') /\ Used(queue) \in Nat
      /\ \A s : Holds(queue', s) => Holds(queue, s)
  BY UsedType DEF BaseInv, TypeOK, OnePlace
<1>2. PICK old \in Seq(Nat) : old = << >> /\ Len(old) = 0 /\ new \o old = new
  BY EmptySeq, ConcatEmptySeq
<1>3. Used(queue') + Len(old) = Used(queue) /\ 1 .. Len(old) = {}
  BY <1>1, <1>2
<1>4. \/ Transmit(new \o old)
      \/ \E n \in 1 .. Len(new \o old) :
           Break(new \o old, n) /\ Len(new \o old) - n < Batch
  BY <1>2
<1>5. UNCHANGED <<unbuffered, validator>>
  OBVIOUS
<1> QED BY <1>1, <1>3, <1>4, <1>5, SendKeeps

\* New records and a batch out of the queue.
LEMMA SendsBatch ==
  ASSUME BaseInv, EveryRecordIsAccounted, NEW new \in Seq(Nat), NEW old,
         \A i \in 1 .. Len(new) : new[i] = sequence + i - 1,
         sequence' = sequence + Len(new), UNCHANGED <<unbuffered, validator>>,
         old = Drained(queue, DrainPerTick), queue' = AfterDrain(queue, DrainPerTick),
         \/ Transmit(new \o old)
         \/ \E n \in 1 .. Len(new \o old) :
              Break(new \o old, n) /\ Len(new \o old) - n < Batch
  PROVE  Produced
<1>1. queue \in Queue(Nat) /\ NoneTwice(queue) /\ DrainPerTick \in Int
  BY Numbers DEF BaseInv, TypeOK, OnePlace
<1>2. PICK rest : rest = AfterDrain(queue, DrainPerTick)
  OBVIOUS
<1>3. /\ rest \in Queue(Nat) /\ old \in Seq(Nat)
      /\ Used(rest) + Len(old) = Used(queue) /\ NoneTwice(rest)
      /\ \A record : Holds(rest, record) => Holds(queue, record)
      /\ \A j \in 1 .. Len(old) : Holds(queue, old[j]) /\ ~Holds(rest, old[j])
      /\ \A j, l \in 1 .. Len(old) : old[j] = old[l] => j = l
  BY <1>1, <1>2, DrainIs
<1> QED BY <1>2, <1>3, SendKeeps

(***************************************************************************)
(* produce_telemetry and _dispatch, in view or not.                        *)
(***************************************************************************)
LEMMA ProduceKeeps ==
  ASSUME BaseInv, EveryRecordIsAccounted, NEW inView, NEW cap \in Nat \ {0},
         ProduceAndDispatch(inView, cap), UNCHANGED validator
  PROVE  Produced
<1>1. PICK priorities \in Productions :
        /\ sequence' = sequence + Len(priorities)
        /\ IF inView
           THEN SendInView([i \in 1 .. Len(priorities) |-> sequence + i - 1])
           ELSE BufferOutOfView(priorities, cap)
  BY DEF ProduceAndDispatch
<1>2. /\ Len(priorities) \in {0, 1, 2}
      /\ \A i \in 1 .. Len(priorities) : priorities[i] \in Priority
  BY ProductionsAre
<1>3. CASE ~inView
  BY <1>1, <1>2, <1>3, BufferKeeps
<1>4. CASE inView
  <2>1. PICK k \in Nat : k = Len(priorities)
    BY <1>2
  <2>2. PICK new : new = Numbered(k)
    OBVIOUS
  <2>3. /\ new \in Seq(Nat) /\ Len(new) = k
        /\ \A i \in 1 .. Len(new) : new[i] = sequence + i - 1
    BY <2>2, NumberedIs DEF BaseInv, TypeOK
  <2>4. sequence' = sequence + Len(new) /\ SendInView(new)
    BY <1>1, <1>4, <2>1, <2>2, <2>3 DEF Numbered
  <2>5. CASE config.downlink_buffer_on_contact
    <3>1. PICK old : old = Drained(queue, DrainPerTick)
      OBVIOUS
    <3>2. /\ unbuffered' = unbuffered /\ queue' = AfterDrain(queue, DrainPerTick)
          /\ Transmit(new \o old)
      BY <2>4, <2>5, <3>1 DEF SendInView
    <3> QED BY <2>3, <2>4, <3>1, <3>2, SendsBatch
  <2>6. CASE ~config.downlink_buffer_on_contact
    <3>1. unbuffered' = unbuffered /\ queue' = queue /\ Transmit(new)
      BY <2>4, <2>6 DEF SendInView
    <3> QED BY <2>3, <2>4, <3>1, SendsOnlyNew
  <2> QED BY <2>5, <2>6
<1> QED BY <1>3, <1>4

(***************************************************************************)
(* produce_telemetry and a _dispatch that is broken off.                   *)
(***************************************************************************)
LEMMA RaiseKeeps ==
  ASSUME BaseInv, EveryRecordIsAccounted, ProduceAndRaise, UNCHANGED validator
  PROVE  Produced
<1>1. PICK priorities \in Productions :
        /\ sequence' = sequence + Len(priorities)
        /\ RaiseInView([i \in 1 .. Len(priorities) |-> sequence + i - 1])
  BY DEF ProduceAndRaise
<1>2. PICK k \in Nat : k = Len(priorities) /\ k <= 2
  BY ProductionsAre
<1>3. PICK new : new = Numbered(k)
  OBVIOUS
<1>4. /\ new \in Seq(Nat) /\ Len(new) = k
      /\ \A i \in 1 .. Len(new) : new[i] = sequence + i - 1
  BY <1>3, NumberedIs DEF BaseInv, TypeOK
<1>5. sequence' = sequence + Len(new) /\ RaiseInView(new)
  BY <1>1, <1>2, <1>3, <1>4 DEF Numbered
<1>6. unbuffered' = unbuffered
  BY <1>5 DEF RaiseInView
<1>7. PICK b \in Nat : b = Batch /\ b >= 2 /\ b >= DrainPerTick
  BY DrainAssumption DEF Batch
<1>8. ASSUME NEW n \in 1 .. Len(new), Break(new, n), UNCHANGED queue
      PROVE  Produced
  <2>1. Len(new) - n < b
    BY <1>2, <1>4, <1>7
  <2> QED BY <1>4, <1>5, <1>6, <1>7, <1>8, <2>1, SendsOnlyNew
<1>9. ASSUME NEW old, old = Drained(queue, DrainPerTick),
             NEW n \in Len(new) + 1 .. Len(new \o old), Break(new \o old, n),
             queue' = AfterDrain(queue, DrainPerTick)
      PROVE  Produced
  <2>1. old \in Seq(Nat) /\ Len(old) <= DrainPerTick
    <3>1. queue \in Queue(Nat) /\ NoneTwice(queue) /\ DrainPerTick \in Int
      BY Numbers DEF BaseInv, TypeOK, OnePlace
    <3>2. old \in Seq(Nat)
      BY <1>9, <3>1, DrainIs
    <3>3. Len(old) <= DrainPerTick
      BY <1>9, <3>1, BatchSize
    <3> QED BY <3>2, <3>3
  <2>2. /\ n \in 1 .. Len(new \o old) /\ Len(new \o old) - n < b
    <3>1. PICK l \in Nat, d \in Nat : l = Len(old) /\ d = DrainPerTick
      BY <2>1, Numbers
    <3>2. Len(new \o old) = k + l /\ n \in k + 1 .. k + l
      <4>1. Len(new \o old) = Len(new) + Len(old)
        BY <1>4, <2>1, ConcatProperties
      <4>2. Len(new) = k /\ Len(old) = l
        BY <1>4, <3>1
      <4>3. Len(new \o old) = k + l
        BY <4>1, <4>2
      <4>4. n \in Len(new) + 1 .. Len(new \o old)
        BY <1>9
      <4> QED BY ONLY <4>2, <4>3, <4>4
    <3>3. l <= d /\ d <= b
      BY <1>7, <2>1, <3>1
    <3>4. n \in 1 .. k + l /\ k + l - n < b
      BY <3>2, <3>3
    <3> QED BY <3>2, <3>4
  <2>3. \/ Transmit(new \o old)
        \/ \E m \in 1 .. Len(new \o old) :
             Break(new \o old, m) /\ Len(new \o old) - m < Batch
    BY <1>7, <1>9, <2>2
  <2>4. old = Drained(queue, DrainPerTick) /\ queue' = AfterDrain(queue, DrainPerTick)
    BY <1>9
  <2> QED BY <1>4, <1>5, <1>6, <2>3, <2>4, SendsBatch
<1>10. \/ \E n \in 1 .. Len(new) : Break(new, n) /\ UNCHANGED queue
       \/ \E n \in Len(new) + 1 .. Len(new \o Drained(queue, DrainPerTick)) :
            /\ Break(new \o Drained(queue, DrainPerTick), n)
            /\ queue' = AfterDrain(queue, DrainPerTick)
  BY <1>5 DEF RaiseInView
<1> QED BY <1>8, <1>9, <1>10

\* What a step that only produces and dispatches leaves true.
LEMMA ProducedKeeps ==
  ASSUME Inv, Produced, pc' \in {"tick", "fetch"}, visible' \in BOOLEAN,
         capacity' \in Nat \ {0}, UNCHANGED <<config, gate, validator, first>>
  PROVE  Inv'
<1>1. BaseInv'
  BY DEF Inv, BaseInv, TypeOK, Produced
<1>2. /\ counts'["accepted"] = counts["accepted"] /\ counts'["missing"] = counts["missing"]
      /\ counts'["late"] = counts["late"] /\ counts'["duplicates"] = counts["duplicates"]
  BY DEF Produced
<1>3. NothingYet'
  BY <1>2 DEF Inv, NothingYet
<1>4. MissingAddsUp'
  BY <1>2 DEF Inv, MissingAddsUp
<1> QED BY <1>1, <1>3, <1>4 DEF Inv, Produced

\* A tick of the spacecraft.
LEMMA SpacecraftTickKeeps ==
  ASSUME Inv, SpacecraftTick
  PROVE  Inv'
<1>1. PICK inView \in BOOLEAN, storageFull \in BOOLEAN :
        /\ visible' = inView
        /\ capacity' = CapacityUnder(storageFull)
        /\ \/ pc' = "fetch" /\ ProduceAndDispatch(inView, CapacityUnder(storageFull))
           \/ pc' = "tick" /\ inView /\ ProduceAndRaise
  BY DEF SpacecraftTick
<1>2. CapacityUnder(storageFull) \in Nat \ {0}
  BY CapacityAssumption DEF CapacityUnder, Inv, BaseInv, TypeOK
<1>3. pc' \in {"tick", "fetch"} /\ UNCHANGED <<config, gate, validator, first>>
  BY <1>1 DEF SpacecraftTick, groundVars
<1>4. Produced
  BY <1>1, <1>2, <1>3, ProduceKeeps, RaiseKeeps DEF Inv
<1> QED BY <1>1, <1>2, <1>3, <1>4, ProducedKeeps

\* REQUEST_TELEMETRY.
LEMMA RequestTelemetryKeeps ==
  ASSUME Inv, RequestTelemetry
  PROVE  Inv'
<1>1. /\ ProduceAndDispatch(visible, capacity) \/ ProduceAndRaise
      /\ capacity \in Nat \ {0}
      /\ UNCHANGED <<config, pc, visible, capacity, gate, validator, first>>
  BY DEF RequestTelemetry, groundVars, Inv, BaseInv, TypeOK
<1>2. Produced
  BY <1>1, ProduceKeeps, RaiseKeeps DEF Inv
<1>3. pc' \in {"tick", "fetch"} /\ visible' \in BOOLEAN /\ capacity' \in Nat \ {0}
  BY <1>1 DEF Inv, BaseInv, TypeOK
<1> QED BY <1>1, <1>2, <1>3, ProducedKeeps

\* The gate follows the visibility.
LEMMA UpdateGateKeeps ==
  ASSUME Inv, UpdateGate
  PROVE  Inv'
<1>1. /\ pc' = "tick" /\ gate' = visible
      /\ UNCHANGED <<config, sequence, visible, queue, capacity, unbuffered, inFlight, errors,
                     spilled, counts, validator, first>>
  BY DEF UpdateGate, boardVars, groundVars
<1>2. BaseInv'
  BY <1>1 DEF Inv, BaseInv, TypeOK, Finite, OnePlace
<1> QED BY <1>1, <1>2 DEF Inv, NothingYet, EveryRecordIsAccounted, MissingAddsUp

\* What the validator makes of a frame it does not remember.
LEMMA ValidatedIs ==
  ASSUME NEW v \in Validator, NEW s \in Nat \ {0}, ~SeenRecently(v, s)
  PROVE  /\ Status(v, s) # "DUPLICATE"
         /\ Validated(v, s) \in Validator /\ Validated(v, s).expected # 0
         /\ \A i \in 1 .. Len(Validated(v, s).recent) :
              \/ Validated(v, s).recent[i] = s
              \/ \E j \in 1 .. Len(v.recent) : Validated(v, s).recent[i] = v.recent[j]
         /\ Missing(v, s) \in Nat
         /\ v.expected = 0 =>
              /\ Validated(v, s).expected = s
              /\ Missing(v, s) = 0 /\ Status(v, s) # "LATE"
         /\ v.expected > s =>
              /\ Validated(v, s).expected = v.expected
              /\ Missing(v, s) = 0 /\ Status(v, s) = "LATE"
         /\ v.expected # 0 /\ v.expected <= s =>
              /\ Validated(v, s).expected = s + 1
              /\ Missing(v, s) = s - v.expected /\ Status(v, s) # "LATE"
<1>1. v.expected \in Nat /\ v.recent \in Seq(Nat) /\ v = [expected |-> v.expected, recent |-> v.recent]
  BY DEF Validator
<1>2. /\ Appended(v.recent, s) \in Seq(Nat)
      /\ \A i \in 1 .. Len(Appended(v.recent, s)) :
           \/ Appended(v.recent, s)[i] = s
           \/ \E j \in 1 .. Len(v.recent) : Appended(v.recent, s)[i] = v.recent[j]
  <2>1. PICK r \in Seq(Nat) : r = v.recent
    BY <1>1
  <2>2. CASE Len(r) < RecentWindow
    <3>1. Appended(r, s) = Append(r, s)
      BY <2>2 DEF Appended
    <3>2. /\ Append(r, s) \in Seq(Nat) /\ Len(Append(r, s)) = Len(r) + 1
          /\ \A i \in 1 .. Len(r) + 1 : Append(r, s)[i] = IF i <= Len(r) THEN r[i] ELSE s
      OBVIOUS
    <3>3. \A i \in 1 .. Len(r) + 1 : i <= Len(r) => i \in 1 .. Len(r)
      OBVIOUS
    <3> QED BY <2>1, <3>1, <3>2, <3>3
  <2>3. CASE ~(Len(r) < RecentWindow)
    <3>1. Appended(r, s) = Append(Tail(r), s)
      BY <2>3 DEF Appended
    <3>2. r # << >> /\ Len(r) > 0
      BY <2>3, WindowAssumption
    <3>3. PICK t \in Seq(Nat) :
            t = Tail(r) /\ Len(t) = Len(r) - 1 /\ \A i \in 1 .. Len(t) : t[i] = r[i + 1]
      BY <3>2, HeadTailProperties
    <3>4. /\ Append(t, s) \in Seq(Nat) /\ Len(Append(t, s)) = Len(t) + 1
          /\ \A i \in 1 .. Len(t) + 1 : Append(t, s)[i] = IF i <= Len(t) THEN t[i] ELSE s
      OBVIOUS
    <3>5. ASSUME NEW i \in 1 .. Len(t) + 1
          PROVE  Append(t, s)[i] = s \/ \E j \in 1 .. Len(r) : Append(t, s)[i] = r[j]
      <4>1. CASE i <= Len(t)
        <5>1. i \in 1 .. Len(t) /\ i + 1 \in 1 .. Len(r)
          BY <3>3, <4>1
        <5>2. Append(t, s)[i] = r[i + 1]
          BY <3>3, <3>4, <4>1, <5>1
        <5> QED BY <5>1, <5>2
      <4>2. CASE ~(i <= Len(t))
        BY <3>4, <4>2
      <4> QED BY <4>1, <4>2
    <3> QED BY <2>1, <3>1, <3>3, <3>4, <3>5
  <2> QED BY <2>2, <2>3
<1>3. CASE v.expected = 0
  <2>1. Status(v, s) = "OK"
    BY <1>3 DEF Status
  <2>2. Missing(v, s) = 0
    BY <2>1 DEF Missing
  <2>3. Validated(v, s) = [expected |-> s, recent |-> v.recent]
    <3>1. Validated(v, s) = [v EXCEPT !.expected = s]
      BY <1>3 DEF Validated
    <3> QED BY <1>1, <3>1
  <2> QED BY <1>1, <1>3, <2>1, <2>2, <2>3 DEF Validator
<1>4. CASE v.expected > s
  <2>1. Validated(v, s) = v /\ Status(v, s) = "LATE" /\ v.expected # 0
    BY <1>1, <1>4 DEF Validated, Status
  <2>2. Missing(v, s) = 0
    BY <2>1 DEF Missing
  <2> QED BY <1>1, <1>4, <2>1, <2>2
<1>5. CASE v.expected # 0 /\ v.expected <= s
  <2>1. Validated(v, s) = [expected |-> s + 1, recent |-> Appended(v.recent, s)]
    BY <1>1, <1>5 DEF Validated
  <2>2. Status(v, s) = IF v.expected = s THEN "OK" ELSE "GAP"
    BY <1>1, <1>5 DEF Status
  <2>3. Missing(v, s) = s - v.expected /\ Missing(v, s) \in Nat
    BY <1>1, <1>5, <2>2 DEF Missing
  <2>4. PICK a : a = Appended(v.recent, s)
    OBVIOUS
  <2>5. /\ a \in Seq(Nat)
        /\ \A i \in 1 .. Len(a) : a[i] = s \/ \E j \in 1 .. Len(v.recent) : a[i] = v.recent[j]
    BY <1>2, <2>4
  <2>6. PICK w : w = [expected |-> s + 1, recent |-> a]
    OBVIOUS
  <2>7. /\ w \in Validator /\ w.expected = s + 1 /\ w.expected # 0 /\ w.recent = a
    BY <2>5, <2>6 DEF Validator
  <2>8. Validated(v, s) = w
    BY <2>1, <2>4, <2>6
  <2>9. Status(v, s) # "DUPLICATE" /\ Status(v, s) # "LATE"
    BY <2>2
  <2>10. ~(v.expected = 0) /\ ~(v.expected > s)
    BY <1>1, <1>5
  <2> QED BY <2>3, <2>5, <2>7, <2>8, <2>9, <2>10
<1> QED BY <1>1, <1>3, <1>4, <1>5

(***************************************************************************)
(* A frame leaves the link: what stays in its place, and the count of      *)
(* frames received.                                                        *)
(***************************************************************************)
LEMMA FrameLeaves ==
  ASSUME Inv, NEW f \in inFlight, inFlight' = inFlight \ {f},
         UNCHANGED <<boardVars, gate>>, pc' \in {"tick", "fetch"},
         errors' \in 0 .. MaxErrors, spilled' \in Nat, spilled' <= errors' * Batch,
         counts' \in [Counter -> Nat],
         counts'["received"] + spilled' = counts["received"] + spilled + 1,
         \A c \in {"dropped", "gate_dropped", "lost", "duplicates"} : counts'[c] = counts[c],
         validator' \in Validator, first' \in Nat,
         \A i \in 1 .. Len(validator'.recent) :
           \/ validator'.recent[i] = f.seq
           \/ \E j \in 1 .. Len(validator.recent) : validator'.recent[i] = validator.recent[j]
  PROVE  BaseInv' /\ EveryRecordIsAccounted'
<1>0. /\ UNCHANGED <<config, sequence, visible, queue, capacity, unbuffered, gate>>
      /\ sequence \in Nat /\ unbuffered \in Nat /\ FirstSequence \in Nat
      /\ Used(queue) \in Nat /\ Cardinality(inFlight) \in Nat /\ counts \in [Counter -> Nat]
      /\ inFlight \subseteq [seq : FirstSequence .. (sequence - 1), intact : BOOLEAN]
      /\ spilled \in Nat
  BY Numbers, UsedType, FS_CardinalityType DEF Inv, BaseInv, TypeOK, Finite, boardVars
<1>1. IsFiniteSet(inFlight') /\ Cardinality(inFlight') + 1 = Cardinality(inFlight)
  <2>1. {f} \in SUBSET inFlight /\ IsFiniteSet(inFlight) /\ Cardinality({f}) = 1
    BY FS_Singleton DEF Inv, BaseInv, Finite
  <2>2. /\ IsFiniteSet(inFlight \ {f})
        /\ Cardinality(inFlight \ {f}) + Cardinality({f}) = Cardinality(inFlight)
    BY <2>1, DifferenceCount
  <2> QED BY <2>1, <2>2
<1>2. OnePlace'
  <2>1. /\ NoneTwice(queue)
        /\ \A s : Holds(queue, s) => s \in FirstSequence .. sequence - 1
        /\ \A g \in inFlight : ~Holds(queue, g.seq)
        /\ \A g, h \in inFlight : g.seq = h.seq => g = h
        /\ \A i \in 1 .. Len(validator.recent) :
             /\ validator.recent[i] < sequence
             /\ ~Holds(queue, validator.recent[i])
             /\ \A g \in inFlight : g.seq # validator.recent[i]
    BY DEF Inv, BaseInv, OnePlace
  <2>2. ASSUME NEW i \in 1 .. Len(validator'.recent)
        PROVE  /\ validator'.recent[i] < sequence
               /\ ~Holds(queue, validator'.recent[i])
               /\ \A g \in inFlight' : g.seq # validator'.recent[i]
    <3>1. CASE validator'.recent[i] = f.seq
      <4>1. f.seq < sequence
        BY <1>0
      <4> QED BY <2>1, <3>1, <4>1
    <3>2. CASE \E j \in 1 .. Len(validator.recent) : validator'.recent[i] = validator.recent[j]
      BY <2>1, <3>2
    <3> QED BY <3>1, <3>2
  <2> QED BY <1>0, <2>1, <2>2 DEF OnePlace
<1>3. BaseInv'
  <2>1. sequence' >= FirstSequence
    BY <1>0 DEF Inv, BaseInv
  <2>2. Finite'
    BY <1>1 DEF Finite
  <2>3. TypeOK'
    BY <1>0 DEF Inv, BaseInv, TypeOK
  <2> QED BY <1>2, <2>1, <2>2, <2>3 DEF BaseInv
<1>4. EveryRecordIsAccounted'
  <2>1. /\ counts'["dropped"] = counts["dropped"] /\ counts'["gate_dropped"] = counts["gate_dropped"]
        /\ counts'["lost"] = counts["lost"] /\ counts'["duplicates"] = counts["duplicates"]
    OBVIOUS
  <2>2. /\ counts["duplicates"] = 0
        /\ sequence - FirstSequence =
             Used(queue) + Cardinality(inFlight) + unbuffered + spilled + counts["received"]
               + counts["dropped"] + counts["gate_dropped"] + counts["lost"]
    BY DEF Inv, EveryRecordIsAccounted
  <2>3. PICK u \in Nat, c \in Nat, d \in Nat, w \in Nat :
          /\ u = Used(queue) /\ c = Cardinality(inFlight) /\ d = Cardinality(inFlight')
          /\ w = unbuffered
    BY <1>0, <1>1, FS_CardinalityType
  <2>4. PICK r \in Nat, e \in Nat, g \in Nat, l \in Nat :
          /\ r = counts["received"] /\ e = counts["dropped"]
          /\ g = counts["gate_dropped"] /\ l = counts["lost"]
    BY <1>0 DEF Counter
  <2>8. PICK p \in Nat, q \in Nat, s \in Nat :
          p = spilled /\ q = spilled' /\ s = counts'["received"]
    BY <1>0 DEF Counter
  <2>5. sequence - FirstSequence = u + c + w + p + r + e + g + l /\ d + 1 = c /\ s + q = r + p + 1
    BY <1>1, <2>2, <2>3, <2>4, <2>8
  <2>6. sequence - FirstSequence = u + d + w + q + s + e + g + l
    <3>1. u + c + w + p + r + e + g + l = u + d + w + q + s + e + g + l
      BY <2>5
    <3> QED BY <2>5, <3>1
  <2>7. sequence' - FirstSequence =
          Used(queue') + Cardinality(inFlight') + unbuffered' + spilled' + counts'["received"]
            + counts'["dropped"] + counts'["gate_dropped"] + counts'["lost"]
    BY <1>0, <2>1, <2>3, <2>4, <2>6, <2>8
  <2> QED BY <2>1, <2>2, <2>7 DEF EveryRecordIsAccounted
<1> QED BY <1>3, <1>4

\* A damaged frame.
LEMMA RejectKeeps ==
  ASSUME Inv, NEW f \in inFlight, Deliver(f), Reject(f)
  PROVE  Inv'
<1>1. /\ inFlight' = inFlight \ {f} /\ UNCHANGED <<pc, boardVars, gate, errors, spilled>>
      /\ pc' \in {"tick", "fetch"} /\ errors' \in 0 .. MaxErrors /\ spilled' \in Nat
      /\ spilled' <= errors' * Batch
  BY DEF Deliver, Inv, BaseInv, TypeOK, EveryRecordIsAccounted
<1>2. validator' = validator /\ first' = first
  BY DEF Reject, groundVars
<1>3. PICK x \in Nat :
        counts' = [counts EXCEPT !["received"] = @ + 1, !["rejected"] = @ + 1,
                                 !["corrupted"] = @ + x]
  BY DEF Reject
<1>4. counts \in [Counter -> Nat] /\ validator \in Validator /\ first \in Nat
  BY DEF Inv, BaseInv, TypeOK
<1>5. /\ counts' \in [Counter -> Nat] /\ counts'["received"] = counts["received"] + 1
      /\ \A c \in Counter \ {"received", "rejected", "corrupted"} : counts'[c] = counts[c]
  <2>1. "received" \in Counter /\ "rejected" \in Counter /\ "corrupted" \in Counter
    BY DEF Counter
  <2> QED BY <1>3, <1>4, <2>1
<1>6. /\ \A c \in {"dropped", "gate_dropped", "lost", "duplicates"} : counts'[c] = counts[c]
      /\ counts'["accepted"] = counts["accepted"] /\ counts'["missing"] = counts["missing"]
      /\ counts'["late"] = counts["late"] /\ counts'["duplicates"] = counts["duplicates"]
  BY <1>5 DEF Counter
<1>7. BaseInv' /\ EveryRecordIsAccounted'
  <2>1. counts'["received"] + spilled' = counts["received"] + spilled + 1
    BY <1>1, <1>4, <1>5 DEF Counter
  <2> QED BY <1>1, <1>2, <1>4, <1>5, <1>6, <2>1, FrameLeaves
<1>8. NothingYet' /\ MissingAddsUp'
  BY <1>2, <1>6 DEF Inv, NothingYet, MissingAddsUp
<1> QED BY <1>7, <1>8 DEF Inv

\* An intact frame.
LEMMA AcceptKeeps ==
  ASSUME Inv, NEW f \in inFlight, Deliver(f), Accept(f)
  PROVE  Inv'
<1>1. /\ inFlight' = inFlight \ {f} /\ UNCHANGED <<pc, boardVars, gate, errors, spilled>>
      /\ pc' \in {"tick", "fetch"} /\ errors' \in 0 .. MaxErrors /\ spilled' \in Nat
      /\ spilled' <= errors' * Batch
  BY DEF Deliver, Inv, BaseInv, TypeOK, EveryRecordIsAccounted
<1>2. /\ counts \in [Counter -> Nat] /\ validator \in Validator /\ first \in Nat
      /\ validator.expected \in Nat
  BY DEF Inv, BaseInv, TypeOK, Validator
<1>3. PICK s \in Nat \ {0} : s = f.seq
  BY Numbers DEF Inv, BaseInv, TypeOK
<1>4. ~SeenRecently(validator, s)
  BY <1>3 DEF Inv, BaseInv, OnePlace, SeenRecently
<1>5. PICK v \in Validator, m \in Nat :
        /\ v = Validated(validator, s) /\ m = Missing(validator, s)
        /\ Status(validator, s) # "DUPLICATE" /\ v.expected # 0
        /\ \A i \in 1 .. Len(v.recent) :
             \/ v.recent[i] = s
             \/ \E j \in 1 .. Len(validator.recent) : v.recent[i] = validator.recent[j]
        /\ validator.expected = 0 =>
             v.expected = s /\ m = 0 /\ Status(validator, s) # "LATE"
        /\ validator.expected > s =>
             v.expected = validator.expected /\ m = 0 /\ Status(validator, s) = "LATE"
        /\ validator.expected # 0 /\ validator.expected <= s =>
             /\ v.expected = s + 1
             /\ m = s - validator.expected /\ Status(validator, s) # "LATE"
  BY <1>2, <1>4, ValidatedIs
<1>6. PICK l \in Nat : l = IF Status(validator, s) = "LATE" THEN 1 ELSE 0
  OBVIOUS
<1>7. counts' = [counts EXCEPT !["received"] = @ + 1, !["accepted"] = @ + 1,
                               !["missing"] = @ + m, !["duplicates"] = @ + 0, !["late"] = @ + l]
  BY <1>3, <1>5, <1>6 DEF Accept
<1>8. validator' = v /\ first' = IF first = 0 THEN s ELSE first
  BY <1>3, <1>5 DEF Accept
<1>9. /\ counts' \in [Counter -> Nat]
      /\ counts'["received"] = counts["received"] + 1 /\ counts'["accepted"] = counts["accepted"] + 1
      /\ counts'["missing"] = counts["missing"] + m
      /\ counts'["duplicates"] = counts["duplicates"] + 0
      /\ counts'["late"] = counts["late"] + l
      /\ \A c \in {"dropped", "gate_dropped", "lost"} : counts'[c] = counts[c]
  <2>1. {"received", "accepted", "missing", "duplicates", "late", "dropped", "gate_dropped", "lost"}
          \subseteq Counter
    BY DEF Counter
  <2> QED BY <1>2, <1>7, <2>1
<1>10. PICK a \in Nat, n \in Nat, d \in Nat, t \in Nat :
         /\ a = counts["accepted"] /\ n = counts["missing"]
         /\ d = counts["duplicates"] /\ t = counts["late"]
  BY <1>2 DEF Counter
<1>11. /\ counts'["accepted"] = a + 1 /\ counts'["missing"] = n + m
       /\ counts'["duplicates"] = d /\ counts'["late"] = t + l
  BY <1>9, <1>10
<1>12. BaseInv' /\ EveryRecordIsAccounted'
  <2>1. \A c \in {"dropped", "gate_dropped", "lost", "duplicates"} : counts'[c] = counts[c]
    BY <1>9, <1>10, <1>11
  <2>2. validator' \in Validator /\ first' \in Nat
    BY <1>2, <1>8
  <2>3. counts'["received"] + spilled' = counts["received"] + spilled + 1
    BY <1>1, <1>2, <1>9 DEF Counter
  <2> QED BY <1>1, <1>3, <1>5, <1>8, <1>9, <2>1, <2>2, <2>3, FrameLeaves
<1>13. first' # 0 /\ validator'.expected # 0
  BY <1>5, <1>8
<1>14. NothingYet'
  BY <1>13 DEF NothingYet
<1>15. /\ first = 0 <=> validator.expected = 0
       /\ first = 0 => a = 0 /\ n = 0 /\ d = 0 /\ t = 0
       /\ first # 0 => validator.expected - first = n + a - 1 - t - d
  BY <1>10 DEF Inv, NothingYet, MissingAddsUp
<1>16. v.expected - (IF first = 0 THEN s ELSE first) = (n + m) + (a + 1) - 1 - (t + l) - d
  <2>1. CASE validator.expected = 0
    <3>1. first = 0 /\ v.expected = s /\ m = 0 /\ l = 0
      BY <1>5, <1>6, <1>15, <2>1
    <3> QED BY <1>15, <3>1
  <2>2. CASE validator.expected > s
    <3>1. first # 0 /\ v.expected = validator.expected /\ m = 0 /\ l = 1
      BY <1>2, <1>5, <1>6, <1>15, <2>2
    <3> QED BY <1>2, <1>15, <3>1
  <2>3. CASE validator.expected # 0 /\ validator.expected <= s
    <3>1. first # 0 /\ v.expected = s + 1 /\ m = s - validator.expected /\ l = 0
      BY <1>2, <1>5, <1>6, <1>15, <2>3
    <3> QED BY <1>2, <1>15, <3>1
  <2> QED BY <1>2, <2>1, <2>2, <2>3
<1>17. MissingAddsUp'
  BY <1>8, <1>11, <1>16 DEF MissingAddsUp
<1> QED BY <1>12, <1>14, <1>17 DEF Inv

\* heappop raises, and its frame is gone.
LEMMA AbortFetchKeeps ==
  ASSUME Inv, AbortFetch
  PROVE  Inv'
<1>1. /\ pc' = "tick" /\ errors' = errors + 1
      /\ UNCHANGED <<config, sequence, visible, queue, capacity, unbuffered, gate, counts,
                     validator, first>>
  BY DEF AbortFetch, boardVars, groundVars
<1>2. /\ errors \in Nat /\ errors' \in 0 .. MaxErrors /\ spilled \in Nat
      /\ counts \in [Counter -> Nat] /\ validator \in Validator /\ first \in Nat
      /\ spilled <= errors * Batch
  BY <1>1, MaxErrorsAssumption
  DEF AbortFetch, Inv, BaseInv, TypeOK, EveryRecordIsAccounted
<1>3. PICK b \in Nat : b = Batch /\ b >= 1
  BY DrainAssumption DEF Batch
<1>4. NothingYet' /\ MissingAddsUp'
  BY <1>1 DEF Inv, NothingYet, MissingAddsUp
<1>5. ASSUME NEW f \in inFlight, inFlight' = inFlight \ {f}, spilled' = spilled + 1
      PROVE  Inv'
  <2>1. spilled' \in Nat /\ spilled' <= spilled + Batch
    BY <1>2, <1>3, <1>5
  <2>2. spilled' <= errors' * Batch
    BY <1>1, <1>2, <2>1, BatchBound
  <2>3. counts'["received"] + spilled' = counts["received"] + spilled + 1
    BY <1>1, <1>2, <1>5 DEF Counter
  <2>4. BaseInv' /\ EveryRecordIsAccounted'
    <3>1. UNCHANGED <<boardVars, gate>> /\ pc' \in {"tick", "fetch"}
      BY <1>1 DEF boardVars
    <3> QED BY <1>1, <1>2, <1>5, <2>1, <2>2, <2>3, <3>1, FrameLeaves
  <2> QED BY <1>4, <2>4 DEF Inv
<1>6. CASE UNCHANGED <<inFlight, spilled>>
  <2>1. BaseInv'
    BY <1>1, <1>2, <1>6 DEF Inv, BaseInv, TypeOK, Finite, OnePlace
  <2>2. spilled' <= errors' * Batch
    <3>1. spilled' \in Nat /\ spilled' <= spilled + Batch
      BY <1>2, <1>3, <1>6
    <3> QED BY <1>1, <1>2, <3>1, BatchBound
  <2>3. EveryRecordIsAccounted'
    BY <1>1, <1>6, <2>2 DEF Inv, EveryRecordIsAccounted
  <2> QED BY <1>4, <2>1, <2>3 DEF Inv
<1> QED BY <1>5, <1>6 DEF AbortFetch

-------------------------------------------------------------------------------
(* Theorems *)

\* The invariant holds at the start.
LEMMA InitInv == Init => Inv
<1> SUFFICES ASSUME Init PROVE Inv
  OBVIOUS
<1>1. /\ sequence = FirstSequence /\ unbuffered = 0 /\ inFlight = {} /\ first = 0
      /\ errors = 0 /\ spilled = 0
      /\ queue = EmptyQueue /\ validator = [expected |-> 0, recent |-> << >>]
      /\ counts = [c \in Counter |-> 0]
  BY DEF Init, NewValidator
<1>2. validator \in Validator /\ validator.expected = 0 /\ Len(validator.recent) = 0
  BY <1>1, EmptySeq DEF Validator
<1>3. IsFiniteSet(inFlight) /\ Cardinality(inFlight) = 0
  BY <1>1, FS_EmptySet
<1>4. /\ queue \in Queue(Nat) /\ Used(queue) = 0 /\ NoneTwice(queue)
      /\ \A s : ~Holds(queue, s)
  BY <1>1, EmptyQueueIs
<1>5. TypeOK
  <2>1. counts \in [Counter -> Nat]
    BY <1>1
  <2>2. capacity \in Nat \ {0}
    BY CapacityAssumption DEF Init
  <2>3. inFlight \subseteq [seq : FirstSequence .. (sequence - 1), intact : BOOLEAN]
    BY <1>1
  <2>4. sequence \in Nat /\ unbuffered \in Nat /\ first \in Nat
    BY <1>1, Numbers
  <2>5. /\ config \in Configuration /\ pc \in {"tick", "fetch"}
        /\ visible \in BOOLEAN /\ gate \in BOOLEAN
    BY DEF Init
  <2>6. errors \in 0 .. MaxErrors /\ spilled \in Nat
    BY <1>1, MaxErrorsAssumption
  <2> QED BY <1>2, <1>4, <2>1, <2>2, <2>3, <2>4, <2>5, <2>6 DEF TypeOK
<1>6. OnePlace
  BY <1>1, <1>2, <1>4 DEF OnePlace
<1>7. BaseInv
  BY <1>1, <1>3, <1>5, <1>6, Numbers DEF BaseInv, Finite
<1>8. \A c \in {"received", "dropped", "gate_dropped", "lost", "accepted", "missing", "late",
                "duplicates"} : counts[c] = 0
  BY <1>1 DEF Counter
<1>9. NothingYet /\ MissingAddsUp
  BY <1>1, <1>2, <1>8 DEF NothingYet, MissingAddsUp
<1>10. EveryRecordIsAccounted
  <2>1. 0 <= 0 * Batch
    BY DrainAssumption DEF Batch
  <2> QED BY <1>1, <1>3, <1>4, <1>8, <2>1, Numbers DEF EveryRecordIsAccounted
<1> QED BY <1>7, <1>9, <1>10 DEF Inv

\* Every step keeps it.
LEMMA NextInv == Inv /\ [Next]_vars => Inv'
<1> SUFFICES ASSUME Inv, [Next]_vars PROVE Inv'
  OBVIOUS
<1>1. CASE SpacecraftTick
  BY <1>1, SpacecraftTickKeeps
<1>2. CASE RequestTelemetry
  BY <1>2, RequestTelemetryKeeps
<1>3. ASSUME NEW f \in inFlight, Deliver(f) PROVE Inv'
  BY <1>3, RejectKeeps, AcceptKeeps DEF Deliver
<1>4. CASE UpdateGate
  BY <1>4, UpdateGateKeeps
<1>6. CASE AbortFetch
  BY <1>6, AbortFetchKeeps
<1>5. CASE UNCHANGED vars
  <2>1. UNCHANGED <<config, pc, sequence, visible, queue, capacity, unbuffered, gate, inFlight,
                    errors, spilled, counts, validator, first>>
    BY <1>5 DEF vars, boardVars, linkVars, groundVars
  <2>2. BaseInv'
    BY <2>1 DEF Inv, BaseInv, TypeOK, Finite, OnePlace
  <2> QED BY <2>1, <2>2 DEF Inv, NothingYet, EveryRecordIsAccounted, MissingAddsUp
<1> QED BY <1>1, <1>2, <1>3, <1>4, <1>5, <1>6 DEF Next

\* The invariant holds in every reachable state.
THEOREM Invariance == Spec => []Inv
<1>1. Init => Inv
  BY InitInv
<1>2. Inv /\ [Next]_vars => Inv'
  BY NextInv
<1> QED BY <1>1, <1>2, PTL DEF Spec

(***************************************************************************)
(* Every variable keeps its type; a frame under way carries a sequence     *)
(* number that was given out.                                              *)
(***************************************************************************)
THEOREM TypeCorrectness == Spec => []TypeOK
<1>1. Inv => TypeOK
  BY DEF Inv, BaseInv
<1> QED BY <1>1, Invariance, PTL

(***************************************************************************)
(* Every record produced is in the buffer, under way, received or in one   *)
(* loss counter, and in one of these only, however long the pass, however  *)
(* small the buffer and in whatever order the frames arrive; the ground    *)
(* station reports no duplicate.                                           *)
(***************************************************************************)
THEOREM RecordsAccounted == Spec => []EveryRecordIsAccounted
<1>1. Inv => EveryRecordIsAccounted
  BY DEF Inv
<1> QED BY <1>1, Invariance, PTL

(***************************************************************************)
(* The counter of missing frames is the distance from the first frame to   *)
(* the expected one, less the frames received in between, even when late   *)
(* frames fill gaps that were counted long before.                         *)
(***************************************************************************)
THEOREM MissingIsExact == Spec => []MissingAddsUp
<1>1. Inv => MissingAddsUp
  BY DEF Inv
<1> QED BY <1>1, Invariance, PTL

===============================================================================
