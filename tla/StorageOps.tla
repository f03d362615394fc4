------------------------------ MODULE StorageOps ------------------------------
(***************************************************************************)
(* The pure part of the onboard store-and-forward queue                    *)
(* (src/satelite/storage.py, class OnboardStorage): what one call of       *)
(* enqueue or drain does to the three priority buckets.  OnboardStorage    *)
(* makes a state machine of these operators, and StoreAndForward puts the  *)
(* queue between the telemetry manager and the space link.                 *)
(*                                                                         *)
(* A queue is a function from priorities to sequences of records, oldest   *)
(* record first.  Records are left abstract.                               *)
(***************************************************************************)
EXTENDS Integers, Sequences

Priority == {"CRITICAL", "NORMAL", "LOW"}

\* The numeric value of a priority: a lower value is more urgent.
Rank == [p \in Priority |->
           CASE p = "CRITICAL" -> 0 [] p = "NORMAL" -> 1 [] p = "LOW" -> 2]

Queue(Record) == [Priority -> Seq(Record)]

EmptyQueue == [p \in Priority |-> << >>]

\* len(self)
Used(q) == Len(q["CRITICAL"]) + Len(q["NORMAL"]) + Len(q["LOW"])

-------------------------------------------------------------------------------
(* enqueue *)

\* Evicts the most urgent bucket first (the loop's order reversed).
MutantVictim(q) ==
  CHOOSE p \in Priority :
    /\ q[p] # << >>
    /\ \A other \in Priority : q[other] # << >> => Rank[other] >= Rank[p]

\* The bucket a full queue evicts from: the least urgent one that is not empty.
Victim(q) ==
  CHOOSE p \in Priority :
    /\ q[p] # << >>
    /\ \A other \in Priority : q[other] # << >> => Rank[other] <= Rank[p]

\* A full queue makes room by dropping the oldest record of the victim bucket.
\* It makes room for ONE record only, also when the queue holds more than its
\* capacity because the capacity has shrunk under it.
MakeRoom(q, capacity) ==
  IF Used(q) >= capacity THEN [q EXCEPT ![Victim(q)] = Tail(@)] ELSE q

\* The second test of the fill level left out.
MutantStores(q, capacity) == TRUE

\* The record is stored only if the queue is below its capacity by now.
Stores(q, capacity) == Used(MakeRoom(q, capacity)) < capacity

\* Pushes at the wrong end of the deque (appendleft for append).
MutantEnqueued(q, capacity, p, record) ==
  IF Stores(q, capacity)
  THEN [MakeRoom(q, capacity) EXCEPT ![p] = <<record>> \o @]
  ELSE MakeRoom(q, capacity)

Enqueued(q, capacity, p, record) ==
  IF Stores(q, capacity)
  THEN [MakeRoom(q, capacity) EXCEPT ![p] = Append(@, record)]
  ELSE MakeRoom(q, capacity)

\* Forgets to count the record it refuses (the increment before return False).
MutantDrops(q, capacity) == IF Used(q) < capacity THEN 0 ELSE 1

\* What enqueue adds to the counter of dropped records: the evicted record,
\* and the new one when it is refused all the same.
Drops(q, capacity) ==
  IF Used(q) < capacity THEN 0 ELSE IF Stores(q, capacity) THEN 1 ELSE 2

-------------------------------------------------------------------------------
(* drain *)

\* A limit of None (written 0 here) or below drains everything.
DrainCount(q, limit) ==
  IF limit <= 0 \/ limit > Used(q) THEN Used(q) ELSE limit

\* CRITICAL before NORMAL before LOW, first in first out within a priority.
Scheduled(q) == q["CRITICAL"] \o q["NORMAL"] \o q["LOW"]

\* The records one call of drain returns, in order.
Drained(q, limit) == SubSeq(Scheduled(q), 1, DrainCount(q, limit))

\* Walks the buckets from LOW to CRITICAL when it removes records.
MutantTaken(q, n, p) ==
  LET ahead == CASE p = "LOW"      -> 0
                 [] p = "NORMAL"   -> Len(q["LOW"])
                 [] p = "CRITICAL" -> Len(q["LOW"]) + Len(q["NORMAL"])
  IN  IF n <= ahead THEN 0
      ELSE IF n - ahead <= Len(q[p]) THEN n - ahead ELSE Len(q[p])

\* How many of the n records a drain takes come from the bucket of priority p.
Taken(q, n, p) ==
  LET ahead == CASE p = "CRITICAL" -> 0
                 [] p = "NORMAL"   -> Len(q["CRITICAL"])
                 [] p = "LOW"      -> Len(q["CRITICAL"]) + Len(q["NORMAL"])
  IN  IF n <= ahead THEN 0
      ELSE IF n - ahead <= Len(q[p]) THEN n - ahead ELSE Len(q[p])

\* The queue a drain leaves behind.
AfterDrain(q, limit) ==
  [p \in Priority |->
     SubSeq(q[p], Taken(q, DrainCount(q, limit), p) + 1, Len(q[p]))]
===============================================================================
