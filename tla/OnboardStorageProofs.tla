------------------------- MODULE OnboardStorageProofs -------------------------
(***************************************************************************)
(* Theorems about the onboard queue, for every capacity, every set of      *)
(* limits and any number of records.  The first half is lemmas about the   *)
(* pure operations of StorageOps; the second half is the invariants of     *)
(* OnboardStorage that rest on them.                                       *)
(***************************************************************************)
EXTENDS OnboardStorage, TLAPS

-------------------------------------------------------------------------------
(* Lemmas about one call of enqueue *)

(***************************************************************************)
(* len(self) is a natural number.                                          *)
(***************************************************************************)
LEMMA UsedNat ==
  ASSUME NEW S, NEW q \in Queue(S)
  PROVE  Used(q) \in Nat
  BY DEF Used, Queue, Priority

(***************************************************************************)
(* A queue that is not empty has a victim bucket, and it is the least      *)
(* urgent one that is not empty.                                           *)
(***************************************************************************)
LEMMA VictimExists ==
  ASSUME NEW S, NEW q \in Queue(S), Used(q) > 0
  PROVE  /\ Victim(q) \in Priority
         /\ q[Victim(q)] # << >>
         /\ \A other \in Priority :
              q[other] # << >> => Rank[other] <= Rank[Victim(q)]
<1> DEFINE IsVictim(p) ==
      /\ q[p] # << >>
      /\ \A other \in Priority : q[other] # << >> => Rank[other] <= Rank[p]
<1>1. /\ Rank["CRITICAL"] = 0 /\ Rank["NORMAL"] = 1 /\ Rank["LOW"] = 2
  BY DEF Rank, Priority
<1>2. \E p \in Priority : IsVictim(p)
  <2>1. CASE q["LOW"] # << >>
    BY <1>1, <2>1 DEF Priority
  <2>2. CASE q["LOW"] = << >> /\ q["NORMAL"] # << >>
    BY <1>1, <2>2 DEF Priority
  <2>3. CASE q["LOW"] = << >> /\ q["NORMAL"] = << >>
    <3>1. q["CRITICAL"] # << >>
      BY <2>3 DEF Used
    <3> QED BY <1>1, <2>3, <3>1 DEF Priority
  <2> QED BY <2>1, <2>2, <2>3
<1>3. Victim(q) = CHOOSE p \in Priority : IsVictim(p)
  BY DEF Victim
<1> QED BY <1>2, <1>3

(***************************************************************************)
(* Changing the bucket of one priority changes the fill level by as much   *)
(* as it changes that bucket.                                              *)
(***************************************************************************)
LEMMA UsedExcept ==
  ASSUME NEW S, NEW q \in Queue(S), NEW p \in Priority, NEW b \in Seq(S)
  PROVE  /\ [q EXCEPT ![p] = b] \in Queue(S)
         /\ Used([q EXCEPT ![p] = b]) = Used(q) - Len(q[p]) + Len(b)
<1>1. [q EXCEPT ![p] = b] \in Queue(S)
  BY DEF Queue
<1>2. /\ Len(q["CRITICAL"]) \in Nat /\ Len(q["NORMAL"]) \in Nat
      /\ Len(q["LOW"]) \in Nat /\ Len(b) \in Nat
  BY DEF Queue, Priority
<1>3. CASE p = "CRITICAL"
  BY <1>1, <1>2, <1>3 DEF Used, Queue, Priority
<1>4. CASE p = "NORMAL"
  BY <1>1, <1>2, <1>4 DEF Used, Queue, Priority
<1>5. CASE p = "LOW"
  BY <1>1, <1>2, <1>5 DEF Used, Queue, Priority
<1> QED BY <1>3, <1>4, <1>5 DEF Priority

(***************************************************************************)
(* A full queue drops exactly one record to make room, another none.       *)
(***************************************************************************)
LEMMA MakeRoomUsed ==
  ASSUME NEW S, NEW q \in Queue(S), NEW cap \in Nat \ {0}
  PROVE  /\ MakeRoom(q, cap) \in Queue(S)
         /\ Used(q) < cap => MakeRoom(q, cap) = q
         /\ Used(q) >= cap => Used(MakeRoom(q, cap)) = Used(q) - 1
<1>1. Used(q) \in Nat
  BY UsedNat
<1>2. CASE Used(q) < cap
  BY <1>1, <1>2 DEF MakeRoom
<1>3. CASE Used(q) >= cap
  <2> DEFINE v == Victim(q)
  <2>1. v \in Priority /\ q[v] # << >>
    BY <1>1, <1>3, VictimExists
  <2>2. q[v] \in Seq(S)
    BY <2>1 DEF Queue
  <2>3. Tail(q[v]) \in Seq(S) /\ Len(Tail(q[v])) = Len(q[v]) - 1 /\ Len(q[v]) \in Nat
    BY <2>1, <2>2
  <2> DEFINE b == Tail(q[v])
             m == MakeRoom(q, cap)
  <2>4. m = [q EXCEPT ![v] = b]
    BY <1>3 DEF MakeRoom
  <2> HIDE DEF v, b, m
  <2>5. [q EXCEPT ![v] = b] \in Queue(S)
        /\ Used([q EXCEPT ![v] = b]) = Used(q) - Len(q[v]) + Len(b)
    <3>1. v \in Priority /\ b \in Seq(S)
      BY <2>1, <2>3 DEF b
    <3> QED BY <3>1, UsedExcept
  <2>6. Used(m) = Used(q) - 1
    BY <1>1, <2>3, <2>4, <2>5 DEF b
  <2> QED BY <1>1, <1>3, <2>4, <2>5, <2>6 DEF m
<1> QED BY <1>1, <1>2, <1>3

(***************************************************************************)
(* enqueue keeps the queue well formed, and what it adds to the fill level *)
(* and to the counter of dropped records is together one record.           *)
(***************************************************************************)
LEMMA EnqueuedUsed ==
  ASSUME NEW S, NEW q \in Queue(S), NEW cap \in Nat \ {0},
         NEW p \in Priority, NEW r \in S
  PROVE  /\ Enqueued(q, cap, p, r) \in Queue(S)
         /\ Drops(q, cap) \in Nat
         /\ Used(Enqueued(q, cap, p, r)) + Drops(q, cap) = Used(q) + 1
         /\ Used(q) >= cap => Used(Enqueued(q, cap, p, r)) <= Used(q)
         /\ Used(q) > cap => Used(Enqueued(q, cap, p, r)) < Used(q)
<1> DEFINE m == MakeRoom(q, cap)
<1>1. m \in Queue(S) /\ Used(q) \in Nat /\ Used(m) \in Nat
  BY MakeRoomUsed, UsedNat
<1>2. m[p] \in Seq(S)
  BY <1>1 DEF Queue
<1>3. Append(m[p], r) \in Seq(S) /\ Len(Append(m[p], r)) = Len(m[p]) + 1 /\ Len(m[p]) \in Nat
  BY <1>2
<1>4. CASE Used(m) < cap
  <2>1. Enqueued(q, cap, p, r) = [m EXCEPT ![p] = Append(m[p], r)]
    BY <1>4 DEF Enqueued, Stores
  <2>2. Used([m EXCEPT ![p] = Append(m[p], r)]) = Used(m) + 1
        /\ [m EXCEPT ![p] = Append(m[p], r)] \in Queue(S)
    <3> DEFINE b == Append(m[p], r)
    <3> HIDE DEF m, b
    <3>1. b \in Seq(S) /\ Len(b) = Len(m[p]) + 1 /\ Len(m[p]) \in Nat
      BY <1>3 DEF b
    <3>2. [m EXCEPT ![p] = b] \in Queue(S)
          /\ Used([m EXCEPT ![p] = b]) = Used(m) - Len(m[p]) + Len(b)
      BY <1>1, <3>1, UsedExcept
    <3> QED BY <1>1, <3>1, <3>2 DEF b
  <2>3. Drops(q, cap) = IF Used(q) < cap THEN 0 ELSE 1
    BY <1>4 DEF Drops, Stores
  <2> HIDE DEF m
  <2>4. /\ Used(q) < cap => Used(m) = Used(q)
        /\ Used(q) >= cap => Used(m) = Used(q) - 1
    BY MakeRoomUsed DEF m
  <2> QED BY <1>1, <1>4, <2>1, <2>2, <2>3, <2>4
<1>5. CASE ~(Used(m) < cap)
  <2>1. Enqueued(q, cap, p, r) = m
    BY <1>5 DEF Enqueued, Stores
  <2>2. /\ Used(q) < cap => Used(m) = Used(q)
        /\ Used(q) >= cap => Used(m) = Used(q) - 1
    BY MakeRoomUsed
  <2>3. Used(q) >= cap
    BY <1>1, <1>5, <2>2
  <2>4. Drops(q, cap) = 2
    BY <1>1, <1>5, <2>3 DEF Drops, Stores
  <2> HIDE DEF m
  <2> QED BY <1>1, <2>1, <2>2, <2>3, <2>4
<1> QED BY <1>4, <1>5

-------------------------------------------------------------------------------
(* Lemmas about one call of drain *)

(***************************************************************************)
(* A drain takes as many records as it was asked for, or all there are;    *)
(* from each bucket it takes some of the oldest, and what it takes of the  *)
(* three adds up.                                                          *)
(***************************************************************************)
LEMMA TakenAddsUp ==
  ASSUME NEW S, NEW q \in Queue(S), NEW limit \in Int
  PROVE  /\ DrainCount(q, limit) \in 0 .. Used(q)
         /\ \A p \in Priority : Taken(q, DrainCount(q, limit), p) \in 0 .. Len(q[p])
         /\ Taken(q, DrainCount(q, limit), "CRITICAL")
              + Taken(q, DrainCount(q, limit), "NORMAL")
              + Taken(q, DrainCount(q, limit), "LOW") = DrainCount(q, limit)
<1> DEFINE n == DrainCount(q, limit)
<1>1. /\ Len(q["CRITICAL"]) \in Nat /\ Len(q["NORMAL"]) \in Nat /\ Len(q["LOW"]) \in Nat
  BY DEF Queue, Priority
<1>2. n \in 0 .. Used(q)
  <2>1. Used(q) \in Nat
    BY UsedNat
  <2> QED BY <2>1 DEF DrainCount
<1> HIDE DEF n
<1>3. Taken(q, n, "CRITICAL") =
        IF n <= 0 THEN 0 ELSE IF n - 0 <= Len(q["CRITICAL"]) THEN n - 0 ELSE Len(q["CRITICAL"])
  BY DEF Taken
<1>4. Taken(q, n, "NORMAL") =
        IF n <= Len(q["CRITICAL"]) THEN 0
        ELSE IF n - Len(q["CRITICAL"]) <= Len(q["NORMAL"]) THEN n - Len(q["CRITICAL"])
        ELSE Len(q["NORMAL"])
  BY DEF Taken
<1>5. Taken(q, n, "LOW") =
        IF n <= Len(q["CRITICAL"]) + Len(q["NORMAL"]) THEN 0
        ELSE IF n - (Len(q["CRITICAL"]) + Len(q["NORMAL"])) <= Len(q["LOW"])
             THEN n - (Len(q["CRITICAL"]) + Len(q["NORMAL"])) ELSE Len(q["LOW"])
  BY DEF Taken
<1>6. /\ Taken(q, n, "CRITICAL") \in 0 .. Len(q["CRITICAL"])
      /\ Taken(q, n, "NORMAL") \in 0 .. Len(q["NORMAL"])
      /\ Taken(q, n, "LOW") \in 0 .. Len(q["LOW"])
      /\ Taken(q, n, "CRITICAL") + Taken(q, n, "NORMAL") + Taken(q, n, "LOW") = n
  <2> DEFINE c == Len(q["CRITICAL"])
             m == Len(q["NORMAL"])
             l == Len(q["LOW"])
  <2>1. c \in Nat /\ m \in Nat /\ l \in Nat /\ n \in 0 .. c + m + l
    BY <1>1, <1>2 DEF Used
  <2>2. /\ Taken(q, n, "CRITICAL") = IF n <= 0 THEN 0 ELSE IF n - 0 <= c THEN n - 0 ELSE c
        /\ Taken(q, n, "NORMAL") = IF n <= c THEN 0 ELSE IF n - c <= m THEN n - c ELSE m
        /\ Taken(q, n, "LOW") = IF n <= c + m THEN 0
                                ELSE IF n - (c + m) <= l THEN n - (c + m) ELSE l
    BY <1>3, <1>4, <1>5
  <2> HIDE DEF c, m, l
  <2>3. /\ Taken(q, n, "CRITICAL") \in 0 .. c
        /\ Taken(q, n, "NORMAL") \in 0 .. m
        /\ Taken(q, n, "LOW") \in 0 .. l
        /\ Taken(q, n, "CRITICAL") + Taken(q, n, "NORMAL") + Taken(q, n, "LOW") = n
    <3>1. CASE n <= c
      BY <2>1, <2>2, <3>1
    <3>2. CASE n > c /\ n <= c + m
      BY <2>1, <2>2, <3>2
    <3>3. CASE n > c + m
      BY <2>1, <2>2, <3>3
    <3> QED BY <2>1, <3>1, <3>2, <3>3
  <2> QED BY <2>3 DEF c, m, l
<1>7. \A p \in Priority : Taken(q, n, p) \in 0 .. Len(q[p])
  BY <1>6 DEF Priority
<1> QED BY <1>2, <1>6, <1>7 DEF n

(***************************************************************************)
(* drain keeps the queue well formed, and the fill level falls by exactly  *)
(* the number of records handed out.                                       *)
(***************************************************************************)
LEMMA DrainUsed ==
  ASSUME NEW S, NEW q \in Queue(S), NEW limit \in Int
  PROVE  /\ AfterDrain(q, limit) \in Queue(S)
         /\ \A p \in Priority :
              /\ Len(AfterDrain(q, limit)[p])
                   = Len(q[p]) - Taken(q, DrainCount(q, limit), p)
              /\ \A i \in 1 .. Len(AfterDrain(q, limit)[p]) :
                   AfterDrain(q, limit)[p][i]
                     = q[p][i + Taken(q, DrainCount(q, limit), p)]
         /\ Len(Drained(q, limit)) = DrainCount(q, limit)
         /\ Used(AfterDrain(q, limit)) + Len(Drained(q, limit)) = Used(q)
<1> DEFINE n == DrainCount(q, limit)
           t(p) == Taken(q, n, p)
           a == AfterDrain(q, limit)
<1>1. /\ n \in 0 .. Used(q)
      /\ \A p \in Priority : t(p) \in 0 .. Len(q[p])
      /\ t("CRITICAL") + t("NORMAL") + t("LOW") = n
  BY TakenAddsUp
<1>2. \A p \in Priority : q[p] \in Seq(S) /\ Len(q[p]) \in Nat
  BY DEF Queue
<1>3. a = [p \in Priority |-> SubSeq(q[p], t(p) + 1, Len(q[p]))]
  BY DEF AfterDrain
<1> HIDE DEF n, t, a
<1>4. ASSUME NEW p \in Priority
      PROVE  /\ a[p] \in Seq(S)
             /\ Len(a[p]) = Len(q[p]) - t(p)
             /\ \A i \in 1 .. Len(a[p]) : a[p][i] = q[p][i + t(p)]
  <2>1. a[p] = SubSeq(q[p], t(p) + 1, Len(q[p]))
    BY <1>3
  <2> DEFINE s == q[p]
             k == t(p) + 1
  <2>2. s \in Seq(S) /\ Len(s) \in Nat /\ k \in 1 .. Len(s) + 1
    BY <1>1, <1>2
  <2>3. a[p] = SubSeq(s, k, Len(s))
    BY <2>1
  <2> HIDE DEF s, k
  <2>4. /\ a[p] \in Seq(S)
        /\ Len(a[p]) = Len(s) - k + 1
        /\ \A i \in 1 .. Len(a[p]) : a[p][i] = s[i + k - 1]
    BY <2>2, <2>3
  <2>5. t(p) \in Nat /\ Len(s) \in Nat /\ Len(s) - k + 1 = Len(s) - t(p)
    BY <1>1, <2>2 DEF k
  <2>6. ASSUME NEW i \in 1 .. Len(a[p]) PROVE a[p][i] = s[i + t(p)]
    <3>1. Len(a[p]) \in Nat /\ i \in Nat
      BY <2>4
    <3>2. i + k - 1 = i + t(p)
      BY <2>5, <3>1 DEF k
    <3> QED BY <2>4, <3>2
  <2> QED BY <2>4, <2>5, <2>6 DEF s
<1>5. a \in Queue(S)
  BY <1>3, <1>4 DEF Queue
<1>6. Scheduled(q) \in Seq(S) /\ Len(Scheduled(q)) = Used(q)
  BY <1>2 DEF Scheduled, Used, Priority
<1>7. Len(Drained(q, limit)) = n
  <2> DEFINE s == Scheduled(q)
  <2>1. Drained(q, limit) = SubSeq(s, 1, n)
    BY DEF Drained, n
  <2> HIDE DEF s
  <2> QED BY <1>1, <1>6, <2>1 DEF s
<1>8. Used(a) = Used(q) - n
  <2> DEFINE c  == Len(q["CRITICAL"])
             m  == Len(q["NORMAL"])
             l  == Len(q["LOW"])
             tc == t("CRITICAL")
             tm == t("NORMAL")
             tl == t("LOW")
  <2>1. /\ c \in Int /\ m \in Int /\ l \in Int
        /\ tc \in Int /\ tm \in Int /\ tl \in Int
    BY <1>1, <1>2 DEF Priority
  <2>2. Used(q) = c + m + l /\ tc + tm + tl = n
    BY <1>1 DEF Used
  <2>3. Used(a) = (c - tc) + (m - tm) + (l - tl)
    BY <1>4 DEF Used, Priority
  <2> HIDE DEF c, m, l, tc, tm, tl
  <2> QED BY <2>1, <2>2, <2>3
<1>9. Used(q) \in Nat
  BY UsedNat
<1>10. Used(a) + Len(Drained(q, limit)) = Used(q)
  BY <1>1, <1>7, <1>8, <1>9
<1> QED BY <1>4, <1>5, <1>7, <1>10 DEF n, t, a

(***************************************************************************)
(* A drain that reaches a bucket has emptied the more urgent ones.         *)
(***************************************************************************)
LEMMA DrainOrder ==
  ASSUME NEW S, NEW qu \in Queue(S), NEW limit \in Int,
         NEW p \in Priority, NEW q \in Priority, Rank[p] < Rank[q],
         Len(AfterDrain(qu, limit)[q]) < Len(qu[q])
  PROVE  AfterDrain(qu, limit)[p] = << >>
<1> DEFINE n == DrainCount(qu, limit)
           a == AfterDrain(qu, limit)
           c == Len(qu["CRITICAL"])
           m == Len(qu["NORMAL"])
           l == Len(qu["LOW"])
<1>1. /\ Rank["CRITICAL"] = 0 /\ Rank["NORMAL"] = 1 /\ Rank["LOW"] = 2
  BY DEF Rank, Priority
<1>2. c \in Nat /\ m \in Nat /\ l \in Nat
  BY DEF Queue, Priority
<1>3. /\ Taken(qu, n, "CRITICAL") = IF n <= 0 THEN 0 ELSE IF n - 0 <= c THEN n - 0 ELSE c
      /\ Taken(qu, n, "NORMAL") = IF n <= c THEN 0 ELSE IF n - c <= m THEN n - c ELSE m
      /\ Taken(qu, n, "LOW") = IF n <= c + m THEN 0
                              ELSE IF n - (c + m) <= l THEN n - (c + m) ELSE l
  BY DEF Taken
<1>4. /\ Used(qu) \in Nat
      /\ n \in 0 .. Used(qu)
      /\ \A r \in Priority : Taken(qu, n, r) \in 0 .. Len(qu[r])
  BY TakenAddsUp, UsedNat
<1>5. /\ a \in Queue(S)
      /\ \A r \in Priority : Len(a[r]) = Len(qu[r]) - Taken(qu, n, r)
  BY DrainUsed
<1>6. \A r \in Priority : qu[r] \in Seq(S) /\ Len(qu[r]) \in Nat
  BY DEF Queue
<1>7. Len(a[q]) < Len(qu[q])
  OBVIOUS
<1> HIDE DEF n, a
<1>8. Taken(qu, n, q) > 0
  <2> DEFINE x == Len(qu[q])
             y == Taken(qu, n, q)
  <2>1. x \in Nat /\ y \in 0 .. x /\ x - y < x
    BY <1>4, <1>5, <1>6, <1>7
  <2> HIDE DEF x, y
  <2>2. y > 0
    BY <2>1
  <2> QED BY <2>2 DEF y
<1>9. Taken(qu, n, p) = Len(qu[p])
  <2>1. \/ q = "NORMAL" /\ p = "CRITICAL"
        \/ q = "LOW" /\ p = "CRITICAL"
        \/ q = "LOW" /\ p = "NORMAL"
    BY <1>1 DEF Priority
  <2>2. n \in Int /\ Len(qu["CRITICAL"]) = c /\ Len(qu["NORMAL"]) = m
    BY <1>4
  <2> HIDE DEF c, m, l
  <2>3. CASE q = "NORMAL" /\ p = "CRITICAL"
    <3>1. n > c
      BY <1>2, <1>3, <1>8, <2>2, <2>3
    <3>2. Taken(qu, n, "CRITICAL") = c
      BY <1>2, <1>3, <2>2, <3>1
    <3> QED BY <2>2, <2>3, <3>2
  <2>4. CASE q = "LOW" /\ p = "CRITICAL"
    <3>1. n > c
      BY <1>2, <1>3, <1>8, <2>2, <2>4
    <3>2. Taken(qu, n, "CRITICAL") = c
      BY <1>2, <1>3, <2>2, <3>1
    <3> QED BY <2>2, <2>4, <3>2
  <2>5. CASE q = "LOW" /\ p = "NORMAL"
    <3>1. n > c + m
      BY <1>2, <1>3, <1>8, <2>2, <2>5
    <3>2. Taken(qu, n, "NORMAL") = m
      BY <1>2, <1>3, <2>2, <3>1
    <3> QED BY <2>2, <2>5, <3>2
  <2> QED BY <2>1, <2>3, <2>4, <2>5
<1>10. Len(a[p]) = 0 /\ a[p] \in Seq(S)
  BY <1>5, <1>6, <1>9 DEF Queue
<1> QED BY <1>10 DEF a

-------------------------------------------------------------------------------
(* The invariant of the component *)

\* A bucket is ordered below n: oldest record first, all of them numbered below n.
Ordered(s, n) ==
  /\ \A i \in 1 .. Len(s) : s[i] < n
  /\ \A i, j \in 1 .. Len(s) : i < j => s[i] < s[j]

\* Every bucket is ordered below the number of the next record: what makes
\* BucketsInOrder inductive.
BucketsOrdered == \A p \in Priority : Ordered(queue[p], next)

Inv == TypeOK /\ Conservation /\ BucketsOrdered

(***************************************************************************)
(* Losing its oldest record leaves a bucket ordered, and so does appending *)
(* the newest one.                                                         *)
(***************************************************************************)
LEMMA TailOrdered ==
  ASSUME NEW s \in Seq(Nat), s # << >>, NEW n \in Nat, Ordered(s, n)
  PROVE  Ordered(Tail(s), n)
<1>1. /\ Len(Tail(s)) = Len(s) - 1 /\ Len(s) \in Nat /\ Len(Tail(s)) \in Nat
      /\ \A i \in 1 .. Len(Tail(s)) : Tail(s)[i] = s[i + 1]
  OBVIOUS
<1> QED BY <1>1 DEF Ordered

\* A bucket ordered below the newest record stays ordered when that one is appended.
LEMMA AppendOrdered ==
  ASSUME NEW s \in Seq(Nat), NEW n \in Nat, Ordered(s, n)
  PROVE  Ordered(Append(s, n), n + 1)
<1> DEFINE a == Append(s, n)
<1>1. /\ Len(a) = Len(s) + 1 /\ Len(s) \in Nat
      /\ \A i \in 1 .. Len(s) : a[i] = s[i] /\ s[i] \in Nat
      /\ a[Len(s) + 1] = n
  OBVIOUS
<1> HIDE DEF a
<1>2. ASSUME NEW i \in 1 .. Len(a) PROVE a[i] < n + 1
  BY <1>1 DEF Ordered
<1>3. ASSUME NEW i \in 1 .. Len(a), NEW j \in 1 .. Len(a), i < j PROVE a[i] < a[j]
  <2>1. CASE j = Len(s) + 1
    BY <1>1, <1>3, <2>1 DEF Ordered
  <2>2. CASE j \in 1 .. Len(s)
    BY <1>1, <1>3, <2>2 DEF Ordered
  <2> QED BY <1>1, <2>1, <2>2
<1> QED BY <1>2, <1>3 DEF Ordered, a

(***************************************************************************)
(* A bucket ordered below n is ordered below every larger number.          *)
(***************************************************************************)
LEMMA OrderedLater ==
  ASSUME NEW s \in Seq(Nat), NEW n \in Nat, Ordered(s, n)
  PROVE  Ordered(s, n + 1)
<1>1. \A i \in 1 .. Len(s) : s[i] \in Nat
  OBVIOUS
<1> QED BY <1>1 DEF Ordered

(***************************************************************************)
(* What making room, and then the whole of enqueue, does to each bucket.   *)
(***************************************************************************)
LEMMA MakeRoomBucket ==
  ASSUME NEW S, NEW q \in Queue(S), NEW cap \in Nat \ {0}, NEW b \in Priority
  PROVE  MakeRoom(q, cap)[b] = IF Used(q) >= cap /\ b = Victim(q)
                               THEN Tail(q[b]) ELSE q[b]
  BY DEF MakeRoom, Queue

\* The bucket of the priority enqueued gains the record if there is room for it.
LEMMA EnqueuedBucket ==
  ASSUME NEW S, NEW q \in Queue(S), NEW cap \in Nat \ {0},
         NEW p \in Priority, NEW r \in S, NEW b \in Priority
  PROVE  Enqueued(q, cap, p, r)[b] = IF Stores(q, cap) /\ b = p
                                     THEN Append(MakeRoom(q, cap)[b], r)
                                     ELSE MakeRoom(q, cap)[b]
<1> DEFINE m == MakeRoom(q, cap)
<1>1. m \in Queue(S)
  BY MakeRoomUsed
<1>2. Enqueued(q, cap, p, r) = IF Stores(q, cap) THEN [m EXCEPT ![p] = Append(@, r)] ELSE m
  BY DEF Enqueued
<1> HIDE DEF m
<1>3. Enqueued(q, cap, p, r)[b] = IF Stores(q, cap) /\ b = p THEN Append(m[b], r) ELSE m[b]
  BY <1>1, <1>2 DEF Queue
<1> QED BY <1>3 DEF m

\* enqueue leaves every bucket ordered: it drops at the head and appends at the tail.
LEMMA EnqueueKeepsOrder ==
  ASSUME Inv, NEW p \in Priority, Enqueue(p)
  PROVE  BucketsOrdered'
<1> USE DEF Inv, TypeOK
<1>1. SUFFICES ASSUME NEW b \in Priority PROVE Ordered(queue'[b], next')
  BY DEF BucketsOrdered
<1> DEFINE m == MakeRoom(queue, capacity)[b]
<1>2. queue[b] \in Seq(Nat) /\ Ordered(queue[b], next) /\ next \in Nat /\ next' = next + 1
  BY DEF Queue, BucketsOrdered, Enqueue
<1>3. m \in Seq(Nat) /\ Ordered(m, next)
  <2>1. m = IF Used(queue) >= capacity /\ b = Victim(queue) THEN Tail(queue[b]) ELSE queue[b]
    BY MakeRoomBucket
  <2>2. CASE Used(queue) >= capacity /\ b = Victim(queue)
    <3>1. Used(queue) \in Nat
      BY UsedNat
    <3>2. queue[b] # << >>
      BY <2>2, <3>1, VictimExists
    <3> QED BY <1>2, <2>1, <2>2, <3>2, TailOrdered
  <2>3. CASE ~(Used(queue) >= capacity /\ b = Victim(queue))
    BY <1>2, <2>1, <2>3
  <2> QED BY <2>2, <2>3
<1>4. queue'[b] = IF Stores(queue, capacity) /\ b = p THEN Append(m, next) ELSE m
  BY <1>2, EnqueuedBucket DEF Enqueue
<1> HIDE DEF m
<1>5. Ordered(Append(m, next), next + 1) /\ Ordered(m, next + 1)
  BY <1>2, <1>3, AppendOrdered, OrderedLater
<1> QED BY <1>2, <1>4, <1>5

\* drain leaves every bucket ordered: what stays is a suffix.
LEMMA DrainKeepsOrder ==
  ASSUME Inv, NEW limit \in Limits, Drain(limit)
  PROVE  BucketsOrdered'
<1> USE DEF Inv, TypeOK
<1>1. SUFFICES ASSUME NEW b \in Priority PROVE Ordered(queue'[b], next')
  BY DEF BucketsOrdered
<1> DEFINE t == Taken(queue, DrainCount(queue, limit), b)
           s == queue[b]
           a == AfterDrain(queue, limit)[b]
<1>2. s \in Seq(Nat) /\ Ordered(s, next) /\ next' = next /\ queue'[b] = a
  BY DEF Queue, BucketsOrdered, Drain
<1>3. limit \in Int
  BY LimitsAssumption
<1>4. t \in 0 .. Len(s)
  BY <1>3, TakenAddsUp
<1>5. Len(a) = Len(s) - t /\ \A i \in 1 .. Len(a) : a[i] = s[i + t]
  BY <1>3, DrainUsed
<1> HIDE DEF t, s, a
<1>6. \A i \in 1 .. Len(a) : i + t \in 1 .. Len(s)
  BY <1>2, <1>4, <1>5
<1>7. ASSUME NEW i \in 1 .. Len(a) PROVE a[i] < next
  BY <1>2, <1>5, <1>6 DEF Ordered
<1>8. ASSUME NEW i \in 1 .. Len(a), NEW j \in 1 .. Len(a), i < j PROVE a[i] < a[j]
  <2>1. i + t \in 1 .. Len(s) /\ j + t \in 1 .. Len(s) /\ i + t < j + t
    BY <1>4, <1>6, <1>8
  <2> QED BY <1>2, <1>5, <2>1 DEF Ordered
<1> QED BY <1>2, <1>7, <1>8 DEF Ordered

-------------------------------------------------------------------------------
(* Lemmas about the records in the queue *)

Holds(q, record) == \E p \in Priority : \E i \in 1 .. Len(q[p]) : q[p][i] = record

NoneTwice(q) ==
  \A b, p \in Priority : \A i \in 1 .. Len(q[b]), j \in 1 .. Len(q[p]) :
    q[b][i] = q[p][j] => b = p /\ i = j

\* Two places with the same record are one place.
LEMMA NoneTwiceMeans ==
  ASSUME NEW q, NoneTwice(q), NEW b \in Priority, NEW p \in Priority,
         NEW i \in 1 .. Len(q[b]), NEW j \in 1 .. Len(q[p]), q[b][i] = q[p][j]
  PROVE  b = p /\ i = j
  BY DEF NoneTwice

(***************************************************************************)
(* Buckets that have lost some of their oldest records hold nothing new    *)
(* and nothing twice.                                                      *)
(***************************************************************************)
LEMMA ShortenedRecords ==
  ASSUME NEW S, NEW q \in Queue(S), NEW a \in Queue(S), NEW d \in [Priority -> Nat],
         NoneTwice(q),
         \A p \in Priority : /\ Len(a[p]) = Len(q[p]) - d[p]
                             /\ \A i \in 1 .. Len(a[p]) : a[p][i] = q[p][i + d[p]]
  PROVE  /\ NoneTwice(a)
         /\ \A record : Holds(a, record) => Holds(q, record)
<1>1. ASSUME NEW p \in Priority, NEW i \in 1 .. Len(a[p])
      PROVE  i + d[p] \in 1 .. Len(q[p]) /\ a[p][i] = q[p][i + d[p]]
  <2>1. q[p] \in Seq(S) /\ a[p] \in Seq(S) /\ d[p] \in Nat
    BY DEF Queue
  <2>2. PICK x \in Nat, y \in Nat, z \in Nat : x = Len(a[p]) /\ y = Len(q[p]) /\ z = d[p]
    BY <2>1
  <2>3. i \in 1 .. x /\ x = y - z
    BY <2>2
  <2>4. i + z \in 1 .. y
    BY <2>3
  <2> QED BY <2>2, <2>4
<1>2. ASSUME NEW record, Holds(a, record) PROVE Holds(q, record)
  <2>1. PICK p \in Priority : \E i \in 1 .. Len(a[p]) : a[p][i] = record
    BY <1>2 DEF Holds
  <2>2. PICK i \in 1 .. Len(a[p]) : a[p][i] = record
    BY <2>1
  <2>3. i + d[p] \in 1 .. Len(q[p]) /\ q[p][i + d[p]] = record
    BY <1>1, <2>2
  <2> QED BY <2>3 DEF Holds
<1>3. ASSUME NEW b \in Priority, NEW p \in Priority,
             NEW i \in 1 .. Len(a[b]), NEW j \in 1 .. Len(a[p]), a[b][i] = a[p][j]
      PROVE  b = p /\ i = j
  <2>1. q[b][i + d[b]] = q[p][j + d[p]]
        /\ i + d[b] \in 1 .. Len(q[b]) /\ j + d[p] \in 1 .. Len(q[p])
    BY <1>1, <1>3
  <2>2. b = p /\ i + d[b] = j + d[p]
    BY <2>1 DEF NoneTwice
  <2>3. d[b] \in Nat /\ i \in Int /\ j \in Int
    OBVIOUS
  <2> QED BY <2>2, <2>3
<1> QED BY <1>2, <1>3 DEF NoneTwice

(***************************************************************************)
(* enqueue puts nothing into the queue but its record, and nothing twice.  *)
(***************************************************************************)
LEMMA EnqueuedRecords ==
  ASSUME NEW S, NEW q \in Queue(S), NEW cap \in Nat \ {0}, NEW p \in Priority, NEW r \in S,
         NoneTwice(q), ~Holds(q, r)
  PROVE  /\ NoneTwice(Enqueued(q, cap, p, r))
         /\ \A record : Holds(Enqueued(q, cap, p, r), record) => Holds(q, record) \/ record = r
<1> DEFINE m == MakeRoom(q, cap)
           e == Enqueued(q, cap, p, r)
           d == [b \in Priority |-> IF Used(q) >= cap /\ b = Victim(q) THEN 1 ELSE 0]
<1>1. m \in Queue(S) /\ Used(q) \in Nat
  BY MakeRoomUsed, UsedNat
<1>2. ASSUME NEW b \in Priority
      PROVE  /\ Len(m[b]) = Len(q[b]) - d[b]
             /\ \A i \in 1 .. Len(m[b]) : m[b][i] = q[b][i + d[b]]
  <2>1. q[b] \in Seq(S) /\ m[b] = IF Used(q) >= cap /\ b = Victim(q) THEN Tail(q[b]) ELSE q[b]
    BY MakeRoomBucket DEF Queue
  <2>2. CASE Used(q) >= cap /\ b = Victim(q)
    <3>1. q[b] # << >>
      BY <1>1, <2>2, VictimExists
    <3>2. d[b] = 1 /\ m[b] = Tail(q[b])
      BY <2>1, <2>2
    <3> DEFINE s == q[b]
    <3>3. s \in Seq(S) /\ s # << >> /\ m[b] = Tail(s)
      BY <2>1, <3>1, <3>2
    <3> HIDE DEF s, m, d
    <3>4. Len(m[b]) = Len(s) - 1 /\ \A i \in 1 .. Len(m[b]) : m[b][i] = s[i + 1]
      BY <3>3
    <3> QED BY <3>2, <3>4 DEF s
  <2>3. CASE ~(Used(q) >= cap /\ b = Victim(q))
    <3>1. d[b] = 0 /\ m[b] = q[b] /\ Len(q[b]) \in Nat
      BY <2>1, <2>3
    <3>2. Len(q[b]) - 0 = Len(q[b]) /\ \A i \in 1 .. Len(q[b]) : i + 0 = i
      BY <3>1
    <3> QED BY <3>1, <3>2
  <2> QED BY <2>2, <2>3
<1>3. d \in [Priority -> Nat]
  OBVIOUS
<1>4. \A b \in Priority : e[b] = IF Stores(q, cap) /\ b = p THEN Append(m[b], r) ELSE m[b]
  BY EnqueuedBucket
<1> HIDE DEF m, e, d
<1>5. NoneTwice(m) /\ \A record : Holds(m, record) => Holds(q, record)
  BY <1>1, <1>2, <1>3, ShortenedRecords
<1>6. ~Holds(m, r)
  BY <1>5
<1>7. ASSUME NEW b \in Priority, NEW i \in 1 .. Len(e[b])
      PROVE  \/ i \in 1 .. Len(m[b]) /\ e[b][i] = m[b][i]
             \/ b = p /\ i = Len(m[p]) + 1 /\ e[b][i] = r
  <2>1. m[b] \in Seq(S)
    BY <1>1 DEF Queue
  <2>2. CASE e[b] = m[b]
    BY <2>2
  <2>3. CASE b = p /\ e[b] = Append(m[b], r)
    BY <2>1, <2>3
  <2> QED BY <1>4, <2>2, <2>3
<1>8. \A record : Holds(e, record) => Holds(q, record) \/ record = r
  <2> SUFFICES ASSUME NEW record, Holds(e, record) PROVE Holds(q, record) \/ record = r
    OBVIOUS
  <2>1. PICK b \in Priority : \E i \in 1 .. Len(e[b]) : e[b][i] = record
    BY DEF Holds
  <2>2. Holds(m, record) \/ record = r
    BY <1>7, <2>1 DEF Holds
  <2> QED BY <1>5, <2>2
<1>9. ASSUME NEW b \in Priority, NEW c \in Priority,
             NEW i \in 1 .. Len(e[b]), NEW j \in 1 .. Len(e[c]), e[b][i] = e[c][j]
      PROVE  b = c /\ i = j
  <2>1. \/ i \in 1 .. Len(m[b]) /\ e[b][i] = m[b][i]
        \/ b = p /\ i = Len(m[p]) + 1 /\ e[b][i] = r
    BY <1>7
  <2>2. \/ j \in 1 .. Len(m[c]) /\ e[c][j] = m[c][j]
        \/ c = p /\ j = Len(m[p]) + 1 /\ e[c][j] = r
    BY <1>7
  <2>3. /\ i \in 1 .. Len(m[b]) => m[b][i] # r
        /\ j \in 1 .. Len(m[c]) => m[c][j] # r
    BY <1>6 DEF Holds
  <2>4. CASE i \in 1 .. Len(m[b]) /\ e[b][i] = m[b][i]
    BY <1>5, <1>9, <2>2, <2>3, <2>4 DEF NoneTwice
  <2>5. CASE b = p /\ i = Len(m[p]) + 1 /\ e[b][i] = r
    BY <1>9, <2>2, <2>3, <2>5
  <2> QED BY <2>1, <2>4, <2>5
<1> QED BY <1>8, <1>9 DEF NoneTwice, e

\* How many records lie before a bucket in the order of drain.
Ahead(q, p) ==
  CASE p = "CRITICAL" -> 0
    [] p = "NORMAL"   -> Len(q["CRITICAL"])
    [] p = "LOW"      -> Len(q["CRITICAL"]) + Len(q["NORMAL"])

(***************************************************************************)
(* Each record drain hands out is one of those it takes from a bucket.     *)
(***************************************************************************)
LEMMA DrainedPlace ==
  ASSUME NEW S, NEW q \in Queue(S), NEW limit \in Int,
         NEW j \in 1 .. Len(Drained(q, limit))
  PROVE  \E p \in Priority : \E i \in 1 .. Taken(q, DrainCount(q, limit), p) :
           Drained(q, limit)[j] = q[p][i] /\ j = Ahead(q, p) + i
<1> DEFINE n == DrainCount(q, limit)
           x == q["CRITICAL"]
           y == q["NORMAL"]
           z == q["LOW"]
<1>1. x \in Seq(S) /\ y \in Seq(S) /\ z \in Seq(S)
  BY DEF Queue, Priority
<1>2. n \in 0 .. Used(q) /\ Len(Drained(q, limit)) = n /\ Used(q) = Len(x) + Len(y) + Len(z)
  BY TakenAddsUp, DrainUsed DEF Used
<1>3. Drained(q, limit) = SubSeq((x \o y) \o z, 1, n)
  BY DEF Drained, Scheduled
<1>4. /\ Taken(q, n, "CRITICAL") =
           IF n <= 0 THEN 0 ELSE IF n - 0 <= Len(x) THEN n - 0 ELSE Len(x)
      /\ Taken(q, n, "NORMAL") =
           IF n <= Len(x) THEN 0 ELSE IF n - Len(x) <= Len(y) THEN n - Len(x) ELSE Len(y)
      /\ Taken(q, n, "LOW") =
           IF n <= Len(x) + Len(y) THEN 0
           ELSE IF n - (Len(x) + Len(y)) <= Len(z) THEN n - (Len(x) + Len(y)) ELSE Len(z)
  BY DEF Taken
<1>5. /\ Ahead(q, "CRITICAL") = 0 /\ Ahead(q, "NORMAL") = Len(x)
      /\ Ahead(q, "LOW") = Len(x) + Len(y)
  BY DEF Ahead
<1>6. j \in 1 .. n
  BY <1>2
<1>7. {"CRITICAL", "NORMAL", "LOW"} = Priority
  BY DEF Priority
<1>8. PICK c \in Nat, m \in Nat, l \in Nat : c = Len(x) /\ m = Len(y) /\ l = Len(z)
  BY <1>1
<1>9. n \in 0 .. c + m + l
  BY <1>2, <1>8
<1>10. x = q["CRITICAL"] /\ y = q["NORMAL"] /\ z = q["LOW"]
  OBVIOUS
<1> HIDE DEF n, x, y, z
<1>11. (x \o y) \o z \in Seq(S) /\ Len((x \o y) \o z) = c + m + l
  BY <1>1, <1>8
<1>12. Drained(q, limit)[j] = ((x \o y) \o z)[j]
  BY <1>3, <1>6, <1>9, <1>11
<1>13. CASE j <= c
  <2>1. ((x \o y) \o z)[j] = x[j]
    BY <1>1, <1>6, <1>8, <1>13
  <2>2. j \in 1 .. Taken(q, n, "CRITICAL") /\ j = Ahead(q, "CRITICAL") + j
    BY <1>4, <1>5, <1>6, <1>8, <1>9, <1>13
  <2> QED BY <1>7, <1>10, <1>12, <2>1, <2>2 DEF n
<1>14. CASE j > c /\ j <= c + m
  <2>1. ((x \o y) \o z)[j] = y[j - c]
    BY <1>1, <1>6, <1>8, <1>14
  <2>2. j - c \in 1 .. Taken(q, n, "NORMAL") /\ j = Ahead(q, "NORMAL") + (j - c)
    BY <1>4, <1>5, <1>6, <1>8, <1>9, <1>14
  <2> QED BY <1>7, <1>10, <1>12, <2>1, <2>2 DEF n
<1>15. CASE j > c + m
  <2>1. ((x \o y) \o z)[j] = z[j - (c + m)]
    BY <1>1, <1>6, <1>8, <1>9, <1>15
  <2>2. j - (c + m) \in 1 .. Taken(q, n, "LOW") /\ j = Ahead(q, "LOW") + (j - (c + m))
    BY <1>4, <1>5, <1>6, <1>8, <1>9, <1>15
  <2> QED BY <1>7, <1>10, <1>12, <2>1, <2>2 DEF n
<1> QED BY <1>6, <1>8, <1>13, <1>14, <1>15

(***************************************************************************)
(* A record is handed out or stays, never both, and is handed out once.    *)
(***************************************************************************)
LEMMA DrainedRecords ==
  ASSUME NEW S, NEW q \in Queue(S), NEW limit \in Int, NoneTwice(q)
  PROVE  /\ NoneTwice(AfterDrain(q, limit))
         /\ \A record : Holds(AfterDrain(q, limit), record) => Holds(q, record)
         /\ \A j \in 1 .. Len(Drained(q, limit)) :
              /\ Holds(q, Drained(q, limit)[j])
              /\ ~Holds(AfterDrain(q, limit), Drained(q, limit)[j])
         /\ \A j, k \in 1 .. Len(Drained(q, limit)) :
              Drained(q, limit)[j] = Drained(q, limit)[k] => j = k
<1> DEFINE n == DrainCount(q, limit)
           d == [p \in Priority |-> Taken(q, n, p)]
           a == AfterDrain(q, limit)
           out == Drained(q, limit)
<1>1. \A p \in Priority : Taken(q, n, p) \in 0 .. Len(q[p]) /\ Len(q[p]) \in Nat
  <2>1. \A p \in Priority : q[p] \in Seq(S)
    BY DEF Queue
  <2>2. \A p \in Priority : Taken(q, n, p) \in 0 .. Len(q[p])
    BY TakenAddsUp
  <2>3. ASSUME NEW p \in Priority PROVE Len(q[p]) \in Nat
    BY <2>1
  <2> QED BY <2>2, <2>3
<1>2. /\ a \in Queue(S)
      /\ \A p \in Priority : /\ Len(a[p]) = Len(q[p]) - Taken(q, n, p)
                             /\ \A i \in 1 .. Len(a[p]) : a[p][i] = q[p][i + Taken(q, n, p)]
  BY DrainUsed
<1>3. \A j \in 1 .. Len(out) :
        \E p \in Priority : \E i \in 1 .. Taken(q, n, p) :
          out[j] = q[p][i] /\ j = Ahead(q, p) + i
  BY DrainedPlace
<1>4. d \in [Priority -> Nat] /\ \A p \in Priority : d[p] = Taken(q, n, p)
  BY <1>1
<1> HIDE DEF n, d, a, out
<1>5. NoneTwice(a) /\ \A record : Holds(a, record) => Holds(q, record)
  BY <1>2, <1>4, ShortenedRecords
<1>6. ASSUME NEW j \in 1 .. Len(out)
      PROVE  Holds(q, out[j]) /\ ~Holds(a, out[j])
  <2>0. PICK p \in Priority : \E i \in 1 .. Taken(q, n, p) : out[j] = q[p][i]
    BY <1>3
  <2>1. PICK i \in 1 .. Taken(q, n, p) : out[j] = q[p][i]
    BY <2>0
  <2>2. i \in 1 .. Len(q[p]) /\ i <= Taken(q, n, p)
    BY <1>1, <2>1
  <2>3. ASSUME NEW b \in Priority, NEW k \in 1 .. Len(a[b]), a[b][k] = q[p][i]
        PROVE  FALSE
    <3>1. a[b][k] = q[b][k + Taken(q, n, b)]
      BY <1>2
    <3>2. k + Taken(q, n, b) \in 1 .. Len(q[b])
      BY <1>1, <1>2
    <3>3. b = p /\ k + Taken(q, n, b) = i
      <4>1. q[b][k + Taken(q, n, b)] = q[p][i] /\ i \in 1 .. Len(q[p])
        BY <2>2, <2>3, <3>1
      <4>2. PICK h : h = k + Taken(q, n, b)
        OBVIOUS
      <4> QED BY <3>2, <4>1, <4>2, NoneTwiceMeans
    <3>4. Taken(q, n, p) \in Nat /\ k \in Nat /\ k >= 1
      BY <1>1
    <3> QED BY <2>2, <3>3, <3>4
  <2> QED BY <2>1, <2>2, <2>3 DEF Holds
<1>7. ASSUME NEW j \in 1 .. Len(out), NEW k \in 1 .. Len(out), out[j] = out[k]
      PROVE  j = k
  <2>a. PICK p \in Priority : \E i \in 1 .. Taken(q, n, p) :
          out[j] = q[p][i] /\ j = Ahead(q, p) + i
    BY <1>3
  <2>b. PICK b \in Priority : \E h \in 1 .. Taken(q, n, b) :
          out[k] = q[b][h] /\ k = Ahead(q, b) + h
    BY <1>3
  <2>1. PICK i \in 1 .. Taken(q, n, p) : out[j] = q[p][i] /\ j = Ahead(q, p) + i
    BY <2>a
  <2>2. PICK h \in 1 .. Taken(q, n, b) : out[k] = q[b][h] /\ k = Ahead(q, b) + h
    BY <2>b
  <2>3. i \in 1 .. Len(q[p]) /\ h \in 1 .. Len(q[b])
    BY <1>1
  <2>4. p = b /\ i = h
    <3>1. q[p][i] = q[b][h]
      BY <1>7, <2>1, <2>2
    <3> QED BY <2>3, <3>1, NoneTwiceMeans
  <2> QED BY <2>1, <2>2, <2>4
<1> QED BY <1>5, <1>6, <1>7 DEF a, out

-------------------------------------------------------------------------------
(* Theorems *)

(***************************************************************************)
(* The empty queue, of Init and of clear.                                  *)
(***************************************************************************)
LEMMA EmptyQueueFacts ==
  /\ EmptyQueue \in Queue(Nat)
  /\ Used(EmptyQueue) = 0
  /\ \A p \in Priority : \A n : Ordered(EmptyQueue[p], n)
<1>1. \A p \in Priority : EmptyQueue[p] = << >>
  BY DEF EmptyQueue
<1>2. \A n : Ordered(<< >>, n)
  BY DEF Ordered
<1> QED BY <1>1, <1>2 DEF EmptyQueue, Queue, Used, Priority

\* __init__ establishes the invariant.
LEMMA InitInv == Init => Inv
<1> SUFFICES ASSUME Init PROVE Inv
  OBVIOUS
<1>1. TypeOK /\ Conservation
  BY EmptyQueueFacts, ConfiguredCapacityAssumption DEF Init, TypeOK, Conservation
<1>2. BucketsOrdered
  BY EmptyQueueFacts DEF Init, BucketsOrdered
<1> QED BY <1>1, <1>2 DEF Inv

\* A call of enqueue, whatever it drops, keeps the invariant.
LEMMA EnqueueInv ==
  ASSUME Inv, NEW p \in Priority, Enqueue(p)
  PROVE  Inv'
<1> DEFINE e == Enqueued(queue, capacity, p, next)
           d == Drops(queue, capacity)
<1>1. /\ queue \in Queue(Nat) /\ capacity \in Nat \ {0} /\ dropped \in Nat
      /\ next \in Nat /\ offered \in Nat /\ drained \in Nat
      /\ offered = Used(queue) + drained + dropped
  BY DEF Inv, TypeOK, Conservation
<1>2. /\ queue' = e /\ dropped' = dropped + d /\ next' = next + 1
      /\ offered' = offered + 1 /\ capacity' = capacity /\ drained' = drained
  BY DEF Enqueue
<1>3. e \in Queue(Nat) /\ d \in Nat /\ Used(e) + d = Used(queue) + 1
  BY <1>1, EnqueuedUsed
<1>4. Used(queue) \in Nat /\ Used(e) \in Nat
  BY <1>1, <1>3, UsedNat
<1> HIDE DEF e, d
<1>5. TypeOK'
  BY <1>1, <1>2, <1>3 DEF TypeOK
<1>6. Used(queue') = Used(e)
  BY <1>2
<1>7. offered' = Used(queue') + drained' + dropped'
  BY <1>1, <1>2, <1>3, <1>4, <1>6
<1>8. BucketsOrdered'
  BY EnqueueKeepsOrder
<1> QED BY <1>5, <1>7, <1>8 DEF Inv, Conservation, Used

\* A call of drain, whatever its limit, keeps the invariant.
LEMMA DrainInv ==
  ASSUME Inv, NEW limit \in Limits, Drain(limit)
  PROVE  Inv'
<1> DEFINE a == AfterDrain(queue, limit)
           n == Len(Drained(queue, limit))
<1>1. /\ queue \in Queue(Nat) /\ capacity \in Nat \ {0} /\ dropped \in Nat
      /\ next \in Nat /\ offered \in Nat /\ drained \in Nat
      /\ offered = Used(queue) + drained + dropped
  BY DEF Inv, TypeOK, Conservation
<1>2. /\ queue' = a /\ drained' = drained + n
      /\ UNCHANGED <<capacity, dropped, next, offered>>
  BY DEF Drain
<1>3. limit \in Int
  BY LimitsAssumption
<1>4. a \in Queue(Nat) /\ n \in Nat /\ Used(a) + n = Used(queue)
  <2>1. DrainCount(queue, limit) \in Nat
    <3>1. Used(queue) \in Nat
      BY <1>1, UsedNat
    <3> QED BY <1>1, <1>3, <3>1, TakenAddsUp
  <2> QED BY <1>1, <1>3, <2>1, DrainUsed
<1>5. Used(queue) \in Nat /\ Used(a) \in Nat
  BY <1>1, <1>4, UsedNat
<1> HIDE DEF a, n
<1>6. TypeOK'
  BY <1>1, <1>2, <1>4 DEF TypeOK
<1>7. Used(queue') = Used(a)
  BY <1>2
<1>8. offered' = Used(queue') + drained' + dropped'
  BY <1>1, <1>2, <1>4, <1>5, <1>7
<1>9. BucketsOrdered'
  BY DrainKeepsOrder
<1> QED BY <1>6, <1>8, <1>9 DEF Inv, Conservation, Used

\* Every call, and every change of capacity, keeps the invariant.
LEMMA NextInv == Inv /\ [Next]_vars => Inv'
<1> SUFFICES ASSUME Inv, [Next]_vars PROVE Inv'
  OBVIOUS
<1>1. ASSUME NEW p \in Priority, Enqueue(p) PROVE Inv'
  BY <1>1, EnqueueInv
<1>2. ASSUME NEW limit \in Limits, Drain(limit) PROVE Inv'
  BY <1>2, DrainInv
<1>3. CASE Clear
  <2>1. TypeOK'
    BY <1>3, EmptyQueueFacts DEF Clear, Inv, TypeOK
  <2>2. Used(queue') = 0
    BY <1>3, EmptyQueueFacts DEF Clear
  <2>3. offered' = Used(queue') + drained' + dropped'
    BY <1>3, <2>2 DEF Clear
  <2>4. BucketsOrdered'
    BY <1>3, EmptyQueueFacts DEF Clear, BucketsOrdered
  <2> QED BY <2>1, <2>3, <2>4 DEF Inv, Conservation, Used
<1>4. ASSUME NEW storageFull \in BOOLEAN, ApplyFaultState(storageFull) PROVE Inv'
  <2>1. capacity' \in Nat \ {0}
    BY <1>4, ConfiguredCapacityAssumption, FaultCapacityAssumption
    DEF ApplyFaultState, CapacityUnder, Inv, TypeOK
  <2> QED BY <1>4, <2>1
          DEF ApplyFaultState, Inv, TypeOK, Conservation, BucketsOrdered, Used
<1>5. CASE UNCHANGED vars
  BY <1>5 DEF vars, Inv, TypeOK, Conservation, BucketsOrdered, Used
<1> QED BY <1>1, <1>2, <1>3, <1>4, <1>5 DEF Next

(***************************************************************************)
(* The inductive invariant: types, the accounting of every record, and the *)
(* order of the buckets of OnboardStorage.                                 *)
(***************************************************************************)
THEOREM Invariance == Spec => []Inv
<1> QED BY InitInv, NextInv, PTL DEF Spec

(***************************************************************************)
(* The queue is well formed and its counters are natural numbers, under    *)
(* every sequence of enqueue, drain, clear and STORAGE_FULL.               *)
(***************************************************************************)
THEOREM TypeCorrectness == Spec => []TypeOK
<1>1. Inv => TypeOK
  BY DEF Inv
<1> QED BY <1>1, Invariance, PTL

(***************************************************************************)
(* Every record offered to enqueue is buffered, was drained, or is counted *)
(* in dropped.                                                             *)
(***************************************************************************)
THEOREM EveryRecordCounted == Spec => []Conservation
<1>1. Inv => Conservation
  BY DEF Inv
<1> QED BY <1>1, Invariance, PTL

(***************************************************************************)
(* Each bucket of the queue stays first in first out.                      *)
(***************************************************************************)
THEOREM FirstInFirstOut == Spec => []BucketsInOrder
<1>1. Inv => BucketsInOrder
  BY DEF Inv, BucketsOrdered, Ordered, BucketsInOrder
<1> QED BY <1>1, Invariance, PTL

(***************************************************************************)
(* enqueue never takes the queue past its capacity, and brings the fill    *)
(* level down while it is above a capacity that a fault has shrunk.        *)
(***************************************************************************)
THEOREM CapacityRespected == Spec => NeverGrowsPastCapacity
<1> DEFINE Bounded ==
      /\ Used(queue') > Used(queue) => Used(queue') <= capacity
      /\ (offered' > offered /\ Used(queue) > capacity) => Used(queue') < Used(queue)
<1>1. ASSUME Inv, Next PROVE Bounded
  <2>1. queue \in Queue(Nat) /\ capacity \in Nat \ {0} /\ next \in Nat /\ offered \in Nat
    BY <1>1 DEF Inv, TypeOK
  <2>2. Used(queue) \in Nat
    BY <2>1, UsedNat
  <2>3. ASSUME NEW p \in Priority, Enqueue(p) PROVE Bounded
    <3> DEFINE e == Enqueued(queue, capacity, p, next)
    <3>1. queue' = e
      BY <2>3 DEF Enqueue
    <3>2. /\ Drops(queue, capacity) \in Nat
          /\ Used(e) + Drops(queue, capacity) = Used(queue) + 1
          /\ Used(queue) >= capacity => Used(e) <= Used(queue)
          /\ Used(queue) > capacity => Used(e) < Used(queue)
          /\ e \in Queue(Nat)
      BY <2>1, EnqueuedUsed
    <3>3. Used(e) \in Nat
      BY <3>2, UsedNat
    <3> HIDE DEF e
    <3> QED BY <2>1, <2>2, <3>1, <3>2, <3>3
  <2>4. ASSUME NEW limit \in Limits, Drain(limit) PROVE Bounded
    <3> DEFINE a == AfterDrain(queue, limit)
               d == Len(Drained(queue, limit))
    <3>1. limit \in Int
      BY LimitsAssumption
    <3>2. d \in Nat /\ a \in Queue(Nat) /\ Used(a) + d = Used(queue)
      BY <2>1, <2>2, <3>1, TakenAddsUp, DrainUsed
    <3>3. Used(a) \in Nat
      BY <3>2, UsedNat
    <3>4. queue' = a /\ offered' = offered
      BY <2>4 DEF Drain
    <3> HIDE DEF a, d
    <3> QED BY <2>1, <2>2, <3>2, <3>3, <3>4
  <2>5. CASE Clear
    BY <2>1, <2>2, <2>5, EmptyQueueFacts DEF Clear
  <2>6. ASSUME NEW storageFull \in BOOLEAN, ApplyFaultState(storageFull) PROVE Bounded
    BY <2>1, <2>2, <2>6 DEF ApplyFaultState
  <2> QED BY <1>1, <2>3, <2>4, <2>5, <2>6 DEF Next
<1>2. Inv /\ [Next]_vars => [Bounded]_vars
  BY <1>1
<1> QED BY <1>2, Invariance, PTL DEF Spec, NeverGrowsPastCapacity

(***************************************************************************)
(* A drain leaves nothing more urgent behind than what it hands out.       *)
(***************************************************************************)
THEOREM MostUrgentFirst == Spec => DrainsMostUrgentFirst
<1> DEFINE UrgentFirst ==
      \A p, q \in Priority :
        (drained' > drained /\ Rank[p] < Rank[q] /\ Len(queue'[q]) < Len(queue[q]))
          => queue'[p] = << >>
<1>1. ASSUME Inv, Next PROVE UrgentFirst
  <2>1. queue \in Queue(Nat) /\ drained \in Nat
    BY <1>1 DEF Inv, TypeOK
  <2>2. ASSUME NEW limit \in Limits, Drain(limit) PROVE UrgentFirst
    <3>1. limit \in Int /\ queue' = AfterDrain(queue, limit)
      BY <2>2, LimitsAssumption DEF Drain
    <3> QED BY <2>1, <3>1, DrainOrder
  <2>3. ~(\E limit \in Limits : Drain(limit)) => ~(drained' > drained)
    BY <1>1, <2>1 DEF Next, Enqueue, Clear, ApplyFaultState
  <2> QED BY <2>2, <2>3
<1>2. Inv /\ [Next]_vars => [UrgentFirst]_vars
  BY <1>1
<1> QED BY <1>2, Invariance, PTL DEF Spec, DrainsMostUrgentFirst

(***************************************************************************)
(* The record an enqueue evicts is the oldest of its bucket, and no less   *)
(* urgent bucket holds a record.                                           *)
(***************************************************************************)
THEOREM LeastUrgentEvicted == Spec => EvictsLeastUrgentOldest
<1> DEFINE Evicted(p, i) ==
      /\ i = 1
      /\ \A q \in Priority : Rank[q] > Rank[p] => queue[q] = << >>
<1> DEFINE LeastUrgent ==
      dropped' > dropped =>
        \A p \in Priority : \A i \in 1 .. Len(queue[p]) :
          LET record == queue[p][i] IN
            (\A j \in 1 .. Len(queue'[p]) : queue'[p][j] # record)
              => /\ i = 1
                 /\ \A q \in Priority : Rank[q] > Rank[p] => queue[q] = << >>
<1>1. ASSUME Inv, Next PROVE LeastUrgent
  <2>1. /\ queue \in Queue(Nat) /\ capacity \in Nat \ {0}
        /\ next \in Nat /\ dropped \in Nat
    BY <1>1 DEF Inv, TypeOK
  <2>2. \A r \in Priority : Rank[r] \in Nat
    BY DEF Rank, Priority
  <2>3. ASSUME NEW new \in Priority, Enqueue(new),
               NEW p \in Priority, NEW i \in 1 .. Len(queue[p]),
               \A j \in 1 .. Len(queue'[p]) : queue'[p][j] # queue[p][i]
        PROVE  Evicted(p, i)
    <3> DEFINE s == queue[p]
               m == MakeRoom(queue, capacity)[p]
               e == queue'[p]
               evicts == Used(queue) >= capacity /\ p = Victim(queue)
    <3>1. s \in Seq(Nat) /\ i \in 1 .. Len(s)
      BY <2>1 DEF Queue
    <3>2. m = IF evicts THEN Tail(s) ELSE s
      BY <2>1, MakeRoomBucket
    <3>3. e = IF Stores(queue, capacity) /\ p = new THEN Append(m, next) ELSE m
      BY <2>1, <2>3, EnqueuedBucket DEF Enqueue
    <3>4. \A j \in 1 .. Len(e) : e[j] # s[i]
      BY <2>3
    <3> HIDE DEF s, m, e, evicts
    <3>5. m \in Seq(Nat)
      BY <3>1, <3>2
    <3>6. \A j \in 1 .. Len(m) : j \in 1 .. Len(e) /\ e[j] = m[j]
      BY <2>1, <3>3, <3>5
    <3>7. evicts /\ i = 1
      <4>1. CASE ~evicts
        BY <3>1, <3>2, <3>4, <3>6, <4>1
      <4>2. CASE evicts /\ i # 1
        <5>1. i - 1 \in 1 .. Len(m) /\ m[i - 1] = s[i]
          BY <3>1, <3>2, <4>2
        <5> QED BY <3>4, <3>6, <5>1
      <4> QED BY <4>1, <4>2
    <3>8. Used(queue) \in Nat /\ Used(queue) > 0 /\ p = Victim(queue)
      BY <2>1, <3>7, UsedNat DEF evicts
    <3>9. \A q \in Priority : queue[q] # << >> => Rank[q] <= Rank[p]
      BY <2>1, <3>8, VictimExists
    <3> QED BY <2>2, <3>7, <3>9
  <2>4. ~(\E new \in Priority : Enqueue(new)) => ~(dropped' > dropped)
    BY <1>1, <2>1 DEF Next, Drain, Clear, ApplyFaultState
  <2> QED BY <2>3, <2>4
<1>2. Inv /\ [Next]_vars => [LeastUrgent]_vars
  BY <1>1
<1> QED BY <1>2, Invariance, PTL DEF Spec, EvictsLeastUrgentOldest
===============================================================================
