------------------------------ MODULE RunnerProofs ------------------------------
(***************************************************************************)
(* Theorems about the two components of the runner.                        *)
(*                                                                         *)
(* Fault injection, for any faults, any number of worker threads and any   *)
(* durations: inject, clear and expire share the dictionary of active      *)
(* faults without a lock; the invariant says what the simulation thread    *)
(* may still rely on at each place of its tick.                            *)
(*                                                                         *)
(* The life of the loop, for any number of clients, any bound on threads   *)
(* and ticks of any length: what holds of start, stop and reset whatever   *)
(* overlaps, which share their attributes without a lock, and how much     *)
(* more holds of requests that come one after the other.                   *)
(***************************************************************************)
EXTENDS FaultControl, Lifecycle, FiniteSetTheorems, TLAPS

-------------------------------------------------------------------------------
(* Fault injection: the invariant *)

InExpired(n) == \E i \in 1 .. Len(expired) : expired[i] = n

\* The dictionary is finite, and expire's locals exist only in expire.
Locals ==
  /\ IsFiniteSet(active)
  /\ pc \in {"tick", "running"} => visited = {} /\ expired = << >>

\* No clock reading is ahead of the clock, and a fault has acted in no more ticks
\* than have begun since the reading in its entry, or in one that may replace it.
ClocksAgree ==
  /\ \A t \in ApiThreads : worker[t].entry.at <= simTime
  /\ \A n \in active : entry[n].at + lived[n] <= simTime + 1
  /\ \A t \in ApiThreads :
       (At(t, "checked") /\ worker[t].fault \in active) =>
         worker[t].entry.at + lived[worker[t].fault] <= simTime + 1

\* The fault has acted in no more than m ticks beyond its duration.
Within(n, m) == entry[n].duration # Unlimited => lived[n] <= entry[n].duration + m

\* What expire has looked at has time left, or is in the list of those it will pop.
Listed ==
  /\ pc = "scan" => \A n \in (active \ replaced) \cap visited : Within(n, 0) \/ InExpired(n)
  /\ pc = "pop" => \A n \in active \ replaced : Within(n, 0) \/ InExpired(n)

Expiring ==
  /\ \A n \in active \ replaced : Within(n, 1 + missed)
  /\ pc = "tick" => \A n \in active \ replaced : Within(n, missed)
  /\ Listed

\* The list names each fault once, and only active ones that have elapsed; it
\* names all of those the iteration has seen.
ListIsExact ==
  /\ \A i \in 1 .. Len(expired) : expired[i] \in active /\ Elapsed(expired[i])
  /\ \A i, j \in 1 .. Len(expired) : expired[i] = expired[j] => i = j
  /\ pc = "scan" => /\ size = Cardinality(active)
                    /\ \A i \in 1 .. Len(expired) : expired[i] \in visited
                    /\ \A n \in active \cap visited : Elapsed(n) => InExpired(n)
  /\ pc = "pop" => \A n \in active : Elapsed(n) => InExpired(n)

Uninterfered == (~interfered /\ pc \in {"scan", "pop"}) => ListIsExact

Inv ==
  /\ TypeOK /\ Locals
  /\ sameClock => ClocksAgree /\ Expiring
  /\ Uninterfered

-------------------------------------------------------------------------------
(* Types *)

\* What the requests put into a worker's record.
LEMMA WorkerTypes ==
  /\ NoEntry \in Entry /\ NoEntry.at = 0 /\ NoEntry.duration = Unlimited
  /\ Idle \in [pc : {"idle", "called", "checked"}, fault : Fault, entry : Entry]
  /\ Idle.entry = NoEntry
<1>1. (CHOOSE n \in Fault : TRUE) \in Fault
  BY FaultAssumption
<1> QED
  BY <1>1 DEF NoEntry, Idle, Entry, Duration

\* The constants are of the types the actions take them to be.
LEMMA Bounds ==
  /\ MaxTime \in Nat
  /\ Unlimited \notin Nat
  /\ \A d \in Duration : d # Unlimited => d \in Nat
  /\ \A n \in Fault : Durations[n] \subseteq Duration
  BY MaxTimeAssumption, DurationsAssumption DEF Duration

\* The dictionary grows and shrinks by one item at a time.
LEMMA OneItem ==
  ASSUME NEW S, IsFiniteSet(S), NEW x
  PROVE  /\ IsFiniteSet(S \union {x}) /\ IsFiniteSet(S \ {x})
         /\ Cardinality(S) \in Nat
  BY FS_AddElement, FS_RemoveElement, FS_CardinalityType

\* The state in which a process starts is of the right types, and the
\* invariant holds in it.
LEMMA InitInv == Init => Inv
<1> SUFFICES ASSUME Init PROVE Inv
  OBVIOUS
<1>1. TypeOK
  <2>1. expired \in Seq(Fault)
    BY DEF Init
  <2>2. simTime \in 0 .. MaxTime /\ lived \in [Fault -> 0 .. MaxTime + 1]
    BY MaxTimeAssumption DEF Init
  <2>3. entry \in [Fault -> Entry]
    BY WorkerTypes DEF Init
  <2>4. worker \in [ApiThreads -> [pc : {"idle", "called", "checked"}, fault : Fault,
                                  entry : Entry]]
    BY WorkerTypes DEF Init
  <2> QED
    BY <2>1, <2>2, <2>3, <2>4 DEF Init, TypeOK
<1>2. Locals
  BY FS_EmptySet DEF Init, Locals
<1>3. ClocksAgree
  BY WorkerTypes DEF Init, ClocksAgree
<1>4. Expiring
  BY DEF Init, Expiring, Listed
<1>5. Uninterfered
  BY DEF Init, Uninterfered
<1> QED
  BY <1>1, <1>2, <1>3, <1>4, <1>5 DEF Inv

\* Removing a fault leaves the other faults' items as they are.
LEMMA RemoveType ==
  ASSUME TypeOK, NEW n, Remove(n)
  PROVE  /\ n \in Fault /\ active' \subseteq Fault
         /\ entry' \in [Fault -> Entry]
         /\ lived' \in [Fault -> 0 .. MaxTime + 1]
         /\ replaced' \subseteq Fault /\ n \notin active' /\ active' = active \ {n}
         /\ \A m \in active' : entry'[m] = entry[m] /\ lived'[m] = lived[m]
         /\ \A m \in active' : m \in replaced' <=> m \in replaced
  BY WorkerTypes, Bounds DEF TypeOK, Remove

\* A list without its head.
LEMMA TailOfList ==
  ASSUME NEW S, NEW s \in Seq(S), s # << >>
  PROVE  /\ Tail(s) \in Seq(S) /\ Head(s) \in S /\ Head(s) = s[1]
         /\ Len(s) \in Nat \ {0} /\ Len(Tail(s)) = Len(s) - 1
         /\ \A i \in 1 .. Len(Tail(s)) : Tail(s)[i] = s[i + 1]
  OBVIOUS

\* Every step keeps the types, and the dictionary finite.
LEMMA NextTypes == TypeOK /\ Locals /\ [Next]_vars => TypeOK' /\ Locals'
<1> SUFFICES ASSUME TypeOK, Locals, [Next]_vars PROVE TypeOK' /\ Locals'
  OBVIOUS
<1> USE DEF Locals
<1>1. ASSUME NEW t \in ApiThreads, NEW n \in Fault, NEW d \in Durations[n],
             CallInject(t, n, d)
      PROVE  TypeOK' /\ Locals'
  <2>1. [pc |-> "called", fault |-> n, entry |-> [at |-> simTime, duration |-> d]]
          \in [pc : {"idle", "called", "checked"}, fault : Fault, entry : Entry]
    BY Bounds DEF Entry, TypeOK
  <2> QED
    BY <1>1, <2>1 DEF CallInject, TypeOK, expireVars, historyVars
<1>2. ASSUME NEW t \in ApiThreads, CheckInactive(t)
      PROVE  TypeOK' /\ Locals'
  BY <1>2, WorkerTypes DEF CheckInactive, TypeOK, expireVars, historyVars
<1>3. ASSUME NEW t \in ApiThreads, Activate(t)
      PROVE  TypeOK' /\ Locals'
  <2>1. PICK n \in Fault : n = worker[t].fault
    BY DEF TypeOK
  <2>2. active' = active \union {n} /\ IsFiniteSet(active')
    BY <1>3, <2>1, OneItem DEF Activate
  <2>3. interfered' \in BOOLEAN
    BY <1>3 DEF Activate, Touched, TypeOK
  <2>4. worker[t].entry \in Entry
    BY DEF TypeOK
  <2>5. lived' \in [Fault -> 0 .. MaxTime + 1] /\ replaced' \subseteq Fault
    <3>1. lived' = [lived EXCEPT ![n] = IF pc = "running" THEN 1 ELSE 0] \/ lived' = lived
      BY <1>3, <2>1 DEF Activate
    <3>2. replaced' = replaced \union {n} \/ replaced' = replaced
      BY <1>3, <2>1 DEF Activate
    <3>3. 0 \in 0 .. MaxTime + 1 /\ 1 \in 0 .. MaxTime + 1
      BY Bounds
    <3>4. replaced \subseteq Fault /\ lived \in [Fault -> 0 .. MaxTime + 1]
      BY DEF TypeOK
    <3> QED
      BY <2>1, <3>1, <3>2, <3>3, <3>4
  <2>6. sameClock' \in BOOLEAN /\ missed' \in Nat
    BY <1>3 DEF Activate, TypeOK
  <2> QED
    BY <1>3, <2>1, <2>2, <2>3, <2>4, <2>5, <2>6, WorkerTypes DEF Activate, TypeOK, expireVars
<1>4. ASSUME NEW n \in Fault, Clear(n)
      PROVE  TypeOK' /\ Locals'
  <2>1. IsFiniteSet(active')
    BY <1>4, OneItem DEF Clear, Remove
  <2>2. interfered' \in BOOLEAN
    BY <1>4 DEF Clear, Touched, TypeOK
  <2>3. Remove(n)
    BY <1>4 DEF Clear
  <2> QED
    BY <1>4, <2>1, <2>2, <2>3, RemoveType DEF Clear, TypeOK, expireVars
<1>5. ASSUME Reset
      PROVE  TypeOK' /\ Locals'
  <2>1. simTime' \in 0 .. MaxTime /\ lived' \in [Fault -> 0 .. MaxTime + 1]
    BY <1>5, MaxTimeAssumption DEF Reset
  <2> QED
    BY <1>5, <2>1 DEF Reset, TypeOK, expireVars
<1>6. ASSUME BeginTick
      PROVE  TypeOK' /\ Locals'
  BY <1>6, Bounds DEF BeginTick, Advanced, TypeOK, expireVars
<1>6b. ASSUME BootAborts
       PROVE  TypeOK' /\ Locals'
  BY <1>6b, Bounds DEF BootAborts, Advanced, TypeOK, expireVars, historyVars
<1>6c. ASSUME AbortTick
       PROVE  TypeOK' /\ Locals'
  BY <1>6c DEF AbortTick, TypeOK, expireVars
<1>7. ASSUME BeginExpire
      PROVE  TypeOK' /\ Locals'
  <2>1. Cardinality(active) \in Nat
    BY FS_CardinalityType
  <2> QED
    BY <1>7, <2>1 DEF BeginExpire, TypeOK, historyVars
<1>8. ASSUME NEW n \in Fault, Visit(n)
      PROVE  TypeOK' /\ Locals'
  <2>1. expired' \in Seq(Fault)
    BY <1>8 DEF Visit, TypeOK
  <2> QED
    BY <1>8, <2>1 DEF Visit, TypeOK, historyVars
<1>9. ASSUME EndScan
      PROVE  TypeOK' /\ Locals'
  BY <1>9 DEF EndScan, TypeOK, expireVars, historyVars
<1>10. ASSUME LeaveExpire, missed' \in Nat, replaced' \subseteq Fault
       PROVE  TypeOK' /\ Locals'
  <2>1. expired' \in Seq(Fault)
    BY <1>10 DEF LeaveExpire
  <2> QED
    BY <1>10, <2>1 DEF LeaveExpire, TypeOK
<1>11. ASSUME Pop
       PROVE  TypeOK' /\ Locals'
  <2>1. Remove(Head(expired)) /\ IsFiniteSet(active')
    BY <1>11, OneItem DEF Pop, Remove
  <2>2. expired' \in Seq(Fault)
    BY <1>11, TailOfList DEF Pop, TypeOK
  <2> QED
    BY <1>11, <2>1, <2>2, RemoveType DEF Pop, TypeOK
<1>12. ASSUME UNCHANGED vars
       PROVE  TypeOK' /\ Locals'
  BY <1>12 DEF vars, expireVars, historyVars, TypeOK
<1>13. ASSUME ScanRaises \/ PopRaises \/ EndTick
       PROVE  TypeOK' /\ Locals'
  <2>1. LeaveExpire /\ missed' \in Nat /\ replaced' \subseteq Fault
    BY <1>13 DEF ScanRaises, PopRaises, EndTick, TypeOK
  <2> QED
    BY <1>10, <2>1
<1> QED
  BY <1>1, <1>2, <1>3, <1>4, <1>5, <1>6, <1>6b, <1>6c, <1>7, <1>8, <1>9, <1>11, <1>12, <1>13
     DEF Next, Inject, Expire

-------------------------------------------------------------------------------
(* Time *)

\* The numbers in an item.
LEMMA ItemTypes ==
  ASSUME TypeOK, NEW n \in Fault
  PROVE  /\ entry[n].at \in Nat /\ lived[n] \in Nat /\ simTime \in Nat /\ missed \in Nat
         /\ entry[n].duration # Unlimited => entry[n].duration \in Nat
  BY Bounds DEF TypeOK, Entry

\* The reading a request has taken.
LEMMA WorkerItem ==
  ASSUME TypeOK, NEW t \in ApiThreads
  PROVE  /\ worker[t].entry \in Entry /\ worker[t].entry.at \in Nat
         /\ worker[t].fault \in Fault
  BY DEF TypeOK, Entry

\* Every step but a reset keeps the readings in step with the clock.
LEMMA NextClocks ==
  ASSUME TypeOK, ClocksAgree, [Next]_vars, ~Reset
  PROVE  ClocksAgree'
<1>0. simTime \in Nat
  BY DEF TypeOK
<1>1. ASSUME NEW t \in ApiThreads, NEW n \in Fault, NEW d \in Durations[n],
             CallInject(t, n, d)
      PROVE  ClocksAgree'
  <2>1. /\ UNCHANGED <<active, entry, lived, simTime>>
        /\ worker'[t].entry.at = simTime /\ worker'[t].pc = "called"
        /\ \A u \in ApiThreads \ {t} : worker'[u] = worker[u]
    BY <1>1 DEF CallInject, TypeOK, historyVars
  <2> QED
    BY <1>0, <2>1 DEF ClocksAgree, At
<1>2. ASSUME NEW t \in ApiThreads, CheckInactive(t)
      PROVE  ClocksAgree'
  <2>1. /\ UNCHANGED <<active, entry, lived, simTime>>
        /\ \A u \in ApiThreads \ {t} : worker'[u] = worker[u]
    BY <1>2 DEF CheckInactive, TypeOK, historyVars
  <2>2. CASE worker[t].fault \in active
    <3>1. worker'[t] = Idle
      BY <1>2, <2>2 DEF CheckInactive, TypeOK
    <3> QED
      BY <1>0, <2>1, <3>1, WorkerTypes DEF ClocksAgree, At, Idle
  <2>3. CASE worker[t].fault \notin active
    <3>1. worker'[t] = [worker[t] EXCEPT !.pc = "checked"]
      BY <1>2, <2>3 DEF CheckInactive, TypeOK
    <3>2. worker'[t].entry = worker[t].entry /\ worker'[t].fault = worker[t].fault
      BY <3>1 DEF TypeOK
    <3> QED
      BY <2>1, <2>3, <3>2 DEF ClocksAgree, At
  <2> QED
    BY <2>2, <2>3
<1>3. ASSUME NEW t \in ApiThreads, Activate(t)
      PROVE  ClocksAgree'
  <2>1. PICK n \in Fault : n = worker[t].fault
    BY WorkerItem
  <2>2. /\ active' = active \union {n} /\ active \subseteq Fault /\ simTime' = simTime
        /\ entry' = [entry EXCEPT ![n] = worker[t].entry]
        /\ worker' = [worker EXCEPT ![t] = Idle] /\ At(t, "checked")
    BY <1>3, <2>1 DEF Activate, TypeOK
  <2>3. /\ entry'[n] = worker[t].entry /\ worker[t].entry.at <= simTime
        /\ \A m \in active \ {n} : entry'[m] = entry[m]
        /\ worker'[t] = Idle /\ \A u \in ApiThreads \ {t} : worker'[u] = worker[u]
    BY <2>2 DEF TypeOK, ClocksAgree
  <2>4. /\ \A m \in Fault \ {n} : lived'[m] = lived[m]
        /\ n \in active => lived'[n] = lived[n]
        /\ n \notin active => lived'[n] \in {0, 1}
    BY <1>3, <2>1 DEF Activate, TypeOK
  <2>5. ASSUME NEW u \in ApiThreads, worker[u].fault = n, At(u, "checked")
        PROVE  worker[u].entry.at + lived'[n] <= simTime + 1
    <3>1. worker[u].entry.at \in Nat /\ worker[u].entry.at <= simTime
      BY WorkerItem DEF ClocksAgree
    <3>2. CASE n \in active
      BY <2>4, <2>5, <3>2 DEF ClocksAgree
    <3>3. CASE n \notin active
      BY <1>0, <2>4, <3>1, <3>3
    <3> QED
      BY <3>2, <3>3
  <2>6. entry'[n].at + lived'[n] <= simTime + 1
    BY <2>1, <2>2, <2>3, <2>5
  <2>7. \A u \in ApiThreads : worker'[u].entry.at <= simTime
    BY <1>0, <2>3, WorkerTypes DEF ClocksAgree
  <2>8. \A m \in active' : entry'[m].at + lived'[m] <= simTime + 1
    BY <2>2, <2>3, <2>4, <2>6 DEF ClocksAgree
  <2>9. ASSUME NEW u \in ApiThreads, At(u, "checked")', worker'[u].fault \in active'
        PROVE  worker'[u].entry.at + lived'[worker'[u].fault] <= simTime + 1
    <3>1. u # t /\ worker'[u] = worker[u] /\ At(u, "checked")
      BY <2>3, <2>9 DEF At, Idle
    <3>2. CASE worker[u].fault = n
      BY <2>5, <3>1, <3>2
    <3>3. CASE worker[u].fault # n
      BY <2>2, <2>4, <2>9, <3>1, <3>3, WorkerItem DEF ClocksAgree
    <3> QED
      BY <3>2, <3>3
  <2> QED
    BY <2>2, <2>7, <2>8, <2>9 DEF ClocksAgree
<1>4. ASSUME NEW n, Remove(n), UNCHANGED <<worker, simTime>>
      PROVE  ClocksAgree'
  <2>1. /\ active' = active \ {n}
        /\ \A m \in active' : entry'[m] = entry[m] /\ lived'[m] = lived[m]
    BY <1>4, RemoveType
  <2> QED
    BY <1>4, <2>1 DEF ClocksAgree, At
<1>5. CASE BeginTick
  <2>1. /\ simTime' = simTime + 1 /\ active' = active /\ entry' = entry /\ worker' = worker
        /\ \A n \in Fault : lived'[n] \in {lived[n], lived[n] + 1}
    BY <1>5 DEF BeginTick, Advanced
  <2>2. \A t \in ApiThreads : worker[t].entry.at <= simTime + 1
    BY <1>0, WorkerItem DEF ClocksAgree
  <2>3. ASSUME NEW at \in Nat, NEW n \in Fault, at + lived[n] <= simTime + 1
        PROVE  at + lived'[n] <= simTime' + 1
    BY <1>0, <2>1, <2>3, ItemTypes
  <2>4. \A n \in active : entry'[n].at + lived'[n] <= simTime' + 1
    <3> TAKE n \in active
    <3>1. n \in Fault /\ entry[n].at \in Nat
      BY ItemTypes DEF TypeOK
    <3> QED
      BY <2>1, <2>3, <3>1 DEF ClocksAgree
  <2>5. ASSUME NEW t \in ApiThreads, At(t, "checked"), worker[t].fault \in active
        PROVE  worker[t].entry.at + lived'[worker[t].fault] <= simTime' + 1
    BY <2>3, <2>5, WorkerItem DEF ClocksAgree
  <2> QED
    BY <2>1, <2>2, <2>4, <2>5 DEF ClocksAgree, At
<1>6. CASE BootAborts
  <2>1. simTime' = simTime + 1 /\ UNCHANGED <<active, entry, worker, lived>>
    BY <1>6 DEF BootAborts, Advanced, historyVars
  <2>2. \A t \in ApiThreads : worker[t].entry.at <= simTime + 1
    BY <1>0, WorkerItem DEF ClocksAgree
  <2>3. \A n \in active : entry[n].at + lived[n] <= simTime + 2
    <3> TAKE n \in active
    <3>1. n \in Fault
      BY DEF TypeOK
    <3> QED
      BY <1>0, <3>1, ItemTypes DEF ClocksAgree
  <2>4. ASSUME NEW t \in ApiThreads, At(t, "checked"), worker[t].fault \in active
        PROVE  worker[t].entry.at + lived[worker[t].fault] <= simTime + 2
    <3>1. PICK n \in Fault : n = worker[t].fault
      BY WorkerItem
    <3>2. worker[t].entry.at \in Nat /\ lived[n] \in Nat
      BY <3>1, WorkerItem, ItemTypes
    <3>3. worker[t].entry.at + lived[n] <= simTime + 1
      BY <2>4, <3>1 DEF ClocksAgree
    <3> QED
      BY <1>0, <3>1, <3>2, <3>3
  <2>5. simTime' + 1 = simTime + 2
    BY <1>0, <2>1
  <2> QED
    BY <2>1, <2>2, <2>3, <2>4, <2>5 DEF ClocksAgree, At
<1>7. ASSUME UNCHANGED <<active, entry, worker, simTime, lived>>
      PROVE  ClocksAgree'
  BY <1>7 DEF ClocksAgree, At
<1> QED
  BY <1>1, <1>2, <1>3, <1>4, <1>5, <1>6, <1>7
     DEF Next, Inject, Expire, Clear, AbortTick, BeginExpire, Visit, EndScan, ScanRaises, Pop,
         PopRaises, EndTick, LeaveExpire, vars, expireVars, historyVars

\* A fault that has time left by the clock has not acted for longer than that.
LEMMA TimeLeft ==
  ASSUME TypeOK, ClocksAgree, NEW n \in active, ~Elapsed(n)
  PROVE  Within(n, 0)
<1>1. n \in Fault /\ entry[n].at + lived[n] <= simTime + 1
  BY DEF TypeOK, ClocksAgree
<1> QED
  BY <1>1, ItemTypes DEF Elapsed, Within

\* The items a step leaves in the dictionary are those it found there, or new.
SameItems ==
  \A n \in active' \ replaced' :
    \/ n \in active \ replaced /\ entry'[n] = entry[n] /\ lived'[n] = lived[n]
    \/ lived'[n] = 0
    \/ lived'[n] = 1 /\ pc' = "running"

\* Where no tick begins or ends, a step leaves the items as they are, or adds new ones.
LEMMA StepsKeepItems ==
  ASSUME TypeOK, [Next]_vars, ~BeginTick, ~Reset, ~EndTick
  PROVE  SameItems
<1>1. ASSUME NEW t \in ApiThreads, Activate(t)
      PROVE  SameItems
  <2>1. PICK n \in Fault : n = worker[t].fault
    BY WorkerItem
  <2>2. /\ active' = active \union {n} /\ active \subseteq Fault /\ pc' = pc
        /\ \A m \in Fault \ {n} : entry'[m] = entry[m] /\ lived'[m] = lived[m]
        /\ \A m \in Fault \ {n} : m \in replaced' <=> m \in replaced
    BY <1>1, <2>1 DEF Activate, TypeOK
  <2>3. CASE n \in active
    <3>1. n \in replaced'
      BY <1>1, <2>1, <2>3 DEF Activate
    <3> QED
      BY <2>2, <3>1 DEF SameItems
  <2>4. CASE n \notin active
    <3>1. lived'[n] = IF pc = "running" THEN 1 ELSE 0
      BY <1>1, <2>1, <2>4 DEF Activate, TypeOK
    <3> QED
      BY <2>2, <3>1 DEF SameItems
  <2> QED
    BY <2>3, <2>4
<1>2. ASSUME NEW n, Remove(n)
      PROVE  SameItems
  BY <1>2, RemoveType DEF SameItems
<1>3. ASSUME UNCHANGED <<active, entry, lived, replaced>>
      PROVE  SameItems
  BY <1>3 DEF SameItems
<1> QED
  BY <1>1, <1>2, <1>3
     DEF Next, Inject, Expire, CallInject, CheckInactive, Clear, BootAborts, AbortTick,
         BeginExpire, Visit, EndScan, ScanRaises, Pop, PopRaises, LeaveExpire, vars, expireVars,
         historyVars

\* A step that keeps the items keeps what is said of how long they have acted.
LEMMA ItemsKeepTime ==
  ASSUME TypeOK, TypeOK', SameItems, NEW n \in active' \ replaced', NEW k \in Nat,
         n \in active \ replaced => Within(n, k)
  PROVE  Within(n, k)' \/ (lived'[n] = 1 /\ pc' = "running")
<1>1. n \in Fault
  BY DEF TypeOK
<1>2. lived'[n] \in Nat /\ (entry'[n].duration # Unlimited => entry'[n].duration \in Nat)
  BY <1>1, Bounds DEF TypeOK, Entry
<1>3. CASE n \in active \ replaced /\ entry'[n] = entry[n] /\ lived'[n] = lived[n]
  BY <1>3 DEF Within
<1>4. CASE lived'[n] = 0
  BY <1>2, <1>4 DEF Within
<1> QED
  BY <1>3, <1>4 DEF SameItems

\* More time is allowed to who is allowed less.
LEMMA MoreTime ==
  ASSUME TypeOK, NEW n \in Fault, NEW j \in Nat, NEW k \in Nat, j <= k, Within(n, j)
  PROVE  Within(n, k)
  BY ItemTypes DEF Within

\* Every step of a mission keeps what is said of the time the faults have had.
LEMMA NextExpiring ==
  ASSUME Inv, TypeOK', ClocksAgree, Expiring, [Next]_vars, ~Reset
  PROVE  Expiring'
<1>0. /\ TypeOK /\ Locals /\ Uninterfered /\ missed \in Nat /\ missed' \in Nat
      /\ active \subseteq Fault /\ active' \subseteq Fault
  BY DEF Inv, TypeOK
<1>1. CASE BeginTick
  <2>1. /\ active' = active /\ entry' = entry /\ replaced' = replaced /\ missed' = missed
        /\ pc = "tick" /\ pc' = "running"
    BY <1>1 DEF BeginTick
  <2>2. ASSUME NEW n \in active \ replaced
        PROVE  Within(n, 1 + missed)'
    <3>1. n \in Fault /\ Within(n, missed)
      BY <1>0, <2>1, <2>2 DEF Expiring
    <3>2. lived'[n] \in {lived[n], lived[n] + 1}
      BY <1>1, <3>1 DEF BeginTick
    <3> QED
      BY <1>0, <2>1, <3>1, <3>2, ItemTypes DEF Within
  <2> QED
    BY <2>1, <2>2 DEF Expiring, Listed
<1>2. CASE EndTick
  <2>1. /\ UNCHANGED <<active, entry, lived>> /\ missed' = 0
        /\ pc = "pop" /\ pc' = "tick" /\ expired = << >>
        /\ replaced' = IF interfered THEN replaced ELSE {}
    BY <1>2 DEF EndTick, LeaveExpire
  <2>2. ASSUME NEW n \in active
        PROVE  ~InExpired(n)
    BY <2>1 DEF InExpired
  <2>3. ASSUME NEW n \in active \ replaced'
        PROVE  Within(n, 0)
    <3>1. CASE n \notin replaced
      BY <2>1, <2>2, <3>1 DEF Expiring, Listed
    <3>2. CASE n \in replaced
      <4>1. ~interfered
        BY <2>1, <2>3, <3>2
      <4>2. ~Elapsed(n)
        BY <1>0, <2>1, <2>2, <4>1 DEF Uninterfered, ListIsExact
      <4> QED
        BY <1>0, <4>2, TimeLeft
    <3> QED
      BY <3>1, <3>2
  <2>4. ASSUME NEW n \in active \ replaced'
        PROVE  Within(n, 0) /\ Within(n, 1)
    BY <1>0, <2>3, <2>4, MoreTime
  <2>5. 1 + missed' = 1
    BY <2>1
  <2> QED
    BY <2>1, <2>4, <2>5 DEF Expiring, Listed, Within
<1>3. CASE ~BeginTick /\ ~EndTick
  <2>1. SameItems
    BY <1>0, <1>3, StepsKeepItems
  <2>2. missed' \in {missed, missed + 1}
    BY <1>3 DEF Next, Inject, Expire, CallInject, CheckInactive, Activate, Clear, BootAborts,
           AbortTick, BeginExpire, Visit, EndScan, ScanRaises, Pop, PopRaises, vars, historyVars
  <2>3. ASSUME NEW n \in active' \ replaced'
        PROVE  Within(n, 1 + missed)' /\ (missed' = missed + 1 => Within(n, missed)')
    <3>1. n \in Fault /\ 1 + missed \in Nat
      BY <1>0
    <3>2. Within(n, 1 + missed) \/ n \notin active \ replaced
      BY DEF Expiring
    <3>3. CASE lived'[n] = 1 /\ pc' = "running"
      <4>1. missed' = missed
        BY <3>3, <1>3 DEF Next, Inject, Expire, CallInject, CheckInactive, Activate, Clear, BootAborts,
           AbortTick, BeginExpire, Visit, EndScan, ScanRaises, Pop, PopRaises, LeaveExpire, vars,
           historyVars
      <4>2. entry'[n].duration # Unlimited => entry'[n].duration \in Nat
        BY <3>1, Bounds DEF TypeOK, Entry
      <4> QED
        BY <1>0, <3>3, <4>1, <4>2 DEF Within
    <3>4. CASE n \in active \ replaced /\ entry'[n] = entry[n] /\ lived'[n] = lived[n]
      <4>1. entry'[n].duration # Unlimited => lived'[n] <= entry'[n].duration + (1 + missed)
        BY <3>2, <3>4 DEF Within
      <4>2. /\ lived'[n] \in Nat
            /\ entry'[n].duration # Unlimited => entry'[n].duration \in Nat
        BY <3>1, Bounds DEF TypeOK, Entry
      <4> QED
        BY <1>0, <2>2, <4>1, <4>2 DEF Within
    <3>5. CASE lived'[n] = 0
      <4>1. entry'[n].duration # Unlimited => entry'[n].duration \in Nat
        BY <3>1, Bounds DEF TypeOK, Entry
      <4> QED
        BY <1>0, <3>5, <4>1 DEF Within
    <3> QED
      BY <2>1, <3>3, <3>4, <3>5 DEF SameItems
  <2>4. ASSUME NEW n \in active' \ replaced', n \in active \ replaced => Within(n, 0),
               pc' # "running"
        PROVE  Within(n, 0)'
    BY <1>0, <2>1, <2>4, ItemsKeepTime
  <2>5. pc' = "tick" => \A n \in active' \ replaced' : Within(n, missed)'
    <3> SUFFICES ASSUME pc' = "tick", NEW n \in active' \ replaced'
                 PROVE  Within(n, missed)'
      OBVIOUS
    <3>1. CASE missed' = missed + 1
      BY <2>3, <3>1
    <3>2. CASE missed' = missed
      <4>1. pc = "tick"
        BY <1>0, <1>3, <3>2
           DEF Next, Inject, Expire, CallInject, CheckInactive, Activate, Clear, BootAborts,
               AbortTick, BeginExpire, Visit, EndScan, ScanRaises, Pop, PopRaises, vars
      <4>2. n \in active \ replaced => Within(n, missed)
        BY <4>1 DEF Expiring
      <4>3. (n \in active \ replaced /\ entry'[n] = entry[n] /\ lived'[n] = lived[n])
              \/ lived'[n] = 0
        BY <2>1 DEF SameItems
      <4>4. n \in Fault /\ (entry'[n].duration # Unlimited => entry'[n].duration \in Nat)
        BY <1>0, Bounds DEF TypeOK, Entry
      <4> QED
        BY <1>0, <3>2, <4>2, <4>3, <4>4 DEF Within
    <3> QED
      BY <2>2, <3>1, <3>2
  <2>6. \A n \in active' \ replaced' : Within(n, 1 + missed)'
    BY <2>3
  <2>7. Listed'
    <3>1. ASSUME UNCHANGED <<pc, visited, expired>>
          PROVE  Listed'
      <4>1. \A n \in active' : InExpired(n) <=> InExpired(n)'
        BY <3>1 DEF InExpired
      <4>2. ASSUME NEW n \in active' \ replaced', pc \in {"scan", "pop"},
                   pc = "scan" => n \in visited
            PROVE  Within(n, 0)' \/ InExpired(n)'
        <5>1. n \in active \ replaced => Within(n, 0) \/ InExpired(n)
          BY <4>2 DEF Expiring, Listed
        <5> QED
          BY <2>4, <3>1, <4>1, <4>2, <5>1
      <4> QED
        BY <3>1, <4>2 DEF Listed
    <3>2. CASE BeginExpire
      BY <1>0, <3>2 DEF BeginExpire, Locals, Listed
    <3>3. ASSUME NEW n \in Fault, Visit(n)
          PROVE  Listed'
      <4>1. /\ expired \in Seq(Fault)
            /\ expired' = IF Elapsed(n) THEN Append(expired, n) ELSE expired
        BY <1>0, <3>3 DEF Visit, TypeOK
      <4>2. \A m \in Fault : InExpired(m) => InExpired(m)'
        BY <4>1 DEF InExpired
      <4>3. Elapsed(n) => InExpired(n)'
        <5> SUFFICES ASSUME Elapsed(n) PROVE InExpired(n)'
          OBVIOUS
        <5>1. expired' = Append(expired, n) /\ Len(expired) \in Nat
          BY <4>1
        <5>2. Len(expired') = Len(expired) + 1 /\ expired'[Len(expired) + 1] = n
          BY <4>1, <5>1
        <5>3. Len(expired) + 1 \in 1 .. Len(expired')
          BY <5>1, <5>2
        <5> QED
          BY <5>2, <5>3 DEF InExpired
      <4>4. /\ UNCHANGED <<active, entry, lived, simTime, pc, replaced>> /\ pc = "scan"
            /\ visited' = visited \union {n} /\ n \in active
        BY <3>3 DEF Visit, historyVars
      <4>5. \A m \in Fault : Within(m, 0) => Within(m, 0)'
        BY <4>4 DEF Within
      <4>6. Within(n, 0)' \/ InExpired(n)'
        BY <1>0, <4>3, <4>4, <4>5, TimeLeft
      <4> QED
        BY <1>0, <4>2, <4>4, <4>5, <4>6 DEF Expiring, Listed
    <3>4. CASE EndScan
      <4>1. /\ UNCHANGED <<active, entry, lived, expired, replaced>>
            /\ pc = "scan" /\ pc' = "pop" /\ active \subseteq visited
        BY <3>4 DEF EndScan, expireVars, historyVars
      <4>2. \A n \in active : (Within(n, 0) => Within(n, 0)') /\ (InExpired(n) => InExpired(n)')
        BY <4>1 DEF Within, InExpired
      <4> QED
        BY <4>1, <4>2 DEF Expiring, Listed
    <3>5. CASE Pop
      <4>1. /\ expired \in Seq(Fault) /\ expired # << >> /\ expired' = Tail(expired)
            /\ pc = "pop" /\ pc' = "pop" /\ active' = active \ {Head(expired)}
        BY <1>0, <3>5 DEF Pop, Remove, TypeOK
      <4>2. ASSUME NEW n \in active', InExpired(n)
            PROVE  InExpired(n)'
        <5>1. PICK i \in 1 .. Len(expired) : expired[i] = n
          BY <4>2 DEF InExpired
        <5>2. i # 1 /\ Len(expired) \in Nat
          BY <4>1, <4>2, <5>1
        <5>3. Len(expired') = Len(expired) - 1 /\ expired'[i - 1] = n
          BY <4>1, <5>1, <5>2, TailOfList
        <5>4. i - 1 \in 1 .. Len(expired')
          BY <5>2, <5>3
        <5> QED
          BY <5>3, <5>4 DEF InExpired
      <4>3. ASSUME NEW n \in active' \ replaced'
            PROVE  Within(n, 0)' \/ InExpired(n)'
        <5>1. n \in active \ replaced => Within(n, 0) \/ InExpired(n)
          BY <4>1 DEF Expiring, Listed
        <5> QED
          BY <2>4, <4>1, <4>2, <5>1
      <4> QED
        BY <4>1, <4>3 DEF Listed
    <3>6. CASE pc' \in {"tick", "running"}
      BY <3>6 DEF Listed
    <3> QED
      BY <1>3, <3>1, <3>2, <3>3, <3>4, <3>5, <3>6
         DEF Next, Inject, Expire, CallInject, CheckInactive, Activate, Clear, BootAborts,
             AbortTick, ScanRaises, PopRaises, LeaveExpire, vars, expireVars
  <2> QED
    BY <2>5, <2>6, <2>7 DEF Expiring, Listed
<1> QED
  BY <1>1, <1>2, <1>3

-------------------------------------------------------------------------------
(* The list of expired faults *)

\* Every step keeps what is said of expire's list.
LEMMA NextList == Inv /\ [Next]_vars => Uninterfered'
<1> SUFFICES ASSUME Inv, [Next]_vars, ~interfered', pc' \in {"scan", "pop"}
             PROVE  ListIsExact'
  BY DEF Uninterfered
<1>0. TypeOK /\ Locals /\ TypeOK' /\ Locals'
  BY NextTypes DEF Inv
<1>a. expired \in Seq(Fault) /\ Len(expired) \in Nat /\ active \subseteq Fault
  BY <1>0 DEF TypeOK
<1>b. \/ BeginExpire \/ EndScan \/ Pop
      \/ \E n \in Fault : Visit(n)
      \/ UNCHANGED <<active, entry, pc, expireVars, simTime, interfered>>
  BY DEF Next, Inject, Expire, CallInject, CheckInactive, Activate, Clear, Touched, Reset, BeginTick,
         BootAborts, AbortTick, ScanRaises, PopRaises, EndTick, LeaveExpire, vars, historyVars
<1>c. (pc \in {"scan", "pop"}) => ListIsExact
  BY <1>b DEF Inv, Uninterfered, BeginExpire, EndScan, Pop, Visit, historyVars
<1>1. CASE UNCHANGED <<active, entry, pc, expireVars, simTime, interfered>>
  BY <1>c, <1>1 DEF ListIsExact, InExpired, Elapsed, expireVars
<1>2. CASE BeginExpire
  <2>1. /\ pc' = "scan" /\ size' = Cardinality(active) /\ active' = active
        /\ visited' = {} /\ expired' = << >>
    BY <1>0, <1>2 DEF BeginExpire, Locals
  <2> QED
    BY <2>1 DEF ListIsExact
<1>3. ASSUME NEW n \in Fault, Visit(n)
      PROVE  ListIsExact'
  <2>1. /\ UNCHANGED <<active, entry, simTime, size, pc>> /\ pc = "scan"
        /\ n \in active /\ n \notin visited
        /\ visited' = visited \union {n}
    BY <1>3 DEF Visit, historyVars
  <2>2. ListIsExact /\ \A m \in Fault : Elapsed(m) <=> Elapsed(m)'
    BY <1>c, <2>1 DEF Elapsed
  <2>3. CASE Elapsed(n)
    <3>1. expired' = Append(expired, n)
      BY <1>3, <2>3 DEF Visit
    <3>2. /\ Len(expired') = Len(expired) + 1 /\ expired'[Len(expired) + 1] = n
          /\ \A i \in 1 .. Len(expired) : expired'[i] = expired[i]
      BY <1>a, <3>1
    <3>3. \A i \in 1 .. Len(expired') : i \in 1 .. Len(expired) \/ i = Len(expired) + 1
      BY <1>a, <3>2
    <3>4. \A i \in 1 .. Len(expired) : i \in 1 .. Len(expired') /\ i # Len(expired) + 1
      BY <1>a, <3>2
    <3>5. Len(expired) + 1 \in 1 .. Len(expired')
      BY <1>a, <3>2
    <3>6. \A i \in 1 .. Len(expired) :
            /\ expired[i] \in active /\ Elapsed(expired[i])
            /\ expired[i] \in visited /\ expired[i] \in Fault
      BY <1>a, <2>1, <2>2 DEF ListIsExact
    <3>7. \A i \in 1 .. Len(expired') :
            expired'[i] \in active' /\ Elapsed(expired[i])' /\ expired'[i] \in visited'
      <4> TAKE i \in 1 .. Len(expired')
      <4>1. PICK m \in Fault : m = expired'[i]
        BY <1>0 DEF TypeOK
      <4>2. m \in active /\ Elapsed(m) /\ m \in visited'
        BY <2>1, <2>3, <3>2, <3>3, <3>6, <4>1
      <4> QED
        BY <2>1, <2>2, <4>1, <4>2 DEF Elapsed
    <3>8. \A i, j \in 1 .. Len(expired') : expired'[i] = expired'[j] => i = j
      BY <2>1, <2>2, <3>2, <3>3, <3>6 DEF ListIsExact
    <3>9. \A m \in active : m = n \/ InExpired(m) => InExpired(m)'
      BY <3>2, <3>4, <3>5 DEF InExpired
    <3> QED
      BY <1>a, <2>1, <2>2, <3>7, <3>8, <3>9 DEF ListIsExact
  <2>4. CASE ~Elapsed(n)
    <3>1. expired' = expired
      BY <1>3, <2>4 DEF Visit
    <3>2. \A m \in active : InExpired(m) <=> InExpired(m)'
      BY <3>1 DEF InExpired
    <3> QED
      BY <1>a, <2>1, <2>2, <2>4, <3>1, <3>2 DEF ListIsExact, Elapsed
  <2> QED
    BY <2>3, <2>4
<1>4. CASE EndScan
  <2>1. /\ UNCHANGED <<active, entry, simTime, expired>>
        /\ pc = "scan" /\ pc' = "pop" /\ active \subseteq visited
    BY <1>4 DEF EndScan, expireVars
  <2> QED
    BY <1>c, <2>1 DEF ListIsExact, InExpired, Elapsed
<1>5. CASE Pop
  <2>1. PICK n : n = Head(expired)
    OBVIOUS
  <2>2. /\ expired # << >> /\ expired' = Tail(expired) /\ pc = "pop" /\ pc' = "pop"
        /\ Remove(n) /\ active' = active \ {n} /\ simTime' = simTime
    BY <1>5, <2>1 DEF Pop, Remove
  <2>3. ListIsExact /\ \A m \in active' : (Elapsed(m) <=> Elapsed(m)') /\ m \in active /\ m # n
    <3>1. \A m \in active' : entry'[m] = entry[m]
      BY <1>0, <2>2, RemoveType
    <3> QED
      BY <1>c, <2>2, <3>1 DEF Elapsed
  <2>4. /\ Len(expired') = Len(expired) - 1 /\ expired[1] = n
        /\ \A i \in 1 .. Len(expired') : expired'[i] = expired[i + 1]
    BY <1>a, <2>1, <2>2, TailOfList
  <2>5. \A i \in 1 .. Len(expired') : i + 1 \in 1 .. Len(expired) /\ i + 1 # 1
    BY <1>a, <2>4
  <2>6. 1 \in 1 .. Len(expired)
    BY <1>a, <2>2
  <2>7. \A i \in 1 .. Len(expired') : expired'[i] \in active' /\ Elapsed(expired[i])'
    <3> TAKE i \in 1 .. Len(expired')
    <3>1. PICK m : m = expired'[i]
      OBVIOUS
    <3>2. m \in active /\ Elapsed(m) /\ m # n
      BY <2>3, <2>4, <2>5, <2>6, <3>1 DEF ListIsExact
    <3> QED
      BY <2>2, <2>3, <3>1, <3>2 DEF Elapsed
  <2>8. \A i, j \in 1 .. Len(expired') : expired'[i] = expired'[j] => i = j
    <3> SUFFICES ASSUME NEW i \in 1 .. Len(expired'), NEW j \in 1 .. Len(expired'),
                        expired'[i] = expired'[j]
                 PROVE  i = j
      OBVIOUS
    <3>1. i + 1 = j + 1
      BY <2>3, <2>4, <2>5 DEF ListIsExact
    <3> QED
      BY <3>1
  <2>9. \A m \in active' : InExpired(m) => InExpired(m)'
    <3> SUFFICES ASSUME NEW m \in active', InExpired(m) PROVE InExpired(m)'
      OBVIOUS
    <3>1. PICK i \in 1 .. Len(expired) : expired[i] = m
      BY DEF InExpired
    <3>2. i # 1
      BY <2>3, <2>4, <3>1
    <3>3. i - 1 \in 1 .. Len(expired') /\ (i - 1) + 1 = i
      BY <1>a, <2>4, <3>2
    <3> QED
      BY <2>4, <3>1, <3>3 DEF InExpired
  <2> QED
    BY <2>2, <2>3, <2>7, <2>8, <2>9 DEF ListIsExact
<1> QED
  BY <1>b, <1>1, <1>2, <1>3, <1>4, <1>5

-------------------------------------------------------------------------------
(* Fault injection: theorems *)

\* The invariant holds in every state of every behaviour.
THEOREM Invariance == Spec => []Inv
<1>1. Inv /\ [Next]_vars => Inv'
  <2> SUFFICES ASSUME Inv, [Next]_vars PROVE Inv'
    OBVIOUS
  <2>1. TypeOK /\ Locals /\ TypeOK' /\ Locals'
    BY NextTypes DEF Inv
  <2>2. Uninterfered'
    BY NextList
  <2>3. ASSUME sameClock' PROVE ClocksAgree' /\ Expiring'
    <3>1. sameClock /\ ~Reset
      BY <2>3 DEF Next, Inject, Expire, CallInject, CheckInactive, Activate, Clear, Reset,
           BeginTick, BootAborts, AbortTick, BeginExpire, Visit, EndScan, ScanRaises, Pop,
           PopRaises, EndTick, LeaveExpire, vars, historyVars
    <3>2. ClocksAgree /\ Expiring
      BY <3>1 DEF Inv
    <3> QED
      BY <2>1, <3>1, <3>2, NextClocks, NextExpiring
  <2> QED
    BY <2>1, <2>2, <2>3 DEF Inv
<1> QED
  BY InitInv, <1>1, PTL DEF Spec

(***************************************************************************)
(* Type correctness of the dictionary of faults, of the requests under way *)
(* and of expire's locals.                                                 *)
(***************************************************************************)
THEOREM TypeCorrectness == Spec => []TypeOK
<1>1. Inv => TypeOK
  BY DEF Inv
<1> QED
  BY Invariance, <1>1, PTL

(***************************************************************************)
(* A fault injected for a duration of d ticks acts in no more than d + 1,  *)
(* and one more for each tick in a row that has not got to the end of      *)
(* expire, wherever in a tick it was injected and however requests race    *)
(* with expire.                                                            *)
(***************************************************************************)
THEOREM DurationsAreKept == Spec => []ActsNoLongerThanItsDuration
<1>1. Inv => ActsNoLongerThanItsDuration
  <2> SUFFICES ASSUME Inv, NEW n \in active \ replaced, sameClock, entry[n].duration # Unlimited
               PROVE  lived[n] <= entry[n].duration + 1 + missed
    BY DEF ActsNoLongerThanItsDuration
  <2>1. n \in Fault /\ TypeOK /\ lived[n] <= entry[n].duration + (1 + missed)
    BY DEF Inv, TypeOK, Expiring, Within
  <2> QED
    BY <2>1, ItemTypes
<1> QED
  BY Invariance, <1>1, PTL

(***************************************************************************)
(* As long as no request changes the dictionary while it runs, expire      *)
(* raises nothing and removes exactly the faults whose time is over.       *)
(***************************************************************************)
THEOREM ExpireIsExact == Spec => ExpireAloneIsExact
<1>1. Inv /\ [Next]_vars =>
        [~interfered =>
           /\ ~ScanRaises /\ ~PopRaises
           /\ Pop => Elapsed(Head(expired))
           /\ EndTick => \A n \in active : ~Elapsed(n)]_vars
  <2> SUFFICES ASSUME Inv, ~interfered
               PROVE  /\ ~ScanRaises /\ ~PopRaises
                      /\ Pop => Elapsed(Head(expired))
                      /\ EndTick => \A n \in active : ~Elapsed(n)
    OBVIOUS
  <2>1. expired \in Seq(Fault) /\ (pc \in {"scan", "pop"} => ListIsExact)
    BY DEF Inv, TypeOK, Uninterfered
  <2>2. expired # << >> => Head(expired) = expired[1] /\ 1 \in 1 .. Len(expired)
    BY <2>1, TailOfList
  <2>3. ~ScanRaises
    BY <2>1 DEF ScanRaises, ListIsExact
  <2>4. ~PopRaises
    BY <2>1, <2>2 DEF PopRaises, ListIsExact
  <2>5. Pop => Elapsed(Head(expired))
    BY <2>1, <2>2 DEF Pop, ListIsExact
  <2>6. EndTick => \A n \in active : ~Elapsed(n)
    BY <2>1 DEF EndTick, ListIsExact, InExpired
  <2> QED
    BY <2>3, <2>4, <2>5, <2>6
<1> QED
  BY Invariance, <1>1, PTL DEF Spec, ExpireAloneIsExact
-------------------------------------------------------------------------------
(* The life of the loop: the invariant *)

NoneAlive == \A l \in Loop : ~Alive(l)

\* Where a request is that will create a thread, or has
Starting == {"testing", "clearing", "creating", "launching", "started", "wiping", "rebuilding"}

\* Every request that may create a thread has one of the bounded number left.
ThreadsOK ==
  /\ LifecycleTypeOK
  /\ created + Cardinality(Creators) <= MaxLoops
  /\ \A t \in Clients : ClientAt(t, "launching") => thread \in Loop
  /\ \A t \in Clients : client[t].pc \in Starting => client[t].request # "stop"

\* Dropped tables are restored unless a reset was broken off.
TablesOK ==
  /\ missing # {} => brokenOff \/ \E t \in Clients : ClientAt(t, "wiping")
  /\ \A t \in Clients : client[t].dropped # 0 => ClientAt(t, "wiping")

\* As long as no two requests have been creating threads at once, only the thread
\* of the attribute may be alive, and none is while start goes from its test to
\* the launch.
LoopOK ==
  ~raced =>
    /\ \A l \in Loop : Alive(l) => l = thread
    /\ \A t \in Clients : InStart(t) => NoneAlive
    /\ \A t, u \in Clients : (InStart(t) /\ InStart(u)) => t = u
    /\ \A t \in Clients : ClientAt(t, "launching") => loop[thread] = "created"

\* What requests that come one after the other find
AloneOK ==
  alone =>
    /\ ~raced
    /\ \A t, u \in Clients : ClientAt(t, "idle") \/ ClientAt(u, "idle") \/ t = u
    /\ \A t \in Clients : ~client[t].cleared
    /\ \A t \in Clients : ClientAt(t, "joining") => client[t].joins = thread

\* If moreover ticks end before join gives up, an event that is set outside of
\* join has ended the loop, and from join until start no loop is alive to write.
QuickOK ==
  (alone /\ ~slowTicks) =>
    /\ ~overrun
    /\ stopEvent => NoneAlive \/ \E t \in Clients : client[t].pc \in {"signalled", "joining"}
    /\ \A t \in Clients :
         /\ client[t].pc \in {"creating", "launching", "started"} => ~stopEvent
         /\ ClientAt(t, "started") => ThreadAlive
         /\ client[t].pc \in {"stopped", "wiping", "rebuilding"} => NoneAlive

\* As long as no loop has run in the middle of a reset, nothing fills a table again
\* that a reset has emptied.
MissionOK ==
  ~overrun =>
    /\ \A t \in Clients : InReset(t) => NoneAlive
    /\ \A t \in Clients : ClientAt(t, "wiping") =>
         \A i \in 1 .. client[t].dropped : Tables[i] \in TickTable => rows[Tables[i]] = {}
    /\ \A t \in Clients : ClientAt(t, "rebuilding") => \A b \in TickTable : rows[b] = {}
    /\ \A l \in Loop : begunIn[l] = "present"
    /\ rebuilt => \A b \in TickTable : rows[b] \subseteq {"present"}

LifecycleInv == ThreadsOK /\ TablesOK /\ LoopOK /\ AloneOK /\ QuickOK /\ MissionOK

-------------------------------------------------------------------------------
(* The life of the loop: what the steps do *)

Call == [pc : Place, request : Request, joins : Loop \union {NoLoop}, cleared : BOOLEAN,
         dropped : 0 .. Len(Tables)]

TableNames == {Tables[i] : i \in 1 .. Len(Tables)}

\* The tables by their names
LEMMA TablesNamed ==
  /\ Len(Tables) = 5
  /\ Tables[1] = "telemetry" /\ Tables[2] = "packets" /\ Tables[3] = "events"
  /\ Tables[4] = "security_events" /\ Tables[5] = "satellite_state"
BY DEF Tables

\* A step to another place within the same request.
LEMMA Goes ==
  ASSUME LifecycleTypeOK, NEW t \in Clients, NEW place \in Place, Goto(t, place)
  PROVE  /\ client' \in [Clients -> Call]
         /\ client'[t] = [client[t] EXCEPT !.pc = place] /\ client'[t].pc = place
         /\ \A u \in Clients : u # t => client'[u] = client[u]
  BY DEF Goto, LifecycleTypeOK, Call

\* Whose places and histories a step of a request changes.
Others(t) ==
  \A u \in Clients : u # t =>
    /\ client'[u].pc = client[u].pc /\ client'[u].request = client[u].request
    /\ client'[u].joins = client[u].joins /\ client'[u].dropped = client[u].dropped
    /\ client'[u].cleared = client[u].cleared \/ client[u].pc \in {"signalled", "joining"}

Keeps(t) ==
  /\ client'[t].request = client[t].request
  /\ client'[t].joins = client[t].joins \/ client'[t].joins = NoLoop \/ client'[t].joins = thread
  /\ client'[t].cleared = client[t].cleared \/ client'[t].cleared = FALSE

Move(from, to) ==
  <<from, to>> \in
    {<<"testing", "started">>, <<"testing", "clearing">>, <<"clearing", "creating">>,
     <<"creating", "launching">>, <<"launching", "started">>, <<"launching", "idle">>,
     <<"started", "idle">>, <<"stopping", "signalling">>, <<"stopping", "stopped">>,
     <<"signalling", "signalled">>, <<"signalled", "joining">>, <<"signalled", "idle">>,
     <<"joining", "stopped">>, <<"stopped", "idle">>, <<"stopped", "wiping">>,
     <<"wiping", "wiping">>, <<"wiping", "idle">>, <<"wiping", "rebuilding">>,
     <<"rebuilding", "testing">>}

\* A step of one request leaves the others where they are.
LEMMA Moves ==
  ASSUME LifecycleTypeOK, NEW t \in Clients, ClientStep(t)
  PROVE  /\ client' \in [Clients -> Call] /\ Others(t) /\ Keeps(t)
         /\ Move(client[t].pc, client'[t].pc)
<1>1. client \in [Clients -> Call] /\ thread \in Loop \union {NoLoop}
  BY DEF LifecycleTypeOK, Call
<1>2. ASSUME NEW from \in Place, NEW to \in Place, client[t].pc = from, Goto(t, to),
             Move(from, to)
      PROVE  /\ client' \in [Clients -> Call] /\ Others(t) /\ Keeps(t)
             /\ Move(client[t].pc, client'[t].pc)
  <2>1. /\ client' \in [Clients -> Call] /\ client'[t] = [client[t] EXCEPT !.pc = to]
        /\ client'[t].pc = to /\ \A u \in Clients : u # t => client'[u] = client[u]
    BY <1>2, Goes
  <2>2. Others(t)
    BY <2>1 DEF Others
  <2>3. Keeps(t)
    BY <1>1, <2>1 DEF Keeps, Call
  <2> QED BY <1>2, <2>1, <2>2, <2>3
<1> USE DEF ClientAt
<1>3. CASE TestAlive(t) \/ Started(t) \/ TestRunning(t) \/ SetEvent(t)
  BY <1>2, <1>3 DEF TestAlive, Started, TestRunning, SetEvent, Move, Place
<1>4. CASE Create(t) \/ Launch(t) \/ LaunchRaises(t)
  BY <1>2, <1>4 DEF Create, Launch, LaunchRaises, Move, Place
<1>5. CASE Stopped(t) \/ BeginWipe(t) \/ Rebuild(t)
  BY <1>2, <1>5 DEF Stopped, BeginWipe, Rebuild, Move, Place
<1>6. CASE ClearEvent(t)
  <2>1. /\ client' = [u \in Clients |->
            IF u = t THEN [client[u] EXCEPT !.pc = "creating"]
            ELSE IF client[u].pc \in {"signalled", "joining"} THEN [client[u] EXCEPT !.cleared = TRUE]
            ELSE client[u]]
        /\ client[t].pc = "clearing"
    BY <1>6 DEF ClearEvent
  <2>2. \A u \in Clients : client'[u] \in Call
    BY <1>1, <2>1 DEF Call, Place
  <2>3. client' \in [Clients -> Call]
    BY <2>1, <2>2
  <2>4. Others(t)
    BY <1>1, <2>1 DEF Others, Call
  <2>5. client'[t] = [client[t] EXCEPT !.pc = "creating"]
    BY <2>1
  <2> QED BY <1>1, <2>1, <2>3, <2>4, <2>5 DEF Keeps, Call, Move
<1>7. ASSUME NEW call \in Call, client' = [client EXCEPT ![t] = call],
             call.request = client[t].request,
             call.joins \in {client[t].joins, NoLoop, thread},
             call.cleared = client[t].cleared \/ call.cleared = FALSE,
             Move(client[t].pc, call.pc)
      PROVE  /\ client' \in [Clients -> Call] /\ Others(t) /\ Keeps(t)
             /\ Move(client[t].pc, client'[t].pc)
  <2>1. client' \in [Clients -> Call] /\ client'[t] = call
    BY <1>1, <1>7
  <2>2. \A u \in Clients : u # t => client'[u] = client[u]
    BY <1>1, <1>7
  <2> QED BY <1>7, <2>1, <2>2 DEF Others, Keeps
<1>8. CASE BeginJoin(t)
  <2>1. client' = [client EXCEPT ![t] = [client[t] EXCEPT !.pc = "joining", !.joins = thread]]
    BY <1>1, <1>8 DEF BeginJoin, Call
  <2>2. [client[t] EXCEPT !.pc = "joining", !.joins = thread] \in Call /\ client[t].pc = "signalled"
    BY <1>1, <1>8 DEF BeginJoin, Call, Place
  <2> QED BY <1>1, <1>7, <2>1, <2>2 DEF Call, Move
<1>9. CASE JoinRaises(t)
  <2>1. client' = [client EXCEPT ![t] = [client[t] EXCEPT !.pc = "idle", !.cleared = FALSE]]
    BY <1>1, <1>9 DEF JoinRaises, Call
  <2>2. [client[t] EXCEPT !.pc = "idle", !.cleared = FALSE] \in Call /\ client[t].pc = "signalled"
    BY <1>1, <1>9 DEF JoinRaises, Call, Place
  <2> QED BY <1>1, <1>7, <2>1, <2>2 DEF Call, Move
<1>10. CASE Join(t)
  <2> DEFINE call == [client[t] EXCEPT !.pc = "stopped", !.joins = NoLoop, !.cleared = FALSE]
  <2>1. client' = [client EXCEPT ![t] = call]
    BY <1>1, <1>10 DEF Join, Call
  <2>2. call \in Call /\ client[t].pc = "joining"
    BY <1>1, <1>10 DEF Join, Call, Place
  <2> QED BY <1>1, <1>7, <2>1, <2>2 DEF Call, Move
<1>11. CASE DropTable(t)
  <2> DEFINE call == [client[t] EXCEPT !.dropped = @ + 1]
  <2>1. client' = [client EXCEPT ![t] = call] /\ client[t].pc = "wiping"
    BY <1>1, <1>11 DEF DropTable, Call
  <2>2. client[t].dropped + 1 \in 0 .. Len(Tables)
    BY <1>1, <1>11, TablesNamed DEF DropTable, Call
  <2>3. call \in Call
    BY <1>1, <2>2 DEF Call
  <2> QED BY <1>1, <1>7, <2>1, <2>3 DEF Call, Move
<1>12. CASE DropRaises(t)
  <2> DEFINE call == [client[t] EXCEPT !.pc = "idle", !.dropped = 0]
  <2>1. client' = [client EXCEPT ![t] = call] /\ client[t].pc = "wiping"
    BY <1>1, <1>12 DEF DropRaises, Call
  <2>2. call \in Call
    <3>1. 0 \in 0 .. Len(Tables)
      BY TablesNamed
    <3> QED BY <1>1, <3>1 DEF Call, Place
  <2> QED BY <1>1, <1>7, <2>1, <2>2 DEF Call, Move
<1>13. CASE RestoreTables(t)
  <2> DEFINE call == [client[t] EXCEPT !.pc = "rebuilding", !.dropped = 0]
  <2>1. client' = [client EXCEPT ![t] = call] /\ client[t].pc = "wiping"
    BY <1>1, <1>13 DEF RestoreTables, Call
  <2>2. call \in Call
    <3>1. 0 \in 0 .. Len(Tables)
      BY TablesNamed
    <3> QED BY <1>1, <3>1 DEF Call, Place
  <2> QED BY <1>1, <1>7, <2>1, <2>2 DEF Call, Move
<1> QED BY <1>3, <1>4, <1>5, <1>6, <1>8, <1>9, <1>10, <1>11, <1>12, <1>13 DEF ClientStep

\* A request comes in.
LEMMA Comes ==
  ASSUME LifecycleTypeOK, NEW t \in Clients, NEW r \in Request, Serve(t, r)
  PROVE  /\ client' \in [Clients -> Call]
         /\ client[t].pc = "idle" /\ client'[t].pc = (IF r = "start" THEN "testing" ELSE "stopping")
         /\ client'[t].request = r /\ client'[t].cleared = client[t].cleared
         /\ client'[t].dropped = client[t].dropped
         /\ \A u \in Clients : u # t => client'[u] = client[u]
<1>1. client \in [Clients -> Call]
  BY DEF LifecycleTypeOK, Call
<1> DEFINE call == [client[t] EXCEPT !.pc = IF r = "start" THEN "testing" ELSE "stopping",
                                     !.request = r]
<1>2. client' = [client EXCEPT ![t] = call] /\ client[t].pc = "idle"
  BY <1>1 DEF Serve, ClientAt, Call
<1>3. call \in Call /\ call.cleared = client[t].cleared /\ call.dropped = client[t].dropped
      /\ call.pc = (IF r = "start" THEN "testing" ELSE "stopping") /\ call.request = r
  BY <1>1 DEF Call, Place
<1> QED BY <1>1, <1>2, <1>3

-------------------------------------------------------------------------------
(* The life of the loop: types and threads *)

\* Every step keeps what the types say of the loops, the tables and the histories.
LEMMA ControlTypes ==
  ASSUME LifecycleTypeOK, [LifecycleNext]_lifecycleVars, ~(\E t \in Clients : Create(t))
  PROVE  /\ slowTicks' = slowTicks /\ thread' = thread /\ created' = created
         /\ loop' \in [Loop -> {"none", "created", "waiting", "ticking", "dead"}]
         /\ \A l \in Loop : loop'[l] = "none" <=> loop[l] = "none"
<1>1. /\ loop \in [Loop -> {"none", "created", "waiting", "ticking", "dead"}]
      /\ \A l \in Loop : loop[l] = "none" <=> l > created
  BY DEF LifecycleTypeOK
<1>2. ASSUME NEW t \in Clients, Launch(t)
      PROVE  /\ loop' \in [Loop -> {"none", "created", "waiting", "ticking", "dead"}]
             /\ \A l \in Loop : loop'[l] = "none" <=> loop[l] = "none"
  BY <1>1, <1>2 DEF Launch
<1>3. ASSUME NEW l \in Loop, LoopStep(l)
      PROVE  /\ loop' \in [Loop -> {"none", "created", "waiting", "ticking", "dead"}]
             /\ \A k \in Loop : loop'[k] = "none" <=> loop[k] = "none"
  BY <1>1, <1>3 DEF LoopStep, TestStop, FinishTick
<1>4. \/ UNCHANGED loop
      \/ \E t \in Clients : Launch(t)
      \/ \E l \in Loop : LoopStep(l)
  BY DEF LifecycleNext, ClientStep, Serve, TestAlive, ClearEvent, LaunchRaises, Started, TestRunning,
         SetEvent, BeginJoin, JoinRaises, Join, Stopped, BeginWipe, DropTable, DropRaises,
         RestoreTables, Rebuild, Write, control, lifecycleVars
<1>5. UNCHANGED <<slowTicks, thread, created>>
  BY DEF LifecycleNext, ClientStep, Serve, TestAlive, ClearEvent, Launch, LaunchRaises, Started,
         TestRunning, SetEvent, BeginJoin, JoinRaises, Join, Stopped, BeginWipe, DropTable,
         DropRaises, RestoreTables, Rebuild, Write, LoopStep, TestStop, FinishTick, control,
         lifecycleVars
<1> QED BY <1>1, <1>2, <1>3, <1>4, <1>5

LEMMA MissionTypes ==
  ASSUME LifecycleTypeOK, [LifecycleNext]_lifecycleVars
  PROVE  /\ begunIn' \in [Loop -> Age] /\ missing' \subseteq TableNames
         /\ rows' \in [TickTable -> SUBSET Age]
<1>1. /\ begunIn \in [Loop -> Age] /\ missing \subseteq TableNames
      /\ rows \in [TickTable -> SUBSET Age]
  BY DEF LifecycleTypeOK, TableNames
<1>2. ASSUME NEW t \in Clients, DropTable(t)
      PROVE  missing' \subseteq TableNames /\ rows' \in [TickTable -> SUBSET Age] /\ UNCHANGED begunIn
  <2>1. client[t].dropped + 1 \in 1 .. Len(Tables)
    BY <1>2, TablesNamed DEF DropTable, LifecycleTypeOK
  <2>2. missing' = missing \union {Tables[client[t].dropped + 1]}
    BY <1>2 DEF DropTable
  <2>3. rows' \in [TickTable -> SUBSET Age] /\ UNCHANGED begunIn
    BY <1>1, <1>2 DEF DropTable
  <2> QED BY <1>1, <2>1, <2>2, <2>3 DEF TableNames
<1>3. ASSUME NEW t \in Clients, Rebuild(t)
      PROVE  /\ UNCHANGED missing /\ begunIn' \in [Loop -> Age]
             /\ rows' \in [TickTable -> SUBSET Age]
  BY <1>1, <1>3 DEF Rebuild, Age
<1>4. ASSUME NEW l \in Loop, FinishTick(l)
      PROVE  UNCHANGED <<missing, rows>> /\ begunIn' \in [Loop -> Age]
  BY <1>1, <1>4 DEF FinishTick, Age
<1>5. ASSUME NEW l \in Loop, NEW b \in TickTable, Write(l, b)
      PROVE  UNCHANGED <<missing, begunIn>> /\ rows' \in [TickTable -> SUBSET Age]
  <2>1. PICK age \in {"present", begunIn[l]} :
          rows' = [rows EXCEPT ![b] = IF b = "satellite_state" THEN {age} ELSE @ \union {age}]
    BY <1>5 DEF Write
  <2>2. age \in Age
    BY <1>1 DEF Age
  <2> QED BY <1>1, <1>5, <2>1, <2>2 DEF Write
<1>6. \/ UNCHANGED mission
      \/ \E t \in Clients : DropTable(t) \/ Rebuild(t)
                            \/ (missing' = {} /\ UNCHANGED <<begunIn, rows>>)
      \/ \E l \in Loop : FinishTick(l) \/ \E b \in TickTable : Write(l, b)
  BY DEF LifecycleNext, ClientStep, Serve, TestAlive, ClearEvent, Create, Launch, LaunchRaises, Started,
         TestRunning, SetEvent, BeginJoin, JoinRaises, Join, Stopped, BeginWipe, DropRaises,
         RestoreTables, LoopStep, TestStop, mission, lifecycleVars
<1> QED BY <1>1, <1>2, <1>3, <1>4, <1>5, <1>6 DEF mission

LEMMA FlagTypes ==
  ASSUME LifecycleTypeOK, [LifecycleNext]_lifecycleVars
  PROVE  /\ slowTicks' \in BOOLEAN /\ stopEvent' \in BOOLEAN /\ brokenOff' \in BOOLEAN
         /\ rebuilt' \in BOOLEAN /\ alone' \in BOOLEAN /\ raced' \in BOOLEAN /\ overrun' \in BOOLEAN
<1>1. /\ slowTicks \in BOOLEAN /\ stopEvent \in BOOLEAN /\ brokenOff \in BOOLEAN
      /\ rebuilt \in BOOLEAN /\ alone \in BOOLEAN /\ raced \in BOOLEAN /\ overrun \in BOOLEAN
  BY DEF LifecycleTypeOK
<1>2. ASSUME NEW t \in Clients, NEW r \in Request, Serve(t, r)
      PROVE  alone' \in BOOLEAN /\ UNCHANGED <<control, brokenOff, rebuilt, raced, overrun>>
  BY <1>2 DEF Serve
<1>3. ASSUME NEW t \in Clients, TestAlive(t)
      PROVE  raced' \in BOOLEAN /\ UNCHANGED <<control, brokenOff, rebuilt, alone, overrun>>
  BY <1>3 DEF TestAlive
<1>4. ASSUME NEW t \in Clients, Launch(t)
      PROVE  /\ overrun' \in BOOLEAN
             /\ UNCHANGED <<slowTicks, stopEvent, brokenOff, rebuilt, raced, alone>>
  BY <1>4 DEF Launch
<1>5. ASSUME NEW t \in Clients, BeginWipe(t)
      PROVE  overrun' \in BOOLEAN /\ UNCHANGED <<control, brokenOff, rebuilt, raced, alone>>
  BY <1>5 DEF BeginWipe
<1>6. ASSUME NEW t \in Clients, ClearEvent(t) \/ SetEvent(t)
      PROVE  stopEvent' \in BOOLEAN /\ UNCHANGED <<slowTicks, history>>
  BY <1>6 DEF ClearEvent, SetEvent
<1>7. ASSUME NEW t \in Clients, DropRaises(t) \/ RestoreTables(t) \/ Rebuild(t)
      PROVE  /\ brokenOff' \in BOOLEAN /\ rebuilt' \in BOOLEAN
             /\ UNCHANGED <<control, alone, raced, overrun>>
  BY <1>1, <1>7 DEF DropRaises, RestoreTables, Rebuild
<1>8. \/ UNCHANGED <<slowTicks, stopEvent, history>>
      \/ \E t \in Clients : \/ \E r \in Request : Serve(t, r)
                            \/ TestAlive(t) \/ Launch(t) \/ BeginWipe(t) \/ ClearEvent(t)
                            \/ SetEvent(t) \/ DropRaises(t) \/ RestoreTables(t) \/ Rebuild(t)
  BY DEF LifecycleNext, ClientStep, Create, LaunchRaises, Started, TestRunning, BeginJoin,
         JoinRaises, Join, Stopped, DropTable, Write, LoopStep, TestStop, FinishTick, control,
         lifecycleVars
<1> QED BY <1>1, <1>2, <1>3, <1>4, <1>5, <1>6, <1>7, <1>8 DEF control, history

\* The requests that may create a thread are finitely many.
LEMMA CreatorsFinite ==
  /\ IsFiniteSet(Creators) /\ Cardinality(Creators) \in Nat
  /\ IsFiniteSet(Creators') /\ Cardinality(Creators') \in Nat
<1>1. Creators \subseteq Clients /\ Creators' \subseteq Clients
  BY DEF Creators
<1> QED BY <1>1, ClientsAssumption, FS_Subset, FS_CardinalityType

\* Every step keeps the types, and threads left for those who may create one.
LEMMA ThreadsKept ==
  ASSUME ThreadsOK, [LifecycleNext]_lifecycleVars
  PROVE  ThreadsOK'
<1>1. /\ LifecycleTypeOK /\ client \in [Clients -> Call] /\ created \in Nat /\ MaxLoops \in Nat
      /\ created + Cardinality(Creators) <= MaxLoops
      /\ thread \in Loop \union {NoLoop}
  BY MaxLoopsAssumption DEF ThreadsOK, LifecycleTypeOK, Call
<1> USE DEF ClientAt
<1>2. ASSUME client' \in [Clients -> Call],
             created' + Cardinality(Creators') <= MaxLoops,
             \A t \in Clients : client'[t].pc = "launching" => thread' \in Loop,
             \A t \in Clients : client'[t].pc \in Starting => client'[t].request # "stop",
             ~(\E t \in Clients : Create(t))
      PROVE  ThreadsOK'
  <2>1. LifecycleTypeOK'
    BY <1>1, <1>2, ControlTypes, MissionTypes, FlagTypes DEF LifecycleTypeOK, Call, TableNames
  <2> QED BY <1>2, <2>1 DEF ThreadsOK
<1>3. ASSUME NEW t \in Clients, NEW r \in Request, Serve(t, r) PROVE ThreadsOK'
  <2>1. /\ client' \in [Clients -> Call]
        /\ client[t].pc = "idle" /\ client'[t].pc = (IF r = "start" THEN "testing" ELSE "stopping")
        /\ client'[t].request = r
        /\ \A u \in Clients : u # t => client'[u] = client[u]
    BY <1>1, <1>3, Comes
  <2>2. CASE r = "stop"
    <3>1. Creators' = Creators
      BY <2>1, <2>2 DEF Creators
    <3> QED BY <1>1, <1>2, <1>3, <2>1, <2>2, <3>1 DEF Serve, control, ThreadsOK, Starting, Create
  <2>3. CASE r # "stop"
    <3>1. Creators' = Creators \union {t} /\ t \notin Creators
      BY <2>1, <2>3 DEF Creators
    <3>2. Cardinality(Creators') = Cardinality(Creators) + 1
      BY <3>1, CreatorsFinite, FS_AddElement
    <3>3. created' = created /\ thread' = thread /\ created + Cardinality(Creators) < MaxLoops
      BY <1>3, <2>3 DEF Serve, control
    <3>4. created' + Cardinality(Creators') <= MaxLoops
      BY <1>1, <3>2, <3>3, CreatorsFinite
    <3> QED BY <1>1, <1>2, <1>3, <2>1, <2>3, <3>3, <3>4 DEF Serve, ThreadsOK, Starting, Create
  <2> QED BY <2>2, <2>3
<1>4. ASSUME NEW t \in Clients, Create(t) PROVE ThreadsOK'
  <2>1. /\ client' \in [Clients -> Call] /\ Others(t) /\ Keeps(t)
        /\ client[t].pc = "creating" /\ client'[t].pc = "launching"
    BY <1>1, <1>4, Moves, Goes DEF ClientStep, Create, BeginJoin, Place
  <2>2. client[t].request # "stop"
    BY <2>1 DEF ThreadsOK, Starting
  <2>3. Creators' = Creators \ {t} /\ t \in Creators
    BY <2>1, <2>2 DEF Creators, Others
  <2>4. Cardinality(Creators') = Cardinality(Creators) - 1
    BY <2>3, CreatorsFinite, FS_RemoveElement
  <2>5. /\ created' = created + 1 /\ thread' = created + 1
        /\ loop' = [loop EXCEPT ![created + 1] = "created"]
        /\ UNCHANGED <<slowTicks, stopEvent, mission, history>>
    BY <1>4 DEF Create
  <2>6. created' \in Loop /\ created' + Cardinality(Creators') <= MaxLoops
    BY <1>1, <2>4, <2>5, CreatorsFinite DEF Loop
  <2>7. loop' \in [Loop -> {"none", "created", "waiting", "ticking", "dead"}]
    BY <1>1, <2>5 DEF LifecycleTypeOK
  <2>8. \A l \in Loop : loop'[l] = "none" <=> l > created'
    <3>1. \A l \in Loop : loop[l] = "none" <=> l > created
      BY <1>1 DEF LifecycleTypeOK
    <3>2. \A l \in Loop : loop'[l] = IF l = created + 1 THEN "created" ELSE loop[l]
      BY <1>1, <2>5 DEF LifecycleTypeOK
    <3>3. \A l \in Loop : l \in Int
      BY DEF Loop
    <3> QED BY <1>1, <2>5, <3>1, <3>2, <3>3
  <2>9. created' \in 0 .. MaxLoops /\ thread' \in Loop \union {NoLoop}
    BY <1>1, <2>5, <2>6 DEF Loop
  <2>10. LifecycleTypeOK'
    BY <1>1, <2>1, <2>7, <2>8, <2>9, MissionTypes, FlagTypes DEF LifecycleTypeOK, Call, TableNames
  <2>11. \A u \in Clients : client'[u].pc \in Starting => client'[u].request # "stop"
    BY <2>1, <2>2 DEF ThreadsOK, Others, Keeps
  <2> QED BY <2>5, <2>6, <2>10, <2>11 DEF ThreadsOK
<1>5. ASSUME NEW t \in Clients, ClientStep(t), ~(\E u \in Clients : Create(u))
      PROVE  ThreadsOK'
  <2>1. /\ client' \in [Clients -> Call] /\ Others(t) /\ Keeps(t)
        /\ Move(client[t].pc, client'[t].pc)
    BY <1>1, <1>5, Moves
  <2>2. thread' = thread /\ created' = created
    BY <1>1, <1>5, ControlTypes DEF LifecycleNext
  <2>3. client'[t].pc \in Starting => client'[t].request # "stop"
    <3>1. CASE client[t].pc \in Starting
      BY <2>1, <3>1 DEF ThreadsOK, Keeps
    <3>2. CASE client[t].pc \notin Starting /\ client'[t].pc \in Starting
      <4>1. client[t].pc = "stopped" /\ client'[t].pc = "wiping"
        BY <2>1, <3>2 DEF Move, Starting
      <4>2. client[t].request = "reset"
        <5>1. CASE Stopped(t)
          BY <1>1, <4>1, <5>1, Goes DEF Stopped, Place
        <5>2. CASE BeginWipe(t)
          BY <5>2 DEF BeginWipe
        <5> QED BY <1>5, <4>1, <5>1, <5>2 DEF ClientStep, TestAlive, ClearEvent, Launch, LaunchRaises,
                Started, TestRunning, SetEvent, BeginJoin, JoinRaises, Join, DropTable,
                DropRaises, RestoreTables, Rebuild
      <4> QED BY <2>1, <4>2 DEF Keeps
    <3> QED BY <3>1, <3>2
  <2>4. Creators' \subseteq Creators
    BY <2>1 DEF Creators, Others, Keeps, Move
  <2>5. Cardinality(Creators') <= Cardinality(Creators)
    BY <2>4, CreatorsFinite, FS_Subset
  <2>6. created' + Cardinality(Creators') <= MaxLoops
    BY <1>1, <2>2, <2>5, CreatorsFinite
  <2>7. client'[t].pc # "launching" \/ client[t].pc = "creating"
    BY <2>1 DEF Move
  <2>8. client[t].pc = "creating" => client'[t].pc # "launching"
    BY <1>5 DEF ClientStep, TestAlive, ClearEvent, Launch, LaunchRaises, Started,
           TestRunning, SetEvent, BeginJoin, JoinRaises, Join, Stopped, BeginWipe, DropTable,
           DropRaises, RestoreTables, Rebuild
  <2> QED BY <1>2, <1>5, <2>1, <2>2, <2>3, <2>6, <2>7, <2>8 DEF ThreadsOK, Others
<1>6. CASE UNCHANGED client /\ ~(\E u \in Clients : Create(u))
  <2>1. thread' = thread /\ created' = created /\ Creators' = Creators
    BY <1>1, <1>6, ControlTypes DEF Creators
  <2> QED BY <1>1, <1>2, <1>6, <2>1 DEF ThreadsOK
<1>7. ASSUME NEW t \in Clients, ClientStep(t) PROVE ThreadsOK'
  BY <1>4, <1>5, <1>7
<1>8. ASSUME UNCHANGED client PROVE ThreadsOK'
  BY <1>4, <1>6, <1>8
<1> QED BY <1>3, <1>7, <1>8
        DEF LifecycleNext, LoopStep, TestStop, FinishTick, Write, control, lifecycleVars

-------------------------------------------------------------------------------
(* The life of the loop: tables and loops *)

\* In a new process no request is under way and no thread exists.
LEMMA LifecycleInitially == LifecycleInit => LifecycleInv
<1> SUFFICES ASSUME LifecycleInit PROVE LifecycleInv
  OBVIOUS
<1>1. /\ client \in [Clients -> Call] /\ rows \in [TickTable -> SUBSET Age]
      /\ \A t \in Clients : client[t] = NoRequest
  BY TablesNamed DEF LifecycleInit, NoRequest, Call, Place, Request, NoLoop, Age
<1>2. Cardinality(Creators) = 0
  <2>1. Creators = {}
    BY <1>1 DEF Creators, NoRequest
  <2> QED BY <2>1, FS_EmptySet
<1>3. LifecycleTypeOK
  <2>1. loop \in [Loop -> {"none", "created", "waiting", "ticking", "dead"}]
        /\ (\A l \in Loop : loop[l] = "none" <=> l > created) /\ created \in 0 .. MaxLoops
    BY MaxLoopsAssumption DEF LifecycleInit, Loop
  <2> QED BY <1>1, <2>1 DEF LifecycleInit, LifecycleTypeOK, Call, Age
<1>4. ThreadsOK
  BY <1>1, <1>2, <1>3, MaxLoopsAssumption
     DEF LifecycleInit, ThreadsOK, ClientAt, NoRequest, Starting
<1>5. NoneAlive
  BY DEF LifecycleInit, NoneAlive, Alive
<1>6. TablesOK /\ LoopOK /\ AloneOK
  BY <1>1, <1>5 DEF LifecycleInit, TablesOK, LoopOK, AloneOK, InStart, ClientAt, NoRequest, NoneAlive
<1>7. QuickOK /\ MissionOK
  BY <1>1, <1>5 DEF LifecycleInit, QuickOK, MissionOK, InReset, ClientAt, NoRequest
<1> QED BY <1>4, <1>6, <1>7 DEF LifecycleInv

\* Who drops a table either restores all of them or is broken off.
LEMMA TablesKept ==
  ASSUME LifecycleTypeOK, TablesOK, [LifecycleNext]_lifecycleVars
  PROVE  TablesOK'
<1>1. ASSUME NEW t \in Clients, ClientStep(t) PROVE TablesOK'
  <2>1. Others(t) /\ Move(client[t].pc, client'[t].pc) /\ client' \in [Clients -> Call]
    BY <1>1, Moves
  <2>2. CASE DropRaises(t) \/ RestoreTables(t)
    <3>1. client'[t].dropped = 0
      BY <2>2 DEF DropRaises, RestoreTables, LifecycleTypeOK
    <3>2. missing' = {} \/ brokenOff'
      BY <2>2 DEF DropRaises, RestoreTables
    <3> QED BY <2>1, <3>1, <3>2 DEF TablesOK, Others, ClientAt
  <2>3. CASE DropTable(t)
    <3>1. client[t].pc = "wiping" /\ client'[t].pc = "wiping"
      BY <2>3 DEF DropTable, ClientAt, LifecycleTypeOK
    <3> QED BY <2>1, <3>1 DEF TablesOK, ClientAt, Others
  <2>4. CASE ~(DropRaises(t) \/ RestoreTables(t) \/ DropTable(t))
    <3>1. missing' = missing /\ brokenOff' = brokenOff /\ client[t].pc # "wiping"
      BY <1>1, <2>4 DEF ClientStep, TestAlive, ClearEvent, Create, Launch, LaunchRaises, Started,
         TestRunning, SetEvent, BeginJoin, JoinRaises, Join, Stopped, BeginWipe, Rebuild, ClientAt,
         mission, history
    <3>2. ASSUME NEW place \in Place, Goto(t, place)
          PROVE  client'[t].dropped = client[t].dropped
      <4>1. client'[t] = [client[t] EXCEPT !.pc = place] /\ client[t] \in Call
        BY <3>2, Goes DEF LifecycleTypeOK, Call
      <4> QED BY <4>1 DEF Call
    <3>3. ASSUME \/ TestAlive(t) \/ Create(t) \/ Launch(t) \/ LaunchRaises(t) \/ Started(t)
                 \/ TestRunning(t) \/ SetEvent(t) \/ Stopped(t) \/ BeginWipe(t) \/ Rebuild(t)
          PROVE  client'[t].dropped = client[t].dropped
      BY <3>2, <3>3 DEF TestAlive, Create, Launch, LaunchRaises, Started, TestRunning, SetEvent,
         Stopped, BeginWipe, Rebuild, Place
    <3>4. ASSUME ClearEvent(t) \/ BeginJoin(t) \/ JoinRaises(t) \/ Join(t)
          PROVE  client'[t].dropped = client[t].dropped
      BY <3>4 DEF ClearEvent, BeginJoin, JoinRaises, Join, LifecycleTypeOK
    <3>5. client'[t].dropped = client[t].dropped
      BY <1>1, <2>4, <3>3, <3>4 DEF ClientStep
    <3> QED BY <2>1, <3>1, <3>5 DEF TablesOK, ClientAt, Others
  <2> QED BY <2>2, <2>3, <2>4
<1>2. ASSUME NEW t \in Clients, NEW r \in Request, Serve(t, r) PROVE TablesOK'
  <2>1. /\ client[t].pc = "idle" /\ client'[t].dropped = client[t].dropped
        /\ \A u \in Clients : u # t => client'[u] = client[u]
    BY <1>2, Comes
  <2>2. missing' = missing /\ brokenOff' = brokenOff
    BY <1>2 DEF Serve, mission
  <2> QED BY <2>1, <2>2 DEF TablesOK, ClientAt
<1>3. CASE UNCHANGED <<client, missing, brokenOff>>
  BY <1>3 DEF TablesOK, ClientAt
<1> QED BY <1>1, <1>2, <1>3
        DEF LifecycleNext, LoopStep, TestStop, FinishTick, Write, lifecycleVars, mission, history

\* No step of a request but Create and Launch touches a loop, and no step of a loop
\* brings one to life.
LEMMA LoopsStay ==
  ASSUME LifecycleTypeOK, [LifecycleNext]_lifecycleVars,
         ~(\E t \in Clients : Create(t) \/ Launch(t))
  PROVE  /\ thread' = thread
         /\ \A l \in Loop : /\ Alive(l)' => Alive(l)
                            /\ loop'[l] = "created" <=> loop[l] = "created"
<1>1. thread' = thread
  BY ControlTypes
<1>2. ASSUME NEW l \in Loop, LoopStep(l)
      PROVE  \A k \in Loop : /\ Alive(k)' => Alive(k)
                             /\ loop'[k] = "created" <=> loop[k] = "created"
  BY <1>2 DEF LoopStep, TestStop, FinishTick, Alive, LifecycleTypeOK
<1>3. \/ UNCHANGED loop
      \/ \E l \in Loop : LoopStep(l)
  BY DEF LifecycleNext, ClientStep, Serve, TestAlive, ClearEvent, LaunchRaises, Started, TestRunning,
         SetEvent, BeginJoin, JoinRaises, Join, Stopped, BeginWipe, DropTable, DropRaises,
         RestoreTables, Rebuild, Write, control, lifecycleVars
<1> QED BY <1>1, <1>2, <1>3 DEF Alive

\* A loop lives for the thread of the attribute only, and in no start, unless two
\* requests have raced.
LEMMA LoopKept ==
  ASSUME ThreadsOK, LoopOK, [LifecycleNext]_lifecycleVars
  PROVE  LoopOK'
<1> SUFFICES ASSUME ~raced'
             PROVE  /\ \A l \in Loop : Alive(l)' => l = thread'
                    /\ \A t \in Clients : InStart(t)' => NoneAlive'
                    /\ \A t, u \in Clients : (InStart(t)' /\ InStart(u)') => t = u
                    /\ \A t \in Clients : ClientAt(t, "launching")' => loop'[thread'] = "created"
  BY DEF LoopOK
<1>1. LifecycleTypeOK /\ thread \in Loop \union {NoLoop} /\ NoLoop \notin Loop
  BY DEF ThreadsOK, LifecycleTypeOK, Loop, NoLoop
<1>2. ~raced
  BY DEF LifecycleNext, ClientStep, Serve, TestAlive, ClearEvent, Create, Launch, LaunchRaises, Started,
         TestRunning, SetEvent, BeginJoin, JoinRaises, Join, Stopped, BeginWipe, DropTable,
         DropRaises, RestoreTables, Rebuild, Write, LoopStep, TestStop, FinishTick, history,
         lifecycleVars
<1>3. /\ \A l \in Loop : Alive(l) => l = thread
      /\ \A t \in Clients : InStart(t) => NoneAlive
      /\ \A t, u \in Clients : (InStart(t) /\ InStart(u)) => t = u
      /\ \A t \in Clients : ClientAt(t, "launching") => loop[thread] = "created"
  BY <1>2 DEF LoopOK
<1>4. ASSUME NEW t \in Clients, TestAlive(t),
             ~ThreadAlive
      PROVE  /\ NoneAlive /\ \A u \in Clients : ~InStart(u)
             /\ UNCHANGED control /\ client'[t].pc = "clearing"
             /\ \A u \in Clients : u # t => client'[u] = client[u]
  <2>1. raced' = (raced \/ \E u \in Clients : InStart(u))
    BY <1>4 DEF TestAlive
  <2>2. NoneAlive
    BY <1>1, <1>3, <1>4 DEF NoneAlive, ThreadAlive
  <2>3. Goto(t, "clearing") /\ UNCHANGED control
    BY <1>4 DEF TestAlive
  <2> QED BY <1>1, <2>1, <2>2, <2>3, Goes DEF Place
<1>5. ASSUME NEW t \in Clients, TestAlive(t), ~ThreadAlive
      PROVE  /\ \A l \in Loop : Alive(l)' => l = thread'
             /\ \A u \in Clients : InStart(u)' => NoneAlive'
             /\ \A u, v \in Clients : (InStart(u)' /\ InStart(v)') => u = v
             /\ \A u \in Clients : ClientAt(u, "launching")' => loop'[thread'] = "created"
  BY <1>3, <1>4, <1>5 DEF InStart, ClientAt, NoneAlive, Alive, control
<1>6. ASSUME NEW t \in Clients, Create(t)
      PROVE  /\ \A l \in Loop : Alive(l)' => l = thread'
             /\ \A u \in Clients : InStart(u)' => NoneAlive'
             /\ \A u, v \in Clients : (InStart(u)' /\ InStart(v)') => u = v
             /\ \A u \in Clients : ClientAt(u, "launching")' => loop'[thread'] = "created"
  <2>1. /\ InStart(t) /\ client'[t].pc = "launching"
        /\ \A u \in Clients : u # t => client'[u] = client[u]
    BY <1>1, <1>6, Goes DEF Create, ClientAt, InStart, Place
  <2>2. /\ thread' = created + 1 /\ loop' = [loop EXCEPT ![created + 1] = "created"]
    BY <1>6 DEF Create
  <2>3. NoneAlive /\ \A u \in Clients : InStart(u) => u = t
    BY <1>3, <2>1
  <2>4. thread' \in Loop
    BY <2>1, ThreadsKept DEF ThreadsOK, ClientAt
  <2>5. loop'[thread'] = "created" /\ \A l \in Loop : l # thread' => loop'[l] = loop[l]
    BY <1>1, <2>2, <2>4 DEF LifecycleTypeOK
  <2>6. NoneAlive'
    BY <2>3, <2>5 DEF NoneAlive, Alive
  <2> QED BY <2>1, <2>3, <2>5, <2>6 DEF InStart, NoneAlive
<1>7. ASSUME NEW t \in Clients, Launch(t)
      PROVE  /\ \A l \in Loop : Alive(l)' => l = thread'
             /\ \A u \in Clients : InStart(u)' => NoneAlive'
             /\ \A u, v \in Clients : (InStart(u)' /\ InStart(v)') => u = v
             /\ \A u \in Clients : ClientAt(u, "launching")' => loop'[thread'] = "created"
  <2>1. /\ InStart(t) /\ client'[t].pc = "started"
        /\ \A u \in Clients : u # t => client'[u] = client[u]
    BY <1>1, <1>7, Goes DEF Launch, ClientAt, InStart, Place
  <2>2. thread' = thread /\ loop' = [loop EXCEPT ![thread] = "waiting"]
    BY <1>7 DEF Launch
  <2>3. NoneAlive /\ \A u \in Clients : InStart(u) => u = t
    BY <1>3, <2>1
  <2>4. \A l \in Loop : l # thread => loop'[l] = loop[l]
    BY <2>2, <1>1 DEF LifecycleTypeOK
  <2>5. \A u \in Clients : ~InStart(u)'
    BY <2>1, <2>3 DEF InStart
  <2> QED BY <2>2, <2>3, <2>4, <2>5 DEF InStart, NoneAlive, Alive, ClientAt
<1>8. ASSUME ~(\E t \in Clients : Create(t) \/ Launch(t) \/ (TestAlive(t) /\ ~ThreadAlive))
      PROVE  \A u \in Clients :
               /\ InStart(u)' => InStart(u)
               /\ ClientAt(u, "launching")' => ClientAt(u, "launching")
  <2>1. ASSUME NEW t \in Clients, ClientStep(t)
        PROVE  \A u \in Clients :
                 /\ InStart(u)' => InStart(u)
                 /\ ClientAt(u, "launching")' => ClientAt(u, "launching")
    <3>1. Others(t) /\ Move(client[t].pc, client'[t].pc)
      BY <1>1, <2>1, Moves
    <3>2. CASE client[t].pc \in {"testing", "creating", "clearing"}
      <4>1. TestAlive(t) /\ ThreadAlive => client'[t].pc = "started"
        BY <1>1, Goes DEF TestAlive, Place
      <4>2. ClearEvent(t) => client[t].pc = "clearing" /\ client'[t].pc = "creating"
        BY <1>1 DEF ClearEvent, ClientAt, LifecycleTypeOK
      <4>3. (TestAlive(t) /\ ThreadAlive) \/ ClearEvent(t)
        BY <1>8, <2>1, <3>2 DEF ClientStep, Launch, LaunchRaises, Started, TestRunning, SetEvent,
           BeginJoin, JoinRaises, Join, Stopped, BeginWipe, DropTable, DropRaises, RestoreTables,
           Rebuild, ClientAt
      <4> QED BY <3>1, <4>1, <4>2, <4>3 DEF Others, InStart, ClientAt
    <3>3. CASE client[t].pc \notin {"testing", "creating", "clearing"}
      BY <3>1, <3>3 DEF Others, Move, InStart, ClientAt
    <3> QED BY <3>2, <3>3
  <2>2. ASSUME NEW t \in Clients, NEW r \in Request, Serve(t, r)
        PROVE  \A u \in Clients :
                 /\ InStart(u)' => InStart(u)
                 /\ ClientAt(u, "launching")' => ClientAt(u, "launching")
    BY <1>1, <2>2, Comes DEF InStart, ClientAt
  <2>3. CASE UNCHANGED client
    BY <2>3 DEF InStart, ClientAt
  <2> QED BY <2>1, <2>2, <2>3
        DEF LifecycleNext, LoopStep, TestStop, FinishTick, Write, lifecycleVars
<1>9. ASSUME ~(\E t \in Clients : Create(t) \/ Launch(t) \/ (TestAlive(t) /\ ~ThreadAlive))
      PROVE  /\ \A l \in Loop : Alive(l)' => l = thread'
             /\ \A u \in Clients : InStart(u)' => NoneAlive'
             /\ \A u, v \in Clients : (InStart(u)' /\ InStart(v)') => u = v
             /\ \A u \in Clients : ClientAt(u, "launching")' => loop'[thread'] = "created"
  <2>1. /\ thread' = thread
        /\ \A l \in Loop : /\ Alive(l)' => Alive(l)
                           /\ loop'[l] = "created" <=> loop[l] = "created"
    BY <1>1, <1>9, LoopsStay
  <2>2. NoneAlive => NoneAlive'
    BY <2>1 DEF NoneAlive
  <2>3. \A u \in Clients : ClientAt(u, "launching") => thread \in Loop
    BY DEF ThreadsOK
  <2> QED BY <1>3, <1>8, <1>9, <2>1, <2>2, <2>3
<1> QED BY <1>5, <1>6, <1>7, <1>9

-------------------------------------------------------------------------------
(* The life of the loop: requests that come one after the other *)

LEMMA AloneKept ==
  ASSUME LifecycleTypeOK, AloneOK, [LifecycleNext]_lifecycleVars
  PROVE  AloneOK'
<1> SUFFICES ASSUME alone' PROVE AloneOK'
  BY DEF AloneOK
<1>1. alone
  BY DEF LifecycleNext, ClientStep, Serve, TestAlive, ClearEvent, Create, Launch, LaunchRaises, Started,
         TestRunning, SetEvent, BeginJoin, JoinRaises, Join, Stopped, BeginWipe, DropTable,
         DropRaises, RestoreTables, Rebuild, Write, LoopStep, TestStop, FinishTick, history,
         lifecycleVars
<1>2. /\ ~raced
      /\ \A t, u \in Clients : ClientAt(t, "idle") \/ ClientAt(u, "idle") \/ t = u
      /\ \A t \in Clients : ~client[t].cleared
      /\ \A t \in Clients : ClientAt(t, "joining") => client[t].joins = thread
  BY <1>1 DEF AloneOK
<1> USE DEF ClientAt
<1>3. ASSUME NEW t \in Clients, ClientStep(t) PROVE AloneOK'
  <2>1. Others(t) /\ Keeps(t) /\ Move(client[t].pc, client'[t].pc)
    BY <1>3, Moves
  <2>2. \A u \in Clients : u # t => client[u].pc = "idle" /\ client'[u].pc = "idle"
    BY <1>2, <2>1 DEF Move, Others
  <2>3. \A u \in Clients : ~client'[u].cleared
    BY <1>2, <2>1, <2>2 DEF Others, Keeps
  <2>4. ~raced'
    <3>1. CASE TestAlive(t)
      BY <1>2, <2>2, <3>1 DEF TestAlive, InStart
    <3>2. CASE ~TestAlive(t)
      BY <1>2, <1>3, <3>2 DEF ClientStep, ClearEvent, Create, Launch, LaunchRaises, Started,
         TestRunning, SetEvent, BeginJoin, JoinRaises, Join, Stopped, BeginWipe, DropTable,
         DropRaises, RestoreTables, Rebuild, history
    <3> QED BY <3>1, <3>2
  <2>5. client'[t].pc = "joining" => client'[t].joins = thread'
    <3>1. CASE BeginJoin(t)
      BY <3>1 DEF BeginJoin, control, LifecycleTypeOK
    <3>2. CASE ~BeginJoin(t)
      <4>1. client[t].pc # "signalled" \/ client'[t].pc # "joining"
        BY <1>3, <3>2 DEF ClientStep, TestAlive, ClearEvent, Create, Launch, LaunchRaises, Started,
           TestRunning, SetEvent, JoinRaises, Join, Stopped, BeginWipe, DropTable, DropRaises,
           RestoreTables, Rebuild, LifecycleTypeOK
      <4> QED BY <2>1, <4>1 DEF Move
    <3> QED BY <3>1, <3>2
  <2> QED BY <2>2, <2>3, <2>4, <2>5 DEF AloneOK
<1>4. ASSUME NEW t \in Clients, NEW r \in Request, Serve(t, r) PROVE AloneOK'
  <2>1. /\ client[t].pc = "idle" /\ client'[t].pc # "joining" /\ client'[t].cleared = client[t].cleared
        /\ \A u \in Clients : u # t => client'[u] = client[u]
    BY <1>4, Comes
  <2>2. (\A u \in Clients : client[u].pc = "idle") /\ raced' = raced
    BY <1>4 DEF Serve
  <2> QED BY <1>2, <2>1, <2>2 DEF AloneOK
<1>5. CASE UNCHANGED <<client, thread, raced>>
  BY <1>2, <1>5 DEF AloneOK
<1> QED BY <1>3, <1>4, <1>5
        DEF LifecycleNext, LoopStep, TestStop, FinishTick, Write, lifecycleVars, control, history

\* What holds of one request at a time if ticks end before join gives up
LEMMA QuickKept ==
  ASSUME ThreadsOK, LoopOK, AloneOK, QuickOK, [LifecycleNext]_lifecycleVars
  PROVE  QuickOK'
<1> SUFFICES ASSUME alone', ~slowTicks' PROVE QuickOK'
  BY DEF QuickOK
<1>1. alone /\ slowTicks' = slowTicks
  BY DEF LifecycleNext, ClientStep, Serve, TestAlive, ClearEvent, Create, Launch, LaunchRaises, Started,
         TestRunning, SetEvent, BeginJoin, JoinRaises, Join, Stopped, BeginWipe, DropTable,
         DropRaises, RestoreTables, Rebuild, Write, LoopStep, TestStop, FinishTick, history, control,
         lifecycleVars
<1>2. LifecycleTypeOK /\ ~slowTicks /\ thread \in Loop \union {NoLoop} /\ NoLoop \notin Loop
  BY <1>1 DEF ThreadsOK, LifecycleTypeOK, Loop, NoLoop
<1>3. /\ ~raced
      /\ \A t, u \in Clients : ClientAt(t, "idle") \/ ClientAt(u, "idle") \/ t = u
      /\ \A t \in Clients : ~client[t].cleared
      /\ \A t \in Clients : ClientAt(t, "joining") => client[t].joins = thread
  BY <1>1 DEF AloneOK
<1>4. /\ ~overrun
      /\ stopEvent => NoneAlive \/ \E t \in Clients : client[t].pc \in {"signalled", "joining"}
      /\ \A t \in Clients :
           /\ client[t].pc \in {"creating", "launching", "started"} => ~stopEvent
           /\ ClientAt(t, "started") => ThreadAlive
           /\ client[t].pc \in {"stopped", "wiping", "rebuilding"} => NoneAlive
  BY <1>1, <1>2 DEF QuickOK
<1>5. /\ \A l \in Loop : Alive(l) => l = thread
      /\ ~ThreadAlive => NoneAlive
  BY <1>2, <1>3 DEF LoopOK, NoneAlive, ThreadAlive
<1> USE DEF ClientAt
<1>6. ASSUME NEW t \in Clients, ClientStep(t) PROVE QuickOK'
  <2>1. Others(t) /\ Keeps(t) /\ Move(client[t].pc, client'[t].pc)
    BY <1>2, <1>6, Moves
  <2>2. \A u \in Clients : u # t => client[u].pc = "idle" /\ client'[u].pc = "idle"
    BY <1>3, <2>1 DEF Move, Others
  <2>3. SUFFICES /\ ~overrun'
                 /\ stopEvent' => NoneAlive' \/ client'[t].pc \in {"signalled", "joining"}
                 /\ client'[t].pc \in {"creating", "launching", "started"} => ~stopEvent'
                 /\ client'[t].pc = "started" => ThreadAlive'
                 /\ client'[t].pc \in {"stopped", "wiping", "rebuilding"} => NoneAlive'
    BY <2>2 DEF QuickOK
  <2>4. \A place \in Place : Goto(t, place) => client'[t].pc = place
    BY <1>2, Goes
  <2>5. UNCHANGED control => (NoneAlive' <=> NoneAlive) /\ (ThreadAlive' <=> ThreadAlive)
    BY DEF control, NoneAlive, ThreadAlive, Alive
  <2>6. CASE TestAlive(t)
    <3>1. UNCHANGED control /\ overrun' = overrun /\ client[t].pc = "testing"
      BY <2>6 DEF TestAlive
    <3>2. client'[t].pc = (IF ThreadAlive THEN "started" ELSE "clearing")
      BY <2>4, <2>6 DEF TestAlive, Place
    <3>3. ThreadAlive => ~NoneAlive
      BY <1>2 DEF ThreadAlive, NoneAlive
    <3>4. stopEvent => NoneAlive
      BY <1>4, <2>2, <3>1
    <3>5. stopEvent' = stopEvent
      BY <3>1 DEF control
    <3> QED BY <1>4, <2>5, <3>1, <3>2, <3>3, <3>4, <3>5
  <2>7. CASE ClearEvent(t)
    <3>1. client'[t].pc = "creating" /\ ~stopEvent' /\ overrun' = overrun
      BY <1>2, <2>7 DEF ClearEvent, LifecycleTypeOK, history
    <3> QED BY <1>4, <3>1
  <2>8. CASE Create(t)
    <3>1. client'[t].pc = "launching" /\ client[t].pc = "creating" /\ stopEvent' = stopEvent
          /\ overrun' = overrun
      BY <2>4, <2>8 DEF Create, Place, history
    <3> QED BY <1>4, <3>1
  <2>9. CASE Launch(t)
    <3>1. client'[t].pc = "started" /\ client[t].pc = "launching" /\ stopEvent' = stopEvent
      BY <2>4, <2>9 DEF Launch, Place
    <3>2. ~overrun'
      <4>1. ~(\E u \in Clients : InReset(u))
        BY <2>2, <3>1 DEF InReset
      <4> QED BY <1>4, <2>9, <4>1 DEF Launch
    <3>3. thread \in Loop
      BY <3>1 DEF ThreadsOK
    <3>4. ThreadAlive'
      BY <1>2, <2>9, <3>3 DEF Launch, ThreadAlive, Alive, LifecycleTypeOK
    <3> QED BY <1>4, <3>1, <3>2, <3>4
  <2>10. CASE SetEvent(t)
    <3>1. client'[t].pc = "signalled" /\ overrun' = overrun
      BY <2>4, <2>10 DEF SetEvent, Place, history
    <3> QED BY <1>4, <3>1
  <2>11. CASE BeginJoin(t)
    <3>1. client'[t].pc = "joining" /\ overrun' = overrun
      BY <1>2, <2>11 DEF BeginJoin, LifecycleTypeOK, history
    <3> QED BY <1>4, <3>1
  <2>12. CASE JoinRaises(t)
    <3>1. client'[t].pc = "idle" /\ overrun' = overrun /\ UNCHANGED control
      BY <1>2, <2>12 DEF JoinRaises, LifecycleTypeOK, history
    <3>2. NoneAlive
      BY <1>5, <2>12 DEF JoinRaises, NoneAlive, Alive
    <3> QED BY <1>4, <2>5, <3>1, <3>2
  <2>13. CASE Join(t)
    <3>1. client'[t].pc = "stopped" /\ overrun' = overrun /\ UNCHANGED control
      BY <1>2, <2>13 DEF Join, LifecycleTypeOK, history
    <3>2. ~Alive(thread)
      BY <1>2, <1>3, <2>13 DEF Join, TimedOut
    <3>3. NoneAlive
      BY <1>5, <3>2 DEF NoneAlive
    <3> QED BY <1>4, <2>5, <3>1, <3>3
  <2>14. CASE TestRunning(t)
    <3>1. client'[t].pc \in {"signalling", "stopped"} /\ overrun' = overrun /\ UNCHANGED control
          /\ client[t].pc = "stopping"
      BY <2>4, <2>14 DEF TestRunning, Place, history
    <3>2. client'[t].pc = "stopped" => NoneAlive
      BY <1>5, <2>4, <2>14 DEF TestRunning, Place
    <3>3. stopEvent => NoneAlive
      BY <1>4, <2>2, <3>1
    <3>4. stopEvent' = stopEvent
      BY <3>1 DEF control
    <3> QED BY <1>4, <2>5, <3>1, <3>2, <3>3, <3>4
  <2>15. CASE BeginWipe(t)
    <3>1. client'[t].pc = "wiping" /\ UNCHANGED control /\ client[t].pc = "stopped"
      BY <2>4, <2>15 DEF BeginWipe, Place
    <3>2. NoneAlive
      BY <1>4, <3>1
    <3>3. ~overrun'
      BY <1>4, <2>15, <3>2 DEF BeginWipe, NoneAlive
    <3> QED BY <2>5, <3>1, <3>2, <3>3
  <2>16. CASE LaunchRaises(t) \/ Started(t) \/ Stopped(t)
    <3>1. client'[t].pc = "idle" /\ client[t].pc \in {"launching", "started", "stopped"}
      BY <2>4, <2>16 DEF LaunchRaises, Started, Stopped, Place
    <3>2. UNCHANGED control /\ overrun' = overrun
      BY <2>16 DEF LaunchRaises, Started, Stopped, history
    <3>3. stopEvent => NoneAlive
      BY <1>4, <2>2, <3>1
    <3>4. stopEvent' = stopEvent
      BY <3>2 DEF control
    <3> QED BY <1>4, <2>5, <3>1, <3>2, <3>3, <3>4
  <2>17. CASE DropTable(t) \/ DropRaises(t) \/ RestoreTables(t) \/ Rebuild(t)
    <3>1. client[t].pc \in {"wiping", "rebuilding"} /\ UNCHANGED control /\ overrun' = overrun
      BY <2>17 DEF DropTable, DropRaises, RestoreTables, Rebuild, history
    <3>2. NoneAlive
      BY <1>4, <3>1
    <3>3. client'[t].pc \notin {"creating", "launching", "started"}
      BY <2>1, <3>1 DEF Move
    <3> QED BY <1>4, <2>5, <3>1, <3>2, <3>3
  <2> QED BY <1>6, <2>6, <2>7, <2>8, <2>9, <2>10, <2>11, <2>12, <2>13, <2>14, <2>15, <2>16, <2>17
          DEF ClientStep
<1>7. ASSUME NEW t \in Clients, NEW r \in Request, Serve(t, r) PROVE QuickOK'
  <2>1. /\ client'[t].pc \in {"testing", "stopping"} /\ client[t].pc = "idle"
        /\ \A u \in Clients : u # t => client'[u] = client[u]
    BY <1>2, <1>7, Comes
  <2>2. UNCHANGED control /\ overrun' = overrun
    BY <1>7 DEF Serve
  <2>3. stopEvent' = stopEvent /\ (NoneAlive' <=> NoneAlive) /\ (ThreadAlive' <=> ThreadAlive)
    BY <2>2 DEF control, NoneAlive, ThreadAlive, Alive
  <2>4. \A u \in Clients : client[u].pc # "idle" => client'[u] = client[u]
    BY <2>1
  <2>5. stopEvent' => NoneAlive' \/ \E u \in Clients : client'[u].pc \in {"signalled", "joining"}
    BY <1>4, <2>3, <2>4
  <2>6. ASSUME NEW u \in Clients
        PROVE  /\ client'[u].pc \in {"creating", "launching", "started"} => ~stopEvent'
               /\ client'[u].pc = "started" => ThreadAlive'
               /\ client'[u].pc \in {"stopped", "wiping", "rebuilding"} => NoneAlive'
    BY <1>4, <2>1, <2>3
  <2> QED BY <1>4, <2>2, <2>5, <2>6 DEF QuickOK
<1>8. ASSUME NEW l \in Loop, LoopStep(l) PROVE QuickOK'
  <2>1. UNCHANGED <<client, thread, stopEvent, overrun>>
    BY <1>8 DEF LoopStep, TestStop, FinishTick, history
  <2>2. NoneAlive => NoneAlive'
    BY <1>2, <1>8 DEF LoopStep, TestStop, FinishTick, NoneAlive, Alive, LifecycleTypeOK
  <2>3. (~stopEvent /\ ThreadAlive) => ThreadAlive'
    BY <1>2, <1>8 DEF LoopStep, TestStop, FinishTick, ThreadAlive, Alive, LifecycleTypeOK
  <2>4. ASSUME NEW u \in Clients
        PROVE  /\ client'[u].pc \in {"creating", "launching", "started"} => ~stopEvent'
               /\ client'[u].pc = "started" => ThreadAlive'
               /\ client'[u].pc \in {"stopped", "wiping", "rebuilding"} => NoneAlive'
    BY <1>4, <2>1, <2>2, <2>3
  <2>5. stopEvent' => NoneAlive' \/ \E u \in Clients : client'[u].pc \in {"signalled", "joining"}
    BY <1>4, <2>1, <2>2
  <2> QED BY <1>4, <2>1, <2>4, <2>5 DEF QuickOK
<1>9. CASE UNCHANGED <<client, thread, stopEvent, loop, overrun>>
  <2>1. (NoneAlive' <=> NoneAlive) /\ (ThreadAlive' <=> ThreadAlive)
    BY <1>9 DEF NoneAlive, ThreadAlive, Alive
  <2> QED BY <1>4, <1>9, <2>1 DEF QuickOK
<1> QED BY <1>6, <1>7, <1>8, <1>9 DEF LifecycleNext, Write, lifecycleVars, control, history

-------------------------------------------------------------------------------
(* The life of the loop: the missions in the tables *)

\* Unless a loop runs in the middle of a reset, its tables stay empty and what is
\* written later is of the mission it starts.
LEMMA MissionKept ==
  ASSUME ThreadsOK, TablesOK, MissionOK, [LifecycleNext]_lifecycleVars
  PROVE  MissionOK'
<1> SUFFICES ASSUME ~overrun' PROVE MissionOK'
  BY DEF MissionOK
<1>1. LifecycleTypeOK /\ loop \in [Loop -> {"none", "created", "waiting", "ticking", "dead"}]
      /\ begunIn \in [Loop -> Age] /\ rows \in [TickTable -> SUBSET Age]
      /\ client \in [Clients -> Call]
  BY DEF ThreadsOK, LifecycleTypeOK, Call
<1>2. ~overrun
  BY DEF LifecycleNext, ClientStep, Serve, TestAlive, ClearEvent, Create, Launch, LaunchRaises, Started,
         TestRunning, SetEvent, BeginJoin, JoinRaises, Join, Stopped, BeginWipe, DropTable,
         DropRaises, RestoreTables, Rebuild, Write, LoopStep, TestStop, FinishTick, history,
         lifecycleVars
<1>3. /\ \A t \in Clients : InReset(t) => NoneAlive
      /\ \A t \in Clients : ClientAt(t, "wiping") =>
           \A i \in 1 .. client[t].dropped : Tables[i] \in TickTable => rows[Tables[i]] = {}
      /\ \A t \in Clients : ClientAt(t, "rebuilding") => \A b \in TickTable : rows[b] = {}
      /\ \A l \in Loop : begunIn[l] = "present"
      /\ rebuilt => \A b \in TickTable : rows[b] \subseteq {"present"}
  BY <1>2 DEF MissionOK
<1> USE DEF ClientAt
<1>4. NoneAlive => \A l \in Loop : loop[l] \notin {"waiting", "ticking"}
  BY DEF NoneAlive, Alive
<1>5. ASSUME NEW t \in Clients, BeginWipe(t) PROVE MissionOK'
  <2>1. client' \in [Clients -> Call] /\ client'[t].pc = "wiping"
        /\ client'[t].dropped = client[t].dropped
        /\ \A u \in Clients : u # t => client'[u] = client[u]
    <3>1. client'[t] = [client[t] EXCEPT !.pc = "wiping"]
      BY <1>1, <1>5, Goes DEF BeginWipe, Place
    <3>2. client'[t].dropped = client[t].dropped
      BY <1>1, <3>1 DEF Call
    <3> QED BY <1>1, <1>5, <3>2, Goes DEF BeginWipe, Place
  <2>2. client[t].dropped = 0
    BY <1>5 DEF BeginWipe, TablesOK
  <2>3. NoneAlive'
    BY <1>5 DEF BeginWipe, NoneAlive, Alive, control
  <2>4. UNCHANGED <<begunIn, rows, rebuilt>>
    BY <1>5 DEF BeginWipe, mission
  <2>5. \A i \in 1 .. client'[t].dropped : FALSE
    BY <2>1, <2>2
  <2> QED BY <1>3, <2>1, <2>3, <2>4, <2>5 DEF MissionOK
<1>6. ASSUME NEW t \in Clients, Launch(t) PROVE MissionOK'
  <2>1. client'[t].pc = "started" /\ \A u \in Clients : u # t => client'[u] = client[u]
    BY <1>1, <1>6, Goes DEF Launch, Place
  <2>2. client[t].pc = "launching" /\ \A u \in Clients : ~InReset(u)
    BY <1>6 DEF Launch
  <2>3. \A u \in Clients : ~InReset(u)'
    BY <2>1, <2>2 DEF InReset
  <2>4. UNCHANGED <<begunIn, rows, rebuilt>>
    BY <1>6 DEF Launch, mission
  <2> QED BY <1>3, <2>3, <2>4 DEF MissionOK, InReset
<1>7. ASSUME NoneAlive => NoneAlive',
             \A u \in Clients : InReset(u)' => (InReset(u) /\ client'[u].pc = client[u].pc
                                                  /\ client'[u].dropped = client[u].dropped),
             \A b \in TickTable : rows'[b] = rows[b] \/ ~NoneAlive,
             \A l \in Loop : begunIn'[l] = "present",
             rebuilt' => \A b \in TickTable : rows'[b] \subseteq {"present"}
      PROVE  MissionOK'
  <2>1. \A u \in Clients : InReset(u)' => NoneAlive /\ NoneAlive'
    BY <1>3, <1>7
  <2>2. \A u \in Clients : InReset(u)' => \A b \in TickTable : rows'[b] = rows[b]
    BY <1>7, <2>1
  <2>3. ASSUME NEW u \in Clients, client'[u].pc = "wiping",
               NEW i \in 1 .. client'[u].dropped, Tables[i] \in TickTable
        PROVE  rows'[Tables[i]] = {}
    BY <1>3, <1>7, <2>2, <2>3 DEF InReset
  <2>4. ASSUME NEW u \in Clients, client'[u].pc = "rebuilding", NEW b \in TickTable
        PROVE  rows'[b] = {}
    BY <1>3, <1>7, <2>2, <2>4 DEF InReset
  <2> QED BY <1>7, <2>1, <2>3, <2>4 DEF MissionOK
<1>8. ASSUME NEW t \in Clients, NEW r \in Request, Serve(t, r) PROVE MissionOK'
  <2>1. /\ client'[t].pc \in {"testing", "stopping"}
        /\ \A u \in Clients : u # t => client'[u] = client[u]
    BY <1>1, <1>8, Comes
  <2>2. UNCHANGED <<begunIn, rows, rebuilt, loop>>
    BY <1>8 DEF Serve, mission, control
  <2> QED BY <1>3, <1>7, <2>1, <2>2 DEF InReset, NoneAlive, Alive
<1>9. ASSUME NEW t \in Clients, DropTable(t) PROVE MissionOK'
  <2>1. /\ client' = [client EXCEPT ![t].dropped = @ + 1] /\ client[t].pc = "wiping"
        /\ client[t].dropped < Len(Tables)
    BY <1>9 DEF DropTable
  <2>2. /\ client'[t].pc = "wiping" /\ client'[t].dropped = client[t].dropped + 1
        /\ \A u \in Clients : u # t => client'[u] = client[u]
    BY <1>1, <2>1 DEF Call
  <2>3. \A b \in TickTable :
          /\ rows'[b] = {} \/ rows'[b] = rows[b]
          /\ b = Tables[client[t].dropped + 1] => rows'[b] = {}
    BY <1>9 DEF DropTable
  <2>4. UNCHANGED <<begunIn, rebuilt, loop>>
    BY <1>9 DEF DropTable, control, history
  <2>5. NoneAlive'
    BY <1>3, <2>1, <2>4 DEF InReset, NoneAlive, Alive
  <2>6. ASSUME NEW u \in Clients, client'[u].pc = "wiping",
               NEW i \in 1 .. client'[u].dropped, Tables[i] \in TickTable
        PROVE  rows'[Tables[i]] = {}
    <3>1. CASE i \in 1 .. client[u].dropped
      <4>1. client[u].pc = "wiping"
        BY <2>1, <2>2, <2>6
      <4> QED BY <1>3, <2>3, <2>6, <3>1, <4>1
    <3>2. CASE i \notin 1 .. client[u].dropped
      <4>1. u = t
        BY <2>2, <2>6, <3>2
      <4>2. client[t].dropped \in Nat
        BY <1>1, TablesNamed DEF Call
      <4>3. i = client[t].dropped + 1
        BY <2>2, <2>6, <3>2, <4>1, <4>2
      <4> QED BY <2>3, <2>6, <4>1, <4>3
    <3> QED BY <3>1, <3>2
  <2>7. ASSUME NEW u \in Clients, client'[u].pc = "rebuilding", NEW b \in TickTable
        PROVE  rows'[b] = {}
    <3>1. client[u].pc = "rebuilding"
      BY <2>2, <2>7
    <3> QED BY <1>3, <2>3, <2>7, <3>1
  <2> QED BY <1>3, <2>3, <2>4, <2>5, <2>6, <2>7 DEF MissionOK
<1>10. ASSUME NEW t \in Clients, RestoreTables(t) PROVE MissionOK'
  <2>1. /\ client' = [client EXCEPT ![t].pc = "rebuilding", ![t].dropped = 0]
        /\ client[t].pc = "wiping" /\ client[t].dropped = Len(Tables)
    BY <1>10 DEF RestoreTables
  <2>2. /\ client'[t].pc = "rebuilding"
        /\ \A u \in Clients : u # t => client'[u] = client[u]
    BY <1>1, <2>1 DEF Call
  <2>3. UNCHANGED <<begunIn, rebuilt, loop, rows>>
    BY <1>10 DEF RestoreTables, control
  <2>4. NoneAlive /\ NoneAlive'
    BY <1>3, <2>1, <2>3 DEF InReset, NoneAlive, Alive
  <2>5. \A i \in 1 .. 5 : Tables[i] \in TickTable => rows[Tables[i]] = {}
    BY <1>3, <2>1, TablesNamed
  <2>6. \A b \in TickTable : rows[b] = {}
    BY <2>5, TablesNamed DEF TickTable
  <2> QED BY <1>3, <2>2, <2>3, <2>4, <2>6 DEF MissionOK
<1>11. ASSUME NEW t \in Clients, Rebuild(t) PROVE MissionOK'
  <2>1. /\ client'[t].pc = "testing"
        /\ \A u \in Clients : u # t => client'[u] = client[u]
    BY <1>1, <1>11, Goes DEF Rebuild, Place
  <2>2. NoneAlive /\ \A b \in TickTable : rows[b] = {}
    BY <1>3, <1>11 DEF Rebuild, InReset
  <2>3. (\A b \in TickTable : rows'[b] = {}) /\ loop' = loop
    BY <1>11, <2>2 DEF Rebuild, control
  <2>4. \A l \in Loop : begunIn'[l] = "present"
    BY <1>4, <1>11, <2>2 DEF Rebuild
  <2>5. NoneAlive'
    BY <2>2, <2>3 DEF NoneAlive, Alive
  <2> QED BY <1>7, <2>1, <2>2, <2>3, <2>4, <2>5 DEF InReset
<1>12. ASSUME NEW t \in Clients, DropRaises(t) PROVE MissionOK'
  <2>1. /\ client' = [client EXCEPT ![t].pc = "idle", ![t].dropped = 0]
        /\ UNCHANGED <<begunIn, rows, rebuilt, loop>>
    BY <1>12 DEF DropRaises, control, mission
  <2>2. client'[t].pc = "idle" /\ \A u \in Clients : u # t => client'[u] = client[u]
    BY <1>1, <2>1 DEF Call
  <2> QED BY <1>3, <1>7, <2>1, <2>2 DEF InReset, NoneAlive, Alive
<1>13. ASSUME NEW t \in Clients,
              \/ TestAlive(t) \/ ClearEvent(t) \/ Create(t) \/ LaunchRaises(t) \/ Started(t)
              \/ TestRunning(t) \/ SetEvent(t) \/ BeginJoin(t) \/ JoinRaises(t) \/ Join(t)
              \/ Stopped(t)
       PROVE  MissionOK'
  <2>1. Others(t) /\ Move(client[t].pc, client'[t].pc)
    BY <1>1, <1>13, Moves DEF ClientStep
  <2>2. client[t].pc \notin {"wiping", "rebuilding"}
        /\ UNCHANGED <<begunIn, rows, rebuilt>>
    BY <1>13 DEF TestAlive, ClearEvent, Create, LaunchRaises, Started, TestRunning, SetEvent, BeginJoin,
       JoinRaises, Join, Stopped, mission, history
  <2>3. client'[t].pc \notin {"wiping", "rebuilding"}
    <3>1. CASE client[t].pc = "stopped"
      <4>1. Stopped(t)
        BY <1>13, <3>1 DEF TestAlive, ClearEvent, Create, LaunchRaises, Started, TestRunning, SetEvent,
           BeginJoin, JoinRaises, Join
      <4> QED BY <1>1, <4>1, Goes DEF Stopped, Place
    <3>2. CASE client[t].pc # "stopped"
      BY <2>1, <2>2, <3>2 DEF Move
    <3> QED BY <3>1, <3>2
  <2>4. \A u \in Clients : InReset(u)' => (InReset(u) /\ client'[u].pc = client[u].pc
                                             /\ client'[u].dropped = client[u].dropped)
    BY <2>1, <2>2, <2>3 DEF InReset, Others
  <2>5. NoneAlive => NoneAlive'
    <3>1. CASE Create(t)
      BY <1>1, <3>1 DEF Create, NoneAlive, Alive
    <3>2. CASE UNCHANGED loop
      BY <3>2 DEF NoneAlive, Alive
    <3> QED BY <1>13, <3>1, <3>2 DEF TestAlive, ClearEvent, LaunchRaises, Started, TestRunning,
            SetEvent, BeginJoin, JoinRaises, Join, Stopped, control
  <2> QED BY <1>3, <1>7, <2>2, <2>4, <2>5
<1>14. ASSUME NEW l \in Loop, LoopStep(l) PROVE MissionOK'
  <2>1. UNCHANGED <<client, rows, rebuilt>>
    BY <1>14 DEF LoopStep, TestStop, FinishTick, mission, history
  <2>2. NoneAlive => NoneAlive'
    BY <1>1, <1>14 DEF LoopStep, TestStop, FinishTick, NoneAlive, Alive
  <2>3. \A k \in Loop : begunIn'[k] = "present"
    BY <1>1, <1>3, <1>14 DEF LoopStep, TestStop, FinishTick, mission
  <2> QED BY <1>3, <1>7, <2>1, <2>2, <2>3 DEF InReset
<1>15. ASSUME NEW l \in Loop, NEW b \in TickTable, Write(l, b) PROVE MissionOK'
  <2>1. UNCHANGED <<client, loop, begunIn, rebuilt>> /\ loop[l] = "ticking"
    BY <1>15 DEF Write, control, history
  <2>2. ~NoneAlive
    BY <2>1 DEF NoneAlive, Alive
  <2>3. rows' = [rows EXCEPT ![b] = IF b = "satellite_state" THEN {"present"} ELSE @ \union {"present"}]
    BY <1>3, <1>15 DEF Write
  <2>4. rebuilt' => \A c \in TickTable : rows'[c] \subseteq {"present"}
    BY <1>1, <1>3, <2>1, <2>3
  <2> QED BY <1>3, <1>7, <2>1, <2>2, <2>4 DEF InReset
<1>16. CASE UNCHANGED lifecycleVars
  <2>1. UNCHANGED <<client, loop, begunIn, rows, rebuilt>>
    BY <1>16 DEF lifecycleVars, control, mission, history
  <2> QED BY <1>3, <1>7, <2>1 DEF InReset, NoneAlive, Alive
<1> QED BY <1>5, <1>6, <1>8, <1>9, <1>10, <1>11, <1>12, <1>13, <1>14, <1>15, <1>16
        DEF LifecycleNext, ClientStep

-------------------------------------------------------------------------------
(* The life of the loop: theorems *)

(***************************************************************************)
(* The inductive invariant of the runner's life, for any clients whose     *)
(* requests overlap in any way: which thread may be alive and when, who    *)
(* has dropped tables, and which missions the tables have rows of.         *)
(***************************************************************************)
THEOREM LifecycleInvariance == LifecycleSpec => []LifecycleInv
<1>1. LifecycleInit => LifecycleInv
  BY LifecycleInitially
<1>2. LifecycleInv /\ [LifecycleNext]_lifecycleVars => LifecycleInv'
  <2> SUFFICES ASSUME LifecycleInv, [LifecycleNext]_lifecycleVars PROVE LifecycleInv'
    OBVIOUS
  <2>1. LifecycleTypeOK /\ ThreadsOK /\ TablesOK /\ LoopOK /\ AloneOK /\ QuickOK /\ MissionOK
    BY DEF LifecycleInv, ThreadsOK
  <2> QED BY <2>1, ThreadsKept, TablesKept, LoopKept, AloneKept, QuickKept, MissionKept
          DEF LifecycleInv
<1> QED BY <1>1, <1>2, PTL DEF LifecycleSpec

(***************************************************************************)
(* Requests, threads and tables stay well formed, and no more threads are  *)
(* created than requests were let in for, whatever clients do together.    *)
(***************************************************************************)
THEOREM LifecycleTypeCorrectness == LifecycleSpec => []LifecycleTypeOK
<1>1. LifecycleInv => LifecycleTypeOK
  BY DEF LifecycleInv, ThreadsOK
<1> QED BY <1>1, LifecycleInvariance, PTL

(***************************************************************************)
(* StartedMeansOneLoop: however many clients start, stop and reset at the  *)
(* same time and however long ticks take, there are two loops only if two  *)
(* requests have been between start's test and its launch at once; and     *)
(* requests that come one after the other are told "running" of a loop     *)
(* that runs and that nobody has told to stop.                             *)
(***************************************************************************)
THEOREM OneLoop == LifecycleSpec => []StartedMeansOneLoop
<1>1. LifecycleInv => StartedMeansOneLoop
  <2> SUFFICES ASSUME LifecycleInv PROVE StartedMeansOneLoop
    OBVIOUS
  <2>1. ~raced => \A k, l \in Loop : (Alive(k) /\ Alive(l)) => k = l
    BY DEF LifecycleInv, LoopOK
  <2>2. (alone /\ ~slowTicks) =>
          \A t \in Clients : ClientAt(t, "started") => ThreadAlive /\ ~stopEvent
    BY DEF LifecycleInv, QuickOK, ClientAt
  <2> QED BY <2>1, <2>2 DEF StartedMeansOneLoop
<1> QED BY <1>1, LifecycleInvariance, PTL

(***************************************************************************)
(* ResetLeavesOneMission: whatever overlaps and whatever an earlier        *)
(* process left in the database, after a reset the tables hold the present *)
(* mission alone unless a loop has run in the middle of one, which         *)
(* requests that come one after the other and short ticks rule out; and    *)
(* tables stay away only when a SELECT has broken a reset off.             *)
(***************************************************************************)
THEOREM OneMission == LifecycleSpec => []ResetLeavesOneMission
<1>1. LifecycleInv => ResetLeavesOneMission
  <2> SUFFICES ASSUME LifecycleInv PROVE ResetLeavesOneMission
    OBVIOUS
  <2>1. (alone /\ ~slowTicks) => ~overrun
    BY DEF LifecycleInv, QuickOK
  <2>2. (rebuilt /\ ~overrun) => \A b \in TickTable : rows[b] \subseteq {"present"}
    BY DEF LifecycleInv, MissionOK
  <2>3. missing # {} => brokenOff \/ \E t \in Clients : InReset(t)
    BY DEF LifecycleInv, TablesOK, InReset, ClientAt
  <2> QED BY <2>1, <2>2, <2>3 DEF ResetLeavesOneMission
<1> QED BY <1>1, LifecycleInvariance, PTL
===============================================================================
