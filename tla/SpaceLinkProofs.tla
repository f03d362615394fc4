---------------------------- MODULE SpaceLinkProofs ----------------------------
(***************************************************************************)
(* Theorems about the link in time, for any number of API threads, any     *)
(* latencies and any bandwidth: every frame is accounted for, and threads  *)
(* that do not meet in the link lose nothing and reorder nothing.          *)
(***************************************************************************)
EXTENDS SpaceLink, FiniteSetTheorems, TLAPS

-------------------------------------------------------------------------------
(* The invariant *)

\* The threads that have a frame in their hands.
Holders == {t \in Thread : call[t].op = "transmit" /\ call[t].pc \notin {"none", "sifting"}}

Finite == IsFiniteSet(pending) /\ IsFiniteSet(Holders)

\* Only transmit schedules; the simulation thread transmits in two places of
\* its tick.
CallPlaces ==
  /\ \A t \in Thread : call[t].pc \in {"scheduled", "sifting"} => call[t].op = "transmit"
  /\ call["sim"].pc # "none" => tick.pc \in {"sending", "delivering"}

Books ==
  counts["transmitted"] =
    counts["lost"] + counts["delivered"] + Cardinality(pending) + Held + destroyed

\* fetch_due was called with a time that has come.
UntilHasCome == tick.until <= now

\* Threads that have never met in the link: nobody's iteration or comparison
\* has been disturbed, and the list is a heap.
Apart ==
  /\ destroyed = 0 /\ abandoned = 0 /\ ordered
  /\ \A t, u \in ApiThreads : ~At(t, "none") /\ ~At(u, "none") => t = u
  /\ tick.pc # "idle" => \A t \in ApiThreads : At(t, "none")
  /\ \A t \in Thread :
       /\ ~At(t, "spoiled")
       /\ At(t, "sifting") => call[t].size = Cardinality(pending)
  /\ tick.pc = "popping" => tick.size = Cardinality(pending)

BaseInv == TypeOK /\ Finite /\ CallPlaces /\ UntilHasCome

Inv == BaseInv /\ Books /\ (~disturbed => Apart)

-------------------------------------------------------------------------------
(* What a step does to the call of its thread *)

CallType ==
  [pc : {"none", "pruning", "summing", "spoiled", "scheduled", "sifting"},
   op : {"transmit", "statistics"}, at : Nat, due : Nat, size : Nat]

TickType ==
  [pc : {"idle", "sending", "fetching", "popping", "delivering"},
   left : Nat, until : Nat, size : Nat]

\* A function changed at one place.
LEMMA Changed ==
  ASSUME NEW S, NEW T, NEW f \in [S -> T], NEW x \in S, NEW v \in T
  PROVE  /\ [f EXCEPT ![x] = v] \in [S -> T]
         /\ [f EXCEPT ![x] = v][x] = v
         /\ \A y \in S : y # x => [f EXCEPT ![x] = v][y] = f[y]
  OBVIOUS

\* Only the call of t changes.
OnlyCall(t) ==
  /\ call' \in [Thread -> CallType]
  /\ \A u \in Thread : u # t => call'[u] = call[u]

\* The call of t stays, and calls that sum may be spoiled.
OnlySpoils(t) ==
  /\ call' \in [Thread -> CallType]
  /\ \A u \in Thread :
       /\ call'[u].op = call[u].op /\ call'[u].size = call[u].size
       /\ \/ call'[u].pc = call[u].pc
          \/ u # t /\ call[u].pc = "summing" /\ call'[u].pc = "spoiled"

\* No call is a call of the right type.
LEMMA NoCallType == NoCall \in CallType /\ NoCall.pc = "none" /\ NoCall.op = "transmit"
  BY DEF NoCall, CallType

\* The timing parameters are numbers.
LEMMA Timing ==
  /\ Second \in Nat \ {0} /\ Bandwidth \in Nat \ {0}
  /\ Latency \in Nat /\ Jitter \in Nat
  BY TimingAssumption

\* Ending a call.
LEMMA EndCallDoes ==
  ASSUME TypeOK, NEW t \in Thread, call' = [call EXCEPT ![t] = NoCall]
  PROVE  OnlyCall(t) /\ call'[t].pc = "none" /\ call'[t].op = "transmit"
  BY NoCallType, Changed DEF OnlyCall, TypeOK, CallType

\* statistics begins.
LEMMA StatisticsDoes ==
  ASSUME TypeOK, NEW t \in Thread, Statistics(t)
  PROVE  OnlyCall(t) /\ call[t].pc = "none" /\ call'[t].pc = "pruning"
         /\ call'[t].op = "statistics"
<1>1. PICK v \in CallType : v = NoCall
  BY NoCallType
<1>2. PICK w : w = [v EXCEPT !.pc = "pruning", !.op = "statistics", !.at = now]
  OBVIOUS
<1>3. w \in CallType /\ w.pc = "pruning" /\ w.op = "statistics"
  BY <1>2 DEF CallType, TypeOK
<1>4. call' = [call EXCEPT ![t] = w] /\ call \in [Thread -> CallType] /\ call[t].pc = "none"
  BY <1>1, <1>2 DEF Statistics, TypeOK, CallType, At
<1> QED
  BY <1>3, <1>4, Changed DEF OnlyCall

\* transmit: the frame is lost at once, or the call goes on.
LEMMA TransmitDoes ==
  ASSUME TypeOK, NEW t \in Thread, Transmit(t)
  PROVE  /\ counts' \in [Counter -> Nat]
         /\ counts'["transmitted"] = counts["transmitted"] + 1
         /\ counts'["delivered"] = counts["delivered"]
         /\ \/ counts'["lost"] = counts["lost"] + 1 /\ call' = call
            \/ /\ counts'["lost"] = counts["lost"]
               /\ OnlyCall(t) /\ call'[t].pc = "pruning" /\ call'[t].op = "transmit"
<1>0. counts \in [Counter -> Nat] /\ now \in Nat /\ {"transmitted", "lost", "delivered"} = Counter
  BY DEF TypeOK, Counter
<1>1. CASE counts' = [counts EXCEPT !["transmitted"] = @ + 1, !["lost"] = @ + 1] /\ call' = call
  BY <1>0, <1>1
<1>2. CASE /\ counts' = [counts EXCEPT !["transmitted"] = @ + 1]
           /\ \E latency \in Latency .. Latency + Jitter :
                call' = [call EXCEPT ![t] = [NoCall EXCEPT !.pc = "pruning", !.at = now,
                                                          !.due = now + latency]]
  <2>1. PICK latency \in Latency .. Latency + Jitter :
          call' = [call EXCEPT ![t] = [NoCall EXCEPT !.pc = "pruning", !.at = now,
                                                    !.due = now + latency]]
    BY <1>2
  <2>2. now + latency \in Nat
    BY <1>0, Timing
  <2>3. PICK v \in CallType : v = NoCall
    BY NoCallType
  <2>4. PICK w : w = [v EXCEPT !.pc = "pruning", !.at = now, !.due = now + latency]
    OBVIOUS
  <2>5. w \in CallType /\ w.pc = "pruning" /\ w.op = "transmit"
    BY <1>0, <2>2, <2>3, <2>4, NoCallType DEF CallType
  <2>6. call' = [call EXCEPT ![t] = w] /\ call \in [Thread -> CallType]
    BY <2>1, <2>3, <2>4 DEF TypeOK, CallType
  <2>7. OnlyCall(t) /\ call'[t].pc = "pruning" /\ call'[t].op = "transmit"
    BY <2>5, <2>6, Changed DEF OnlyCall
  <2> QED
    BY <1>0, <1>2, <2>7
<1> QED
  BY <1>1, <1>2 DEF Transmit

\* Adding to the window or taking from it spoils the sums of others.
LEMMA SpoiledDoes ==
  ASSUME TypeOK, NEW t \in Thread, call' = Spoiled(call, t)
  PROVE  OnlySpoils(t)
<1>1. call \in [Thread -> CallType]
  BY DEF TypeOK, CallType
<1>2. ASSUME NEW u \in Thread
      PROVE  /\ call'[u] \in CallType
             /\ call'[u].op = call[u].op /\ call'[u].size = call[u].size
             /\ \/ call'[u].pc = call[u].pc
                \/ u # t /\ call[u].pc = "summing" /\ call'[u].pc = "spoiled"
  <2>1. PICK v \in CallType : v = call[u]
    BY <1>1
  <2>2. PICK w : w = [v EXCEPT !.pc = "spoiled"]
    OBVIOUS
  <2>3. w \in CallType /\ w.op = v.op /\ w.size = v.size /\ w.pc = "spoiled"
    BY <2>2 DEF CallType
  <2>4. call'[u] = IF u # t /\ call[u].pc = "summing" THEN w ELSE v
    BY <2>1, <2>2 DEF Spoiled
  <2> QED
    BY <2>1, <2>3, <2>4
<1>3. call' = [u \in Thread |-> call'[u]]
  BY DEF Spoiled
<1> QED
  BY <1>2, <1>3 DEF OnlySpoils

\* The sum begins.
LEMMA BeginSumDoes ==
  ASSUME TypeOK, NEW t \in Thread, BeginSum(t)
  PROVE  /\ OnlyCall(t) /\ call[t].pc = "pruning" /\ call'[t].pc = "summing"
         /\ call'[t].op = call[t].op
<1>1. call \in [Thread -> CallType]
  BY DEF TypeOK, CallType
<1>2. PICK v \in CallType : v = call[t]
  BY <1>1
<1>3. PICK w : w = [v EXCEPT !.pc = "summing"]
  OBVIOUS
<1>4. w \in CallType /\ w.op = v.op /\ w.pc = "summing"
  BY <1>3 DEF CallType
<1>5. call' = [call EXCEPT ![t] = w] /\ call[t].pc = "pruning"
  BY <1>1, <1>2, <1>3 DEF BeginSum, At
<1> QED
  BY <1>1, <1>2, <1>4, <1>5, Changed DEF OnlyCall

\* The bandwidth gives a time.
LEMMA ShapingDueType ==
  ASSUME TypeOK, NEW t \in Thread
  PROVE  ShapingDue(t) \in Nat
<1>1. call[t].at \in Nat /\ Len(window) \in Nat
  BY DEF TypeOK
<1>2. ASSUME NEW x \in Nat PROVE (x * Second) \div Bandwidth \in Nat
  <2>1. x * Second \in Nat
    BY Timing
  <2> QED
    BY <2>1, Timing
<1>3. CASE Len(window) + 1 <= Bandwidth
  BY <1>3 DEF ShapingDue
<1>4. CASE ~(Len(window) + 1 <= Bandwidth)
  <2>1. PICK x \in Nat : x = Len(window) + 1 - Bandwidth
    BY <1>1, <1>4, Timing
  <2>2. PICK y \in Nat : y = (x * Second) \div Bandwidth
    BY <1>2
  <2>3. ShapingDue(t) = call[t].at + y
    BY <1>4, <2>1, <2>2 DEF ShapingDue
  <2> QED
    BY <1>1, <2>3
<1> QED
  BY <1>3, <1>4

\* The sum ends: statistics answers, transmit goes on to the list.
LEMMA EndSumDoes ==
  ASSUME TypeOK, NEW t \in Thread, EndSum(t)
  PROVE  /\ OnlyCall(t) /\ call[t].pc = "summing"
         /\ \/ call[t].op = "statistics" /\ call'[t].pc = "none"
            \/ call[t].op = "transmit" /\ call'[t].pc = "scheduled" /\ call'[t].op = "transmit"
<1>1. call \in [Thread -> CallType]
  BY DEF TypeOK, CallType
<1>2. PICK v \in CallType : v = call[t]
  BY <1>1
<1>3. call[t].pc = "summing" /\ call[t].op \in {"transmit", "statistics"}
  BY <1>1 DEF EndSum, At, CallType
<1>4. CASE call[t].op = "statistics"
  <2>1. call' = [call EXCEPT ![t] = NoCall]
    BY <1>4 DEF EndSum
  <2> QED
    BY <1>3, <1>4, <2>1, EndCallDoes
<1>5. CASE call[t].op = "transmit"
  <2>1. PICK d \in Nat : d = ShapingDue(t)
    BY ShapingDueType
  <2>2. PICK e \in Nat : e = IF v.due < d THEN d ELSE v.due
    BY DEF CallType
  <2>3. PICK w : w = [v EXCEPT !.pc = "scheduled", !.at = 0, !.due = e]
    OBVIOUS
  <2>4. w \in CallType /\ w.op = v.op /\ w.pc = "scheduled"
    BY <2>3 DEF CallType
  <2>5. call' = [call EXCEPT ![t] = w]
    BY <1>1, <1>2, <1>5, <2>1, <2>2, <2>3 DEF EndSum
  <2> QED
    BY <1>1, <1>2, <1>3, <1>5, <2>4, <2>5, Changed DEF OnlyCall
<1> QED
  BY <1>3, <1>4, <1>5

\* The frame is put into the list.
LEMMA BeginPushDoes ==
  ASSUME TypeOK, Finite, NEW t \in Thread, BeginPush(t)
  PROVE  /\ OnlyCall(t) /\ call[t].pc = "scheduled"
         /\ \/ call'[t].pc = "none"
            \/ /\ call'[t].pc = "sifting" /\ call'[t].op = call[t].op
               /\ call'[t].size = Cardinality(pending')
         /\ IsFiniteSet(pending') /\ Cardinality(pending') = Cardinality(pending) + 1
         /\ seq \in Nat /\ seq' = seq + 1
         /\ pending' \subseteq [due : Nat, seq : 1 .. seq']
         /\ \A f, g \in pending' : f.seq = g.seq => f = g
<1>1. call \in [Thread -> CallType] /\ seq \in Nat
  BY DEF TypeOK, CallType
<1>2. PICK v \in CallType : v = call[t]
  BY <1>1
<1>3. PICK f : f = [due |-> v.due, seq |-> seq + 1]
  OBVIOUS
<1>4. pending' = pending \union {f} /\ seq' = seq + 1 /\ call[t].pc = "scheduled"
  BY <1>2, <1>3 DEF BeginPush, At
<1>5. f \in [due : Nat, seq : 1 .. seq + 1] /\ f.seq = seq + 1
  BY <1>1, <1>3 DEF CallType
<1>6. \A g \in pending : g \in [due : Nat, seq : 1 .. seq + 1] /\ g.seq # seq + 1
  BY <1>1 DEF TypeOK
<1>7. f \notin pending
  BY <1>5, <1>6
<1>8. IsFiniteSet(pending') /\ Cardinality(pending') = Cardinality(pending) + 1
      /\ Cardinality(pending') \in Nat
  BY <1>4, <1>7, FS_AddElement, FS_CardinalityType DEF Finite
<1>9. /\ OnlyCall(t)
      /\ \/ call'[t].pc = "none"
         \/ /\ call'[t].pc = "sifting" /\ call'[t].op = call[t].op
            /\ call'[t].size = Cardinality(pending')
  <2>1. CASE pending = {}
    <3>1. call' = [call EXCEPT ![t] = NoCall]
      BY <2>1 DEF BeginPush
    <3> QED
      BY <3>1, EndCallDoes
  <2>2. CASE pending # {}
    <3>1. PICK n \in Nat : n = Cardinality(pending')
      BY <1>8
    <3>2. PICK w : w = [v EXCEPT !.pc = "sifting", !.due = 0, !.size = n]
      OBVIOUS
    <3>3. w \in CallType /\ w.op = v.op /\ w.pc = "sifting" /\ w.size = n
      BY <3>2 DEF CallType
    <3>4. call' = [call EXCEPT ![t] = w]
      BY <1>2, <2>2, <3>1, <3>2 DEF BeginPush
    <3> QED
      BY <1>1, <1>2, <3>1, <3>3, <3>4, Changed DEF OnlyCall
  <2> QED
    BY <2>1, <2>2
<1>10. \A g, h \in pending' : g.seq = h.seq => g = h
  BY <1>4, <1>5, <1>6 DEF TypeOK
<1> QED
  BY <1>1, <1>4, <1>5, <1>6, <1>8, <1>9, <1>10

-------------------------------------------------------------------------------
(* What a step of the tick does to the tick *)

\* No tick is a tick of the right type.
LEMMA NoTickType ==
  /\ NoTick \in TickType /\ NoTick.pc = "idle"
  /\ NoTick.left = 0 /\ NoTick.until = 0 /\ NoTick.size = 0
  BY DEF NoTick, TickType

\* A tick begins.
LEMMA BeginTickDoes ==
  ASSUME TypeOK, BeginTick
  PROVE  /\ tick' \in TickType /\ tick'.pc = "sending" /\ tick'.until = 0
         /\ tick.pc = "idle" /\ At("sim", "none")
<1>1. PICK n \in 0 .. MaxBatch : tick' = [NoTick EXCEPT !.pc = "sending", !.left = n]
  BY DEF BeginTick
<1>2. n \in Nat
  BY BoundsAssumption
<1>3. PICK v \in TickType : v = NoTick
  BY NoTickType
<1>4. PICK w : w = [v EXCEPT !.pc = "sending", !.left = n]
  OBVIOUS
<1>5. w \in TickType /\ w.pc = "sending" /\ w.until = 0
  BY <1>2, <1>3, <1>4, NoTickType DEF TickType
<1> QED
  BY <1>1, <1>3, <1>4, <1>5 DEF BeginTick, SimAt

\* A record is transmitted.
LEMMA SendRecordDoes ==
  ASSUME TypeOK, SendRecord
  PROVE  /\ tick' \in TickType /\ tick.pc = "sending" /\ tick'.pc = "sending"
         /\ tick'.until = tick.until /\ At("sim", "none")
<1>1. tick \in TickType
  BY DEF TypeOK, TickType
<1>2. PICK v \in TickType : v = tick
  BY <1>1
<1>3. PICK w : w = [v EXCEPT !.left = v.left - 1]
  OBVIOUS
<1>4. v.left - 1 \in Nat
  BY <1>2 DEF SendRecord, TickType
<1>5. w \in TickType /\ w.pc = v.pc /\ w.until = v.until
  BY <1>3, <1>4 DEF TickType
<1> QED
  BY <1>2, <1>3, <1>5 DEF SendRecord, SimAt

\* fetch_due is called.
LEMMA BeginFetchDoes ==
  ASSUME TypeOK, BeginFetch
  PROVE  /\ tick' \in TickType /\ tick.pc = "sending" /\ tick'.pc = "fetching"
         /\ tick'.until = now /\ At("sim", "none")
<1>1. tick \in TickType /\ now \in Nat
  BY DEF TypeOK, TickType
<1>2. PICK v \in TickType : v = tick
  BY <1>1
<1>3. PICK w : w = [v EXCEPT !.pc = "fetching", !.until = now]
  OBVIOUS
<1>4. w \in TickType /\ w.pc = "fetching" /\ w.until = now
  BY <1>1, <1>3 DEF TickType
<1> QED
  BY <1>2, <1>3, <1>4 DEF BeginFetch, SimAt

\* A frame is taken out of the list.
LEMMA BeginPopDoes ==
  ASSUME TypeOK, Finite, NEW f, BeginPop(f)
  PROVE  /\ tick' \in TickType /\ tick.pc = "fetching" /\ tick'.pc \in {"popping", "delivering"}
         /\ tick'.until = tick.until /\ tick'.size = Cardinality(pending') /\ At("sim", "none")
         /\ f \in pending /\ pending' = pending \ {f}
         /\ IsFiniteSet(pending') /\ Cardinality(pending') = Cardinality(pending) - 1
<1>1. tick \in TickType
  BY DEF TypeOK, TickType
<1>2. PICK v \in TickType : v = tick
  BY <1>1
<1>3. f \in pending /\ pending' = pending \ {f}
  BY DEF BeginPop, Heads
<1>4. IsFiniteSet(pending') /\ Cardinality(pending') = Cardinality(pending) - 1
      /\ Cardinality(pending') \in Nat
  BY <1>3, FS_RemoveElement, FS_CardinalityType DEF Finite
<1>5. PICK n \in Nat : n = Cardinality(pending')
  BY <1>4
<1>6. PICK place \in {"popping", "delivering"} :
        place = IF n < 2 THEN "delivering" ELSE "popping"
  OBVIOUS
<1>7. PICK w : w = [v EXCEPT !.size = n, !.pc = place]
  OBVIOUS
<1>8. w \in TickType /\ w.pc = place /\ w.until = v.until /\ w.size = n
  BY <1>7 DEF TickType
<1>9. tick' = w
  BY <1>2, <1>5, <1>6, <1>7 DEF BeginPop
<1> QED
  BY <1>2, <1>3, <1>4, <1>5, <1>8, <1>9 DEF BeginPop, SimAt

\* The list is in order again, or the callback is over.
LEMMA PopOrDeliveryEnds ==
  ASSUME TypeOK, EndPop \/ Delivered
  PROVE  /\ tick' \in TickType /\ tick'.until = tick.until /\ At("sim", "none")
         /\ EndPop => tick.pc = "popping" /\ tick'.pc = "delivering"
         /\ Delivered => tick.pc = "delivering" /\ tick'.pc = "fetching"
<1>1. tick \in TickType
  BY DEF TypeOK, TickType
<1>2. PICK v \in TickType : v = tick
  BY <1>1
<1>3. CASE EndPop
  <2>1. PICK w : w = [v EXCEPT !.pc = "delivering"]
    OBVIOUS
  <2>2. w \in TickType /\ w.pc = "delivering" /\ w.until = v.until
    BY <2>1 DEF TickType
  <2>3. tick' = w /\ tick.pc = "popping" /\ At("sim", "none")
    BY <1>2, <1>3, <2>1 DEF EndPop, SimAt
  <2> QED
    BY <1>2, <2>2, <2>3 DEF Delivered, SimAt
<1>4. CASE Delivered
  <2>1. PICK w : w = [v EXCEPT !.pc = "fetching", !.size = 0]
    OBVIOUS
  <2>2. w \in TickType /\ w.pc = "fetching" /\ w.until = v.until
    BY <2>1 DEF TickType
  <2>3. tick' = w /\ tick.pc = "delivering" /\ At("sim", "none")
    BY <1>2, <1>4, <2>1 DEF Delivered, SimAt
  <2> QED
    BY <1>2, <2>2, <2>3 DEF EndPop, SimAt
<1> QED
  BY <1>3, <1>4

\* An exception leaves transmit.
LEMMA RaiseDoes ==
  ASSUME TypeOK, NEW t \in Thread, Raise(t)
  PROVE  /\ OnlyCall(t) /\ call'[t].pc = "none" /\ call'[t].op = "transmit"
         /\ tick' \in TickType
         /\ \/ t = "sim" /\ tick.pc = "sending" /\ tick' = NoTick
            \/ tick' = tick /\ ~(t = "sim" /\ tick.pc = "sending")
         /\ abandoned' \in Nat
         /\ UNCHANGED <<now, heap, window, counts, disturbed>>
<1>1. OnlyCall(t) /\ call'[t].pc = "none" /\ call'[t].op = "transmit"
  BY EndCallDoes DEF Raise
<1>2. CASE t = "sim" /\ tick.pc = "sending"
  <2>1. tick' = NoTick /\ abandoned' = abandoned + tick.left
    BY <1>2 DEF Raise
  <2> QED
    BY <1>1, <1>2, <2>1, NoTickType DEF TypeOK, Raise
<1>3. CASE ~(t = "sim" /\ tick.pc = "sending")
  <2>1. tick' = tick /\ abandoned' = abandoned
    BY <1>3 DEF Raise
  <2> QED
    BY <1>1, <1>3, <2>1 DEF TypeOK, TickType, Raise
<1> QED
  BY <1>2, <1>3

-------------------------------------------------------------------------------
(* Types *)

\* Every step keeps the types.
LEMMA NextTypes == BaseInv /\ [Next]_vars => TypeOK'
<1> SUFFICES ASSUME BaseInv, [Next]_vars PROVE TypeOK'
  OBVIOUS
<1>0. TypeOK /\ Finite
  BY DEF BaseInv
<1> USE DEF heap, history
<1>a. ASSUME NEW t \in Thread, Overlaps(t)
      PROVE  disturbed' \in BOOLEAN
  BY <1>0, <1>a DEF Overlaps, TypeOK
<1>b. ASSUME NEW t \in Thread, OnlyCall(t) \/ OnlySpoils(t) \/ UNCHANGED call
      PROVE  call' \in [Thread ->
               [pc : {"none", "pruning", "summing", "spoiled", "scheduled", "sifting"},
                op : {"transmit", "statistics"}, at : Nat, due : Nat, size : Nat]]
  BY <1>0, <1>b DEF OnlyCall, OnlySpoils, CallType, TypeOK
<1>1. ASSUME NEW t \in Thread, LinkStep(t)
      PROVE  TypeOK'
  <2>1. CASE Prune(t)
    <3>1. window' \in Seq(Nat)
      BY <1>0, <2>1 DEF Prune, HasOldSample, TypeOK
    <3> QED
      BY <1>0, <1>a, <1>b, <2>1, <3>1, SpoiledDoes DEF Prune, TypeOK
  <2>2. CASE BeginSum(t)
    BY <1>0, <1>a, <1>b, <2>2, BeginSumDoes DEF BeginSum, TypeOK
  <2>3. CASE EndSum(t)
    BY <1>0, <1>a, <1>b, <2>3, EndSumDoes DEF EndSum, TypeOK
  <2>4. CASE SumRaises(t)
    <3>1. destroyed' \in Nat
      BY <1>0, <2>4 DEF SumRaises, TypeOK
    <3> QED
      BY <1>0, <1>b, <2>4, <3>1, RaiseDoes DEF SumRaises, TypeOK, TickType
  <2>5. CASE BeginPush(t)
    <3>1. ordered' \in BOOLEAN
      BY <1>0, <2>5 DEF BeginPush, OrderedAfter, TypeOK
    <3>2. seq' \in Nat
      BY <1>0, <2>5, BeginPushDoes
    <3> QED
      BY <1>0, <1>a, <1>b, <2>5, <3>1, <3>2, BeginPushDoes DEF BeginPush, TypeOK
  <2>6. CASE EndPush(t)
    <3>1. OnlyCall(t)
      BY <1>0, <2>6, EndCallDoes DEF EndPush
    <3> QED
      BY <1>0, <1>a, <1>b, <2>6, <3>1 DEF EndPush, TypeOK
  <2>7. CASE PushRaises(t)
    BY <1>0, <1>b, <2>7, RaiseDoes DEF PushRaises, TypeOK, TickType
  <2> QED
    BY <1>1, <2>1, <2>2, <2>3, <2>4, <2>5, <2>6, <2>7 DEF LinkStep
<1>2. CASE BeginTick
  <2>1. disturbed' \in BOOLEAN
    BY <1>0, <1>2 DEF BeginTick, TypeOK
  <2> QED
    BY <1>0, <1>2, <2>1, BeginTickDoes DEF BeginTick, TypeOK, TickType
<1>3. CASE SendRecord \/ Respond
  <2>1. "sim" \in Thread
    BY DEF Thread
  <2>2. Transmit("sim") /\ UNCHANGED <<now, heap, window, history>> /\ tick' \in TickType
    <3>1. tick \in TickType
      BY <1>0 DEF TypeOK, TickType
    <3> QED
      BY <1>0, <1>3, <3>1, SendRecordDoes DEF SendRecord, Respond
  <2> QED
    BY <1>0, <1>b, <2>1, <2>2, TransmitDoes DEF TypeOK, TickType
<1>4. CASE BeginFetch
  BY <1>0, <1>4, BeginFetchDoes DEF BeginFetch, TypeOK, TickType
<1>5. ASSUME NEW f \in pending, BeginPop(f)
      PROVE  TypeOK'
  <2>1. ordered' \in BOOLEAN
    BY <1>0, <1>5 DEF BeginPop, OrderedAfter, TypeOK
  <2>2. pending' \subseteq pending /\ seq' = seq
    BY <1>0, <1>5, BeginPopDoes DEF BeginPop
  <2> QED
    BY <1>0, <1>5, <2>1, <2>2, BeginPopDoes DEF BeginPop, TypeOK, TickType
<1>6. CASE EndPop
  BY <1>0, <1>6, PopOrDeliveryEnds DEF EndPop, TypeOK, TickType
<1>7. CASE PopRaises
  BY <1>0, <1>7, NoTickType DEF PopRaises, TypeOK, TickType
<1>8. CASE Delivered
  <2>1. "sim" \in Thread
    BY DEF Thread
  <2>2. window' \in Seq(Nat)
    <3>1. tick.until \in Nat /\ window' = Append(window, tick.until)
      BY <1>0, <1>8 DEF Delivered, TypeOK
    <3> QED
      BY <1>0, <3>1 DEF TypeOK
  <2>3. counts' \in [Counter -> Nat]
    BY <1>0, <1>8 DEF Delivered, TypeOK, Counter
  <2> QED
    BY <1>0, <1>b, <1>8, <2>1, <2>2, <2>3, PopOrDeliveryEnds, SpoiledDoes
       DEF Delivered, TypeOK, TickType
<1>9. CASE EndTick
  BY <1>0, <1>9, NoTickType DEF EndTick, TypeOK, TickType
<1>10. ASSUME NEW t \in ApiThreads, ApiTransmit(t)
       PROVE  TypeOK'
  <2>1. t \in Thread
    BY DEF Thread
  <2> QED
    BY <1>0, <1>a, <1>b, <1>10, <2>1, TransmitDoes DEF ApiTransmit, TypeOK
<1>11. ASSUME NEW t \in ApiThreads, Statistics(t)
       PROVE  TypeOK'
  <2>1. t \in Thread
    BY DEF Thread
  <2> QED
    BY <1>0, <1>a, <1>b, <1>11, <2>1, StatisticsDoes DEF Statistics, TypeOK
<1>12. CASE Clock
  BY <1>0, <1>12 DEF Clock, TypeOK
<1>13. CASE UNCHANGED vars
  BY <1>0, <1>13 DEF vars, TypeOK
<1> QED
  <2>1. "sim" \in Thread /\ ApiThreads \subseteq Thread
    BY DEF Thread
  <2> QED
    BY <1>1, <1>2, <1>3, <1>4, <1>5, <1>6, <1>7, <1>8, <1>9, <1>10, <1>11, <1>12, <1>13, <2>1
       DEF Next, SimStep

-------------------------------------------------------------------------------
(* Places *)

\* Every thread is a thread.
LEMMA Threads == "sim" \in Thread /\ ApiThreads \subseteq Thread /\ "sim" \notin ApiThreads
  BY ThreadAssumption DEF Thread

\* Calls are in the places where calls can be, and a tick's time has come.
LEMMA NextPlaces == BaseInv /\ [Next]_vars => CallPlaces' /\ UntilHasCome'
<1> SUFFICES ASSUME BaseInv, [Next]_vars PROVE CallPlaces' /\ UntilHasCome'
  OBVIOUS
<1>0. TypeOK /\ Finite /\ CallPlaces /\ UntilHasCome /\ now \in Nat /\ tick.until \in Nat
  BY DEF BaseInv, TypeOK
<1>1. ASSUME NEW t \in Thread, OnlyCall(t) \/ OnlySpoils(t),
             call'[t].pc \in {"scheduled", "sifting"} => call'[t].op = "transmit"
      PROVE  \A u \in Thread : call'[u].pc \in {"scheduled", "sifting"} => call'[u].op = "transmit"
  <2>1. CASE OnlyCall(t)
    BY <1>0, <1>1, <2>1 DEF OnlyCall, CallPlaces
  <2>2. CASE OnlySpoils(t)
    <3> SUFFICES ASSUME NEW u \in Thread, call'[u].pc \in {"scheduled", "sifting"}
                 PROVE  call'[u].op = "transmit"
      OBVIOUS
    <3>1. call'[u].pc = call[u].pc /\ call'[u].op = call[u].op
      BY <2>2 DEF OnlySpoils
    <3> QED
      BY <1>0, <3>1 DEF CallPlaces
  <2> QED
    BY <1>1, <2>1, <2>2
<1>2. ASSUME NEW t \in Thread, OnlyCall(t) \/ OnlySpoils(t), tick' = tick,
             call[t].pc # "none"
      PROVE  call'["sim"].pc # "none" => tick'.pc \in {"sending", "delivering"}
  <2>1. call'["sim"].pc # "none" => call["sim"].pc # "none"
    BY <1>2, Threads DEF OnlyCall, OnlySpoils
  <2> QED
    BY <1>0, <1>2, <2>1 DEF CallPlaces
<1>3. ASSUME NEW t \in Thread, LinkStep(t)
      PROVE  CallPlaces' /\ UntilHasCome'
  <2>1. CASE Prune(t)
    <3>1. OnlySpoils(t) /\ call[t].pc # "none" /\ UNCHANGED <<now, tick>>
      BY <1>0, <2>1, SpoiledDoes DEF Prune, At
    <3>2. call'[t].pc \in {"scheduled", "sifting"} => call'[t].op = "transmit"
      BY <1>0, <2>1, <3>1 DEF OnlySpoils, Prune, At
    <3> QED
      BY <1>0, <1>1, <1>2, <3>1, <3>2 DEF CallPlaces, UntilHasCome
  <2>2. CASE BeginSum(t)
    <3>1. OnlyCall(t) /\ call[t].pc # "none" /\ UNCHANGED <<now, tick>> /\ call'[t].pc = "summing"
      BY <1>0, <2>2, BeginSumDoes DEF BeginSum
    <3> QED
      BY <1>0, <1>1, <1>2, <3>1 DEF CallPlaces, UntilHasCome
  <2>3. CASE EndSum(t)
    <3>1. /\ OnlyCall(t) /\ call[t].pc # "none" /\ UNCHANGED <<now, tick>>
          /\ call'[t].pc \in {"scheduled", "sifting"} => call'[t].op = "transmit"
      BY <1>0, <2>3, EndSumDoes DEF EndSum
    <3> QED
      BY <1>0, <1>1, <1>2, <3>1 DEF CallPlaces, UntilHasCome
  <2>4. CASE SumRaises(t) \/ PushRaises(t)
    <3>1. /\ OnlyCall(t) /\ call'[t].pc = "none" /\ now' = now /\ call[t].pc # "none"
          /\ (t = "sim" /\ tick' = NoTick) \/ tick' = tick
      BY <1>0, <2>4, RaiseDoes DEF SumRaises, PushRaises, At
    <3>2. CASE t = "sim" /\ tick' = NoTick
      BY <1>0, <1>1, <3>1, <3>2, NoTickType DEF CallPlaces, UntilHasCome
    <3>3. CASE tick' = tick
      BY <1>0, <1>1, <1>2, <3>1, <3>3 DEF CallPlaces, UntilHasCome
    <3> QED
      BY <3>1, <3>2, <3>3
  <2>5. CASE BeginPush(t)
    <3>1. /\ OnlyCall(t) /\ call[t].pc = "scheduled" /\ UNCHANGED <<now, tick>>
          /\ call'[t].pc = "none" \/ call'[t].op = call[t].op
      BY <1>0, <2>5, BeginPushDoes DEF BeginPush
    <3>2. call'[t].pc \in {"scheduled", "sifting"} => call'[t].op = "transmit"
      BY <1>0, <3>1 DEF CallPlaces
    <3> QED
      BY <1>0, <1>1, <1>2, <3>1, <3>2 DEF CallPlaces, UntilHasCome
  <2>6. CASE EndPush(t)
    <3>1. /\ OnlyCall(t) /\ call[t].pc # "none" /\ UNCHANGED <<now, tick>>
          /\ call'[t].pc = "none"
      BY <1>0, <2>6, EndCallDoes DEF EndPush, At
    <3> QED
      BY <1>0, <1>1, <1>2, <3>1 DEF CallPlaces, UntilHasCome
  <2> QED
    BY <1>3, <2>1, <2>2, <2>3, <2>4, <2>5, <2>6 DEF LinkStep
<1>4. ASSUME call["sim"].pc = "none", call' = call, now' = now, tick'.until <= now
      PROVE  CallPlaces' /\ UntilHasCome'
  BY <1>0, <1>4 DEF CallPlaces, UntilHasCome
<1>5. CASE BeginTick \/ BeginFetch \/ EndPop \/ PopRaises \/ EndTick
  <2>1. tick'.until <= now
    BY <1>0, <1>5, BeginTickDoes, BeginFetchDoes, PopOrDeliveryEnds, NoTickType
       DEF PopRaises, EndTick, UntilHasCome
  <2>2. call["sim"].pc = "none" /\ call' = call /\ now' = now
    BY <1>5 DEF BeginTick, BeginFetch, EndPop, PopRaises, EndTick, SimAt, At
  <2> QED
    BY <1>4, <2>1, <2>2
<1>6. ASSUME NEW f \in pending, BeginPop(f)
      PROVE  CallPlaces' /\ UntilHasCome'
  <2>1. tick'.until <= now
    BY <1>0, <1>6, BeginPopDoes DEF UntilHasCome
  <2>2. call["sim"].pc = "none" /\ call' = call /\ now' = now
    BY <1>6 DEF BeginPop, SimAt, At
  <2> QED
    BY <1>4, <2>1, <2>2
<1>7. CASE Delivered
  <2>1. /\ OnlySpoils("sim") /\ tick'.until = tick.until /\ call["sim"].pc = "none" /\ now' = now
    BY <1>0, <1>7, PopOrDeliveryEnds, SpoiledDoes, Threads DEF Delivered, At
  <2>2. call'["sim"].pc = "none"
    BY <2>1, Threads DEF OnlySpoils
  <2> QED
    BY <1>0, <1>1, <2>1, <2>2, Threads DEF CallPlaces, UntilHasCome
<1>8. CASE SendRecord \/ Respond
  <2>1. /\ Transmit("sim") /\ now' = now /\ tick'.until = tick.until
        /\ tick'.pc \in {"sending", "delivering"}
    BY <1>0, <1>8, SendRecordDoes DEF SendRecord, Respond, SimAt
  <2>2. call' = call \/ (OnlyCall("sim") /\ call'["sim"].pc = "pruning")
    BY <1>0, <2>1, TransmitDoes, Threads
  <2> QED
    BY <1>0, <1>1, <2>1, <2>2, Threads DEF CallPlaces, UntilHasCome
<1>9. ASSUME NEW t \in ApiThreads, ApiTransmit(t) \/ Statistics(t)
      PROVE  CallPlaces' /\ UntilHasCome'
  <2>1. UNCHANGED <<now, tick>> /\ t \in Thread /\ t # "sim"
    BY <1>9, Threads DEF ApiTransmit, Statistics
  <2>2. call' = call \/ (OnlyCall(t) /\ call'[t].pc = "pruning")
    BY <1>0, <1>9, <2>1, TransmitDoes, StatisticsDoes DEF ApiTransmit
  <2>3. call' = call \/ call'["sim"] = call["sim"]
    BY <2>1, <2>2, Threads DEF OnlyCall
  <2> QED
    BY <1>0, <1>1, <2>1, <2>2, <2>3 DEF CallPlaces, UntilHasCome
<1>10. CASE Clock
  BY <1>0, <1>10 DEF Clock, CallPlaces, UntilHasCome
<1>11. CASE UNCHANGED vars
  BY <1>0, <1>11 DEF vars, CallPlaces, UntilHasCome
<1> QED
  BY <1>3, <1>5, <1>6, <1>7, <1>8, <1>9, <1>10, <1>11, Threads DEF Next, SimStep

-------------------------------------------------------------------------------
(* The books *)

HoldsFrame(t) == call[t].op = "transmit" /\ call[t].pc \notin {"none", "sifting"}

\* The simulation thread holds the frame it has popped.
Popped == IF tick.pc \in {"popping", "delivering"} THEN 1 ELSE 0

\* Frames in somebody's hands, before and after a step.
LEMMA HeldIs == Held = Cardinality(Holders) + Popped /\ Held' = Cardinality(Holders') + Popped'
  BY DEF Held, Holders, Popped

\* A thread takes a frame, or puts one away, and nobody else does.
LEMMA HoldersChange ==
  ASSUME Finite, NEW t \in Thread, OnlyCall(t)
  PROVE  /\ IsFiniteSet(Holders')
         /\ ~HoldsFrame(t) /\ HoldsFrame(t)' => Cardinality(Holders') = Cardinality(Holders) + 1
         /\ HoldsFrame(t) /\ ~HoldsFrame(t)' => Cardinality(Holders') = Cardinality(Holders) - 1
         /\ (HoldsFrame(t) <=> HoldsFrame(t)') => Cardinality(Holders') = Cardinality(Holders)
<1>0. IsFiniteSet(Holders)
  BY DEF Finite
<1>1. \A u \in Thread : u # t => (u \in Holders' <=> u \in Holders)
  BY DEF OnlyCall, Holders
<1>2. (t \in Holders <=> HoldsFrame(t)) /\ (t \in Holders' <=> HoldsFrame(t)')
      /\ Holders \subseteq Thread /\ Holders' \subseteq Thread
  BY DEF Holders, HoldsFrame
<1>3. CASE ~HoldsFrame(t) /\ HoldsFrame(t)'
  <2>1. Holders' = Holders \union {t} /\ t \notin Holders
    BY <1>1, <1>2, <1>3
  <2> QED
    BY <1>0, <1>3, <2>1, FS_AddElement
<1>4. CASE HoldsFrame(t) /\ ~HoldsFrame(t)'
  <2>1. Holders' = Holders \ {t} /\ t \in Holders
    BY <1>1, <1>2, <1>4
  <2> QED
    BY <1>0, <1>4, <2>1, FS_RemoveElement
<1>5. CASE HoldsFrame(t) <=> HoldsFrame(t)'
  <2>1. Holders' = Holders
    BY <1>1, <1>2, <1>5
  <2> QED
    BY <1>0, <1>5, <2>1
<1> QED
  BY <1>3, <1>4, <1>5

\* A spoiled sum still holds its frame.
LEMMA HoldersStay ==
  ASSUME Finite, NEW t \in Thread, OnlySpoils(t) \/ UNCHANGED call
  PROVE  Holders' = Holders
<1>1. ASSUME NEW u \in Thread
      PROVE  HoldsFrame(u) <=> HoldsFrame(u)'
  BY DEF OnlySpoils, HoldsFrame
<1> QED
  BY <1>1 DEF Holders, HoldsFrame

\* A step of transmit or statistics keeps the books.
LEMMA LinkBooks ==
  ASSUME BaseInv, Books, NEW t \in Thread, LinkStep(t)
  PROVE  Finite' /\ Books'
<1>0. /\ TypeOK /\ Finite /\ CallPlaces
      /\ counts \in [Counter -> Nat] /\ destroyed \in Nat
      /\ Cardinality(pending) \in Nat /\ Cardinality(Holders) \in Nat
      /\ IsFiniteSet(pending)
  BY FS_CardinalityType DEF BaseInv, TypeOK, Finite
<1>1. /\ counts["transmitted"] \in Nat /\ counts["lost"] \in Nat /\ counts["delivered"] \in Nat
  BY <1>0 DEF Counter
<1>2. CASE Prune(t)
  <2>1. Holders' = Holders /\ UNCHANGED <<pending, counts, tick, destroyed>>
    BY <1>0, <1>2, SpoiledDoes, HoldersStay DEF Prune, heap
  <2> QED
    BY <1>0, <2>1, HeldIs DEF Books, Finite, Popped
<1>3. CASE BeginSum(t)
  <2>1. OnlyCall(t) /\ UNCHANGED <<pending, counts, tick, destroyed>>
    BY <1>0, <1>3, BeginSumDoes DEF BeginSum, heap
  <2>2. HoldsFrame(t) <=> HoldsFrame(t)'
    BY <1>0, <1>3, BeginSumDoes DEF HoldsFrame
  <2> QED
    BY <1>0, <2>1, <2>2, HeldIs, HoldersChange DEF Books, Finite, Popped
<1>4. CASE EndSum(t)
  <2>1. OnlyCall(t) /\ UNCHANGED <<pending, counts, tick, destroyed>>
    BY <1>0, <1>4, EndSumDoes DEF EndSum, heap
  <2>2. HoldsFrame(t) <=> HoldsFrame(t)'
    BY <1>0, <1>4, EndSumDoes DEF HoldsFrame
  <2> QED
    BY <1>0, <2>1, <2>2, HeldIs, HoldersChange DEF Books, Finite, Popped
<1>5. CASE SumRaises(t)
  <2>1. /\ OnlyCall(t) /\ UNCHANGED <<pending, counts>> /\ ~HoldsFrame(t)'
        /\ call[t].pc = "spoiled" /\ IsFiniteSet(Holders')
    BY <1>0, <1>5, RaiseDoes, HoldersChange DEF SumRaises, HoldsFrame, At, heap
  <2>2. Popped' = Popped
    BY <1>0, <1>5, RaiseDoes, NoTickType DEF SumRaises, Popped
  <2>3. CASE call[t].op = "transmit"
    <3>1. destroyed' = destroyed + 1 /\ HoldsFrame(t)
      BY <1>5, <2>1, <2>3 DEF SumRaises, HoldsFrame
    <3>2. Cardinality(Holders') = Cardinality(Holders) - 1
      BY <1>0, <2>1, <3>1, HoldersChange
    <3> QED
      BY <1>0, <1>1, <2>1, <2>2, <3>1, <3>2, HeldIs DEF Books, Finite, Popped
  <2>4. CASE call[t].op # "transmit"
    <3>1. destroyed' = destroyed /\ ~HoldsFrame(t)
      BY <1>0, <1>5, <2>4 DEF SumRaises, HoldsFrame
    <3>2. Cardinality(Holders') = Cardinality(Holders)
      BY <1>0, <2>1, <3>1, HoldersChange
    <3> QED
      BY <1>0, <1>1, <2>1, <2>2, <3>1, <3>2, HeldIs DEF Books, Finite, Popped
  <2> QED
    BY <2>3, <2>4
<1>6. CASE BeginPush(t)
  <2>1. /\ OnlyCall(t) /\ IsFiniteSet(pending') /\ UNCHANGED <<counts, tick, destroyed>>
        /\ Cardinality(pending') = Cardinality(pending) + 1
    BY <1>0, <1>6, BeginPushDoes DEF BeginPush
  <2>2. HoldsFrame(t) /\ ~HoldsFrame(t)'
    BY <1>0, <1>6, BeginPushDoes DEF HoldsFrame, CallPlaces
  <2>3. Cardinality(Holders') = Cardinality(Holders) - 1 /\ IsFiniteSet(Holders')
    BY <1>0, <2>1, <2>2, HoldersChange
  <2> QED
    BY <1>0, <1>1, <2>1, <2>3, HeldIs DEF Books, Finite, Popped
<1>7. CASE EndPush(t)
  <2>1. OnlyCall(t) /\ UNCHANGED <<pending, counts, tick, destroyed>>
    BY <1>0, <1>7, EndCallDoes DEF EndPush, heap
  <2>2. ~HoldsFrame(t) /\ ~HoldsFrame(t)'
    BY <1>0, <1>7, EndCallDoes DEF EndPush, HoldsFrame, At
  <2> QED
    BY <1>0, <2>1, <2>2, HeldIs, HoldersChange DEF Books, Finite, Popped
<1>8. CASE PushRaises(t)
  <2>1. OnlyCall(t) /\ UNCHANGED <<pending, counts, destroyed>>
    BY <1>0, <1>8, RaiseDoes DEF PushRaises, heap
  <2>2. ~HoldsFrame(t) /\ ~HoldsFrame(t)'
    BY <1>0, <1>8, RaiseDoes DEF PushRaises, HoldsFrame, At
  <2>3. Popped' = Popped
    BY <1>0, <1>8, RaiseDoes, NoTickType DEF PushRaises, Popped
  <2> QED
    BY <1>0, <2>1, <2>2, <2>3, HeldIs, HoldersChange DEF Books, Finite
<1> QED
  BY <1>2, <1>3, <1>4, <1>5, <1>6, <1>7, <1>8 DEF LinkStep

\* A frame given to transmit is lost at once, or held by its thread.
LEMMA TransmitBooks ==
  ASSUME BaseInv, Books, NEW t \in Thread, At(t, "none"), Transmit(t),
         Popped' = Popped, UNCHANGED <<pending, destroyed>>
  PROVE  Finite' /\ Books'
<1>0. /\ TypeOK /\ Finite
      /\ counts \in [Counter -> Nat] /\ destroyed \in Nat
      /\ Cardinality(pending) \in Nat /\ Cardinality(Holders) \in Nat
  BY FS_CardinalityType DEF BaseInv, TypeOK, Finite
<1>1. /\ counts["transmitted"] \in Nat /\ counts["lost"] \in Nat /\ counts["delivered"] \in Nat
      /\ Popped \in Nat
  BY <1>0 DEF Counter, Popped
<1>2. /\ counts'["transmitted"] = counts["transmitted"] + 1
      /\ counts'["delivered"] = counts["delivered"]
  BY <1>0, TransmitDoes
<1>3. CASE counts'["lost"] = counts["lost"] + 1 /\ call' = call
  <2>1. Holders' = Holders
    BY <1>0, <1>3, HoldersStay
  <2> QED
    BY <1>0, <1>1, <1>2, <1>3, <2>1, HeldIs DEF Books, Finite
<1>4. CASE /\ counts'["lost"] = counts["lost"]
           /\ OnlyCall(t) /\ call'[t].pc = "pruning" /\ call'[t].op = "transmit"
  <2>1. ~HoldsFrame(t) /\ HoldsFrame(t)'
    BY <1>4 DEF HoldsFrame, At
  <2>2. Cardinality(Holders') = Cardinality(Holders) + 1 /\ IsFiniteSet(Holders')
    BY <1>0, <1>4, <2>1, HoldersChange
  <2> QED
    BY <1>0, <1>1, <1>2, <1>4, <2>2, HeldIs DEF Books, Finite
<1> QED
  BY <1>0, <1>3, <1>4, TransmitDoes

\* Every step keeps the books.
LEMMA NextBooks == BaseInv /\ Books /\ [Next]_vars => Finite' /\ Books'
<1> SUFFICES ASSUME BaseInv, Books, [Next]_vars PROVE Finite' /\ Books'
  OBVIOUS
<1>0. /\ TypeOK /\ Finite
      /\ counts \in [Counter -> Nat] /\ destroyed \in Nat
      /\ Cardinality(pending) \in Nat /\ Cardinality(Holders) \in Nat
      /\ IsFiniteSet(pending)
  BY FS_CardinalityType DEF BaseInv, TypeOK, Finite
<1>1. /\ counts["transmitted"] \in Nat /\ counts["lost"] \in Nat /\ counts["delivered"] \in Nat
  BY <1>0 DEF Counter
<1>2. ASSUME UNCHANGED <<pending, counts, call, destroyed>>, Popped' = Popped
      PROVE  Finite' /\ Books'
  <2>1. Holders' = Holders
    BY <1>2 DEF Holders
  <2> QED
    BY <1>0, <1>2, <2>1, HeldIs DEF Books, Finite
<1>3. CASE BeginTick
  BY <1>0, <1>2, <1>3, BeginTickDoes DEF BeginTick, Popped, heap
<1>4. CASE BeginFetch
  BY <1>0, <1>2, <1>4, BeginFetchDoes DEF BeginFetch, Popped, heap, history
<1>5. CASE EndPop
  BY <1>0, <1>2, <1>5, PopOrDeliveryEnds DEF EndPop, Popped, heap, history
<1>6. CASE EndTick
  BY <1>0, <1>2, <1>6, NoTickType DEF EndTick, SimAt, Popped, heap, history
<1>7. CASE Clock
  BY <1>0, <1>2, <1>7 DEF Clock, Popped, heap, history
<1>8. CASE UNCHANGED vars
  BY <1>0, <1>2, <1>8 DEF vars, Popped, heap, history
<1>9. CASE SendRecord \/ Respond
  <2>1. Transmit("sim") /\ At("sim", "none") /\ UNCHANGED <<pending, destroyed>>
    BY <1>9 DEF SendRecord, Respond, SimAt, heap, history
  <2>2. Popped' = Popped
    BY <1>0, <1>9, SendRecordDoes DEF Respond, Popped
  <2> QED
    BY <2>1, <2>2, TransmitBooks, Threads
<1>10. ASSUME NEW t \in ApiThreads, ApiTransmit(t)
       PROVE  Finite' /\ Books'
  <2>1. Transmit(t) /\ At(t, "none") /\ UNCHANGED <<pending, destroyed>> /\ Popped' = Popped
    BY <1>10 DEF ApiTransmit, heap, Popped
  <2> QED
    BY <2>1, TransmitBooks, Threads
<1>11. ASSUME NEW t \in ApiThreads, Statistics(t)
       PROVE  Finite' /\ Books'
  <2>1. OnlyCall(t) /\ UNCHANGED <<pending, counts, destroyed, tick>>
    BY <1>0, <1>11, StatisticsDoes, Threads DEF Statistics, heap
  <2>2. ~HoldsFrame(t) /\ ~HoldsFrame(t)'
    BY <1>0, <1>11, StatisticsDoes, Threads DEF HoldsFrame
  <2> QED
    BY <1>0, <2>1, <2>2, HeldIs, HoldersChange, Threads DEF Books, Finite, Popped
<1>12. ASSUME NEW f \in pending, BeginPop(f)
       PROVE  Finite' /\ Books'
  <2>1. /\ IsFiniteSet(pending') /\ Cardinality(pending') = Cardinality(pending) - 1
        /\ UNCHANGED <<counts, call, destroyed>>
    BY <1>0, <1>12, BeginPopDoes DEF BeginPop, history
  <2>2. Popped = 0 /\ Popped' = 1
    BY <1>0, <1>12, BeginPopDoes DEF Popped
  <2>3. Holders' = Holders
    BY <2>1 DEF Holders
  <2> QED
    BY <1>0, <1>1, <2>1, <2>2, <2>3, HeldIs DEF Books, Finite
<1>13. CASE PopRaises
  <2>1. Popped = 1 /\ Popped' = 0
    BY <1>13, NoTickType DEF PopRaises, SimAt, Popped
  <2>2. Holders' = Holders /\ pending' = pending /\ counts' = counts /\ destroyed' = destroyed + 1
    BY <1>13 DEF PopRaises, Holders, heap
  <2>3. Held = Cardinality(Holders) + 1 /\ Held' = Cardinality(Holders)
    BY <1>0, <2>1, <2>2, HeldIs
  <2> QED
    BY <1>0, <1>1, <2>2, <2>3 DEF Books, Finite
<1>14. CASE Delivered
  <2>1. Popped = 1 /\ Popped' = 0
    BY <1>0, <1>14, PopOrDeliveryEnds DEF Popped
  <2>2. Holders' = Holders
    BY <1>0, <1>14, SpoiledDoes, HoldersStay, Threads DEF Delivered
  <2>3. /\ UNCHANGED <<pending, destroyed>>
        /\ counts'["delivered"] = counts["delivered"] + 1
        /\ counts'["transmitted"] = counts["transmitted"] /\ counts'["lost"] = counts["lost"]
    BY <1>0, <1>14 DEF Delivered, heap, history, Counter
  <2> QED
    BY <1>0, <1>1, <2>1, <2>2, <2>3, HeldIs DEF Books, Finite
<1> QED
  BY <1>3, <1>4, <1>5, <1>6, <1>7, <1>8, <1>9, <1>10, <1>11, <1>12, <1>13, <1>14,
     LinkBooks, Threads DEF Next, SimStep

-------------------------------------------------------------------------------
(* Threads that do not meet *)

\* A thread that has not met another one is alone in the link.
LEMMA Alone ==
  ASSUME BaseInv, Apart, NEW t \in Thread, Overlaps(t), ~disturbed',
         t # "sim" \/ call[t].pc # "none"
  PROVE  /\ \A u \in Thread : u # t => call[u].pc = "none"
         /\ t # "sim" => tick.pc = "idle"
         /\ t = "sim" => tick.pc \in {"sending", "delivering"}
<1>0. TypeOK /\ CallPlaces
  BY DEF BaseInv
<1>1. /\ t # "sim" => tick.pc = "idle"
      /\ \A u \in ApiThreads : u # t => call[u].pc = "none"
  BY DEF Overlaps, At
<1>2. CASE t = "sim"
  BY <1>0, <1>1, <1>2 DEF CallPlaces, Thread
<1>3. CASE t # "sim"
  <2>1. call["sim"].pc = "none"
    BY <1>0, <1>1, <1>3 DEF CallPlaces
  <2> QED
    BY <1>1, <1>3, <2>1 DEF Thread
<1> QED
  BY <1>2, <1>3

\* A step of such a thread leaves the threads apart.
LEMMA StepApart ==
  ASSUME BaseInv, Apart, NEW t \in Thread, Overlaps(t), ~disturbed',
         t # "sim" \/ call[t].pc # "none",
         OnlyCall(t) \/ OnlySpoils(t),
         call'[t].pc # "spoiled",
         call'[t].pc = "sifting" => call'[t].size = Cardinality(pending'),
         ordered', UNCHANGED <<tick, destroyed, abandoned>>
  PROVE  Apart'
<1>1. /\ \A u \in Thread : u # t => call[u].pc = "none"
      /\ t # "sim" => tick.pc = "idle"
      /\ t = "sim" => tick.pc \in {"sending", "delivering"}
  BY Alone
<1>2. \A u \in Thread : u # t => call'[u].pc = "none"
  BY <1>1 DEF OnlyCall, OnlySpoils
<1>3. destroyed' = 0 /\ abandoned' = 0 /\ ordered' /\ tick' = tick
  BY DEF Apart
<1>4. \A u, w \in ApiThreads : call'[u].pc # "none" /\ call'[w].pc # "none" => u = w
  BY <1>2, Threads
<1>5. tick'.pc # "idle" => \A u \in ApiThreads : call'[u].pc = "none"
  BY <1>1, <1>2, <1>3, Threads
<1>6. \A u \in Thread :
        /\ call'[u].pc # "spoiled"
        /\ call'[u].pc = "sifting" => call'[u].size = Cardinality(pending')
  BY <1>2
<1>7. tick'.pc # "popping"
  BY <1>1, <1>3
<1> QED
  BY <1>3, <1>4, <1>5, <1>6, <1>7 DEF Apart, At

\* So does a step of the tick, while no request is in the link.
LEMMA TickApart ==
  ASSUME Apart, \A t \in ApiThreads : call'[t].pc = "none",
         call'["sim"].pc \in {"none", "pruning"},
         ordered', UNCHANGED <<destroyed, abandoned>>,
         tick'.pc = "popping" => tick'.size = Cardinality(pending')
  PROVE  Apart'
<1>1. \A u \in Thread : call'[u].pc \in {"none", "pruning"}
  BY DEF Thread
<1> QED
  BY <1>1 DEF Apart, At

\* Threads that have not met leave each other alone.
LEMMA NextApart == BaseInv /\ (~disturbed => Apart) /\ [Next]_vars => (~disturbed' => Apart')
<1> SUFFICES ASSUME BaseInv, ~disturbed => Apart, [Next]_vars, ~disturbed' PROVE Apart'
  OBVIOUS
<1>0. TypeOK /\ Finite /\ CallPlaces
  BY DEF BaseInv
<1>1. ASSUME NEW t \in Thread, LinkStep(t)
      PROVE  Apart'
  <2>1. ~disturbed
    BY <1>1, RaiseDoes, <1>0
       DEF LinkStep, Prune, BeginSum, EndSum, SumRaises, BeginPush, EndPush, PushRaises, Overlaps
  <2>2. Apart
    BY <2>1
  <2>3. CASE Prune(t)
    <3>1. /\ OnlySpoils(t) /\ call[t].pc = "pruning" /\ Overlaps(t)
          /\ UNCHANGED <<tick, destroyed, abandoned, ordered>>
      BY <1>0, <2>3, SpoiledDoes DEF Prune, At, heap
    <3>2. call'[t].pc = "pruning"
      BY <3>1 DEF OnlySpoils
    <3> QED
      BY <2>2, <3>1, <3>2, StepApart DEF Apart
  <2>4. CASE BeginSum(t)
    <3>1. /\ OnlyCall(t) /\ call[t].pc = "pruning" /\ call'[t].pc = "summing" /\ Overlaps(t)
          /\ UNCHANGED <<tick, destroyed, abandoned, ordered>>
      BY <1>0, <2>4, BeginSumDoes DEF BeginSum, heap
    <3> QED
      BY <2>2, <3>1, StepApart DEF Apart
  <2>5. CASE EndSum(t)
    <3>1. /\ OnlyCall(t) /\ call[t].pc = "summing" /\ call'[t].pc \in {"none", "scheduled"}
          /\ Overlaps(t) /\ UNCHANGED <<tick, destroyed, abandoned, ordered>>
      BY <1>0, <2>5, EndSumDoes DEF EndSum, heap
    <3> QED
      BY <2>2, <3>1, StepApart DEF Apart
  <2>6. CASE SumRaises(t)
    BY <2>2, <2>6 DEF SumRaises, Apart
  <2>7. CASE BeginPush(t)
    <3>1. /\ OnlyCall(t) /\ call[t].pc = "scheduled" /\ Overlaps(t)
          /\ call'[t].pc # "spoiled"
          /\ call'[t].pc = "sifting" => call'[t].size = Cardinality(pending')
          /\ UNCHANGED <<tick, destroyed, abandoned>>
          /\ ordered' = OrderedAfter(t, pending')
      BY <1>0, <2>7, BeginPushDoes DEF BeginPush
    <3>2. \A u \in Thread \ {t} : ~Sifts(u)
      <4>1. /\ \A u \in Thread : u # t => call[u].pc = "none"
            /\ tick.pc # "popping"
        BY <2>2, <3>1, Alone
      <4> QED
        BY <4>1 DEF Sifts, At
    <3>3. ordered'
      BY <2>2, <3>1, <3>2 DEF OrderedAfter, Apart
    <3> QED
      BY <2>2, <3>1, <3>3, StepApart
  <2>8. CASE EndPush(t)
    <3>1. /\ OnlyCall(t) /\ call[t].pc = "sifting" /\ call'[t].pc = "none"
          /\ Overlaps(t) /\ UNCHANGED <<tick, destroyed, abandoned, ordered>>
      BY <1>0, <2>8, EndCallDoes DEF EndPush, At, heap
    <3> QED
      BY <2>2, <3>1, StepApart DEF Apart
  <2>9. CASE PushRaises(t)
    BY <2>2, <2>9 DEF PushRaises, Apart
  <2> QED
    BY <1>1, <2>3, <2>4, <2>5, <2>6, <2>7, <2>8, <2>9 DEF LinkStep
<1>2. ASSUME ~disturbed, tick.pc # "idle"
      PROVE  Apart /\ \A t \in ApiThreads : call[t].pc = "none"
  BY <1>2 DEF Apart, At
<1>3. CASE BeginTick
  <2>1. /\ ~disturbed /\ \A t \in ApiThreads : call[t].pc = "none"
        /\ call["sim"].pc = "none"
    BY <1>3 DEF BeginTick, SimAt, At
  <2>2. /\ tick'.pc = "sending" /\ UNCHANGED <<call, destroyed, abandoned, ordered>>
    BY <1>0, <1>3, BeginTickDoes DEF BeginTick, heap
  <2> QED
    BY <2>1, <2>2, TickApart DEF Apart
<1>4. CASE SendRecord \/ Respond
  <2>1. /\ tick.pc \in {"sending", "delivering"} /\ tick'.pc = tick.pc /\ At("sim", "none")
        /\ Transmit("sim") /\ UNCHANGED <<destroyed, abandoned, disturbed, ordered>>
    BY <1>0, <1>4, SendRecordDoes DEF SendRecord, Respond, SimAt, heap, history
  <2>2. Apart /\ \A t \in ApiThreads : call[t].pc = "none"
    BY <1>2, <2>1
  <2>3. call' = call \/ (OnlyCall("sim") /\ call'["sim"].pc = "pruning")
    BY <1>0, <2>1, TransmitDoes, Threads
  <2>4. /\ \A t \in ApiThreads : call'[t].pc = "none"
        /\ call'["sim"].pc \in {"none", "pruning"}
    BY <2>1, <2>2, <2>3, Threads DEF OnlyCall, At
  <2> QED
    BY <2>1, <2>2, <2>4, TickApart DEF Apart
<1>5. CASE BeginFetch \/ EndPop \/ EndTick
  <2>1. /\ tick.pc # "idle" /\ tick'.pc # "popping" /\ At("sim", "none")
        /\ UNCHANGED <<call, destroyed, abandoned, disturbed, ordered>>
    BY <1>0, <1>5, BeginFetchDoes, PopOrDeliveryEnds, NoTickType
       DEF BeginFetch, EndPop, EndTick, SimAt, heap, history
  <2> QED
    BY <1>2, <2>1, TickApart DEF Apart, At
<1>6. ASSUME NEW f \in pending, BeginPop(f)
      PROVE  Apart'
  <2>1. /\ tick.pc # "idle" /\ tick'.size = Cardinality(pending') /\ At("sim", "none")
        /\ UNCHANGED <<call, destroyed, abandoned, disturbed>>
        /\ ordered' = OrderedAfter("sim", pending')
    BY <1>0, <1>6, BeginPopDoes DEF BeginPop, history
  <2>2. Apart /\ \A t \in ApiThreads : call[t].pc = "none"
    BY <1>2, <2>1
  <2>3. ordered'
    BY <2>1, <2>2 DEF OrderedAfter, Apart, Sifts, At, Thread
  <2> QED
    BY <2>1, <2>2, <2>3, TickApart DEF At
<1>7. CASE PopRaises
  <2>1. tick.pc = "popping" /\ tick.size # Cardinality(pending) /\ ~disturbed
    BY <1>7 DEF PopRaises, SimAt
  <2> QED
    BY <2>1 DEF Apart
<1>8. CASE Delivered
  <2>1. /\ tick.pc # "idle" /\ tick'.pc = "fetching" /\ At("sim", "none")
        /\ OnlySpoils("sim") /\ UNCHANGED <<destroyed, abandoned, disturbed, ordered>>
    BY <1>0, <1>8, PopOrDeliveryEnds, SpoiledDoes, Threads DEF Delivered, heap, history
  <2>2. Apart /\ \A t \in ApiThreads : call[t].pc = "none"
    BY <1>2, <2>1
  <2>3. /\ \A t \in ApiThreads : call'[t].pc = "none"
        /\ call'["sim"].pc = "none"
    BY <2>1, <2>2, Threads DEF OnlySpoils, At
  <2> QED
    BY <2>1, <2>2, <2>3, TickApart DEF Apart
<1>9. ASSUME NEW t \in ApiThreads, ApiTransmit(t) \/ Statistics(t)
      PROVE  Apart'
  <2>1. /\ Overlaps(t) /\ t \in Thread /\ t # "sim" /\ At(t, "none")
        /\ UNCHANGED <<tick, destroyed, abandoned, ordered>>
    BY <1>9, Threads DEF ApiTransmit, Statistics, heap
  <2>2. Apart
    BY <2>1 DEF Overlaps
  <2>3. OnlyCall(t) /\ call'[t].pc \in {"none", "pruning"}
    <3>1. CASE Statistics(t)
      BY <1>0, <2>1, <3>1, StatisticsDoes
    <3>2. CASE ApiTransmit(t)
      <4>1. call' = call \/ (OnlyCall(t) /\ call'[t].pc = "pruning")
        BY <1>0, <2>1, <3>2, TransmitDoes DEF ApiTransmit
      <4> QED
        BY <1>0, <2>1, <4>1 DEF OnlyCall, At, TypeOK, CallType
    <3> QED
      BY <1>9, <3>1, <3>2
  <2> QED
    BY <2>1, <2>2, <2>3, StepApart DEF Apart
<1>10. CASE Clock
  BY <1>10 DEF Clock, Apart, At, heap, history
<1>11. CASE UNCHANGED vars
  BY <1>11 DEF vars, Apart, At, heap, history
<1> QED
  BY <1>1, <1>3, <1>4, <1>5, <1>6, <1>7, <1>8, <1>9, <1>10, <1>11, Threads DEF Next, SimStep

-------------------------------------------------------------------------------
(* The theorems *)

\* The invariant holds initially.
LEMMA InitInv == Init => Inv
<1> SUFFICES ASSUME Init PROVE Inv
  OBVIOUS
<1> USE DEF Init
<1>1. call \in [Thread -> CallType] /\ \A t \in Thread : call[t].pc = "none"
  BY NoCallType
<1>2. tick \in TickType /\ tick.pc = "idle" /\ tick.until = 0
  BY NoTickType
<1>3. /\ counts \in [Counter -> Nat]
      /\ counts["transmitted"] = 0 /\ counts["lost"] = 0 /\ counts["delivered"] = 0
  BY DEF Counter
<1>4. << >> \in Seq(Nat)
  OBVIOUS
<1>5. TypeOK
  BY <1>1, <1>2, <1>3, <1>4 DEF TypeOK, CallType, TickType
<1>6. Holders = {}
  BY <1>1 DEF Holders
<1>7. Finite
  BY <1>6, FS_EmptySet DEF Finite
<1>8. CallPlaces /\ UntilHasCome
  BY <1>1, <1>2, Threads DEF CallPlaces, UntilHasCome
<1>9. Books
  <2>1. Popped = 0
    BY <1>2 DEF Popped
  <2> QED
    BY <1>3, <1>6, <2>1, FS_EmptySet, HeldIs DEF Books
<1>10. Apart
  BY <1>1, <1>2, Threads DEF Apart, At
<1> QED
  BY <1>5, <1>7, <1>8, <1>9, <1>10 DEF Inv, BaseInv

\* The invariant is kept by every step.
LEMMA NextInv == Inv /\ [Next]_vars => Inv'
  BY NextTypes, NextPlaces, NextBooks, NextApart DEF Inv, BaseInv

\* The invariant always holds.
THEOREM Invariance == Spec => []Inv
  BY InitInv, NextInv, PTL DEF Spec

(***************************************************************************)
(* Every value has its type, and no two frames of the list have the same   *)
(* number.                                                                 *)
(***************************************************************************)
THEOREM TypeCorrectness == Spec => []TypeOK
<1>1. Inv => TypeOK
  BY DEF Inv, BaseInv
<1> QED
  BY <1>1, Invariance, PTL

(***************************************************************************)
(* Every frame given to transmit is delivered, counted as lost, in the     *)
(* list, in the hands of a call, or destroyed by an exception; and as long *)
(* as no request meets another thread in the link, no exception destroys a *)
(* frame or costs a tick its records.                                      *)
(***************************************************************************)
THEOREM FramesAccounted == Spec => []FramesAreAccounted
<1>1. Inv => FramesAreAccounted
  BY DEF Inv, BaseInv, TypeOK, Books, Apart, FramesAreAccounted
<1> QED
  BY <1>1, Invariance, PTL

(***************************************************************************)
(* Frames are delivered when their time has come, and in the order of      *)
(* their times and then of their numbers as long as no request meets       *)
(* another thread in the link.                                             *)
(***************************************************************************)
THEOREM DeliveredInOrder == Spec => DeliversInOrder
<1>1. ASSUME Inv, NEW f \in pending, BeginPop(f)
      PROVE  /\ f.due <= now
             /\ ~disturbed => \A g \in pending :
                  g.due > f.due \/ (g.due = f.due /\ g.seq >= f.seq)
  <2>0. TypeOK /\ UntilHasCome /\ (~disturbed => Apart)
    BY <1>1 DEF Inv, BaseInv
  <2>1. /\ now \in Nat /\ tick.until \in Nat
        /\ \A g \in pending : g.due \in Nat /\ g.seq \in Nat
    BY <2>0 DEF TypeOK
  <2>2. f.due <= tick.until /\ tick.until <= now
    BY <1>1, <2>0 DEF BeginPop, UntilHasCome
  <2>3. ASSUME ~disturbed, NEW g \in pending
        PROVE  g.due > f.due \/ (g.due = f.due /\ g.seq >= f.seq)
    <3>1. Apart /\ tick.pc = "fetching"
      BY <1>1, <2>0, <2>3 DEF BeginPop, SimAt
    <3>2. ordered /\ \A t \in ApiThreads : ~Sifts(t)
      BY <3>1, Threads DEF Apart, Sifts, At
    <3>3. ~Before(g, f)
      BY <1>1, <2>3, <3>2 DEF BeginPop, Heads
    <3> QED
      BY <2>1, <3>3 DEF Before
  <2> QED
    BY <2>1, <2>2, <2>3
<1>2. Inv /\ [Next]_vars =>
        [\A f \in pending : BeginPop(f) =>
           /\ f.due <= now
           /\ ~disturbed => \A g \in pending :
                g.due > f.due \/ (g.due = f.due /\ g.seq >= f.seq)]_vars
  BY <1>1
<1> QED
  BY <1>2, Invariance, PTL DEF Spec, DeliversInOrder
===============================================================================
