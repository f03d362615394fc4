------------------------------- MODULE SpaceLink -------------------------------
(***************************************************************************)
(* The link in time: class SpaceLink of src/communication/link.py, used by *)
(* the ticks of the simulation thread (transmission of telemetry,          *)
(* fetch_due) and by API threads (transmit for a command or a chat frame,  *)
(* statistics for a status request).  Whether the gate is open is chosen   *)
(* anew for every frame; StoreAndForward models it.                        *)
(*                                                                         *)
(* Nothing is locked.  Calls are split where CPython may switch threads in *)
(* them and another thread can tell: when a Python function begins, when a *)
(* call has returned, and when a loop jumps back.  So a test of the first  *)
(* item and the pop behind it are one step.  Two of the places are inside  *)
(* calls of C code: heapq compares frames by calling their __lt__, and sum *)
(* resumes a generator over the rate window.  Either raises RuntimeError   *)
(* if its list or deque changed in the meantime.  A frame gets its number  *)
(* and is appended in one step: a switch in between only exchanges the     *)
(* numbers of two frames.                                                  *)
(*                                                                         *)
(* Every frame has size 1; the bandwidth is in frames per second.          *)
(***************************************************************************)
EXTENDS Integers, Sequences, FiniteSets

CONSTANTS
  ApiThreads,   \* worker threads that call transmit or statistics
  Second,       \* units of time in the one second of the rate window
  Latency,      \* link_latency_ms
  Jitter,       \* link_jitter_ms
  Bandwidth,    \* link_bandwidth_bps
  MaxBatch,     \* bounds the records one tick transmits
  MaxFrames     \* bounds the calls of transmit

ASSUME TimingAssumption ==
  {Second, Bandwidth} \subseteq Nat \ {0} /\ {Latency, Jitter} \subseteq Nat
ASSUME ThreadAssumption == "sim" \notin ApiThreads
ASSUME BoundsAssumption == {MaxBatch, MaxFrames} \subseteq Nat

Thread == {"sim"} \union ApiThreads

VARIABLES
  now,        \* time.time()
  pending,    \* SpaceLink._pending, as a set
  ordered,    \* is the list of pending frames a heap?
  seq,        \* SpaceLink._seq
  window,     \* SpaceLink._rate_window: when the last frames were delivered
  counts,     \* the counters of the link, both directions in one
  call,       \* per thread, the link call it is in
  tick,       \* where the simulation thread is in tick_once
  destroyed,  \* history: frames accepted and then lost to an exception
  abandoned,  \* history: records not transmitted because their tick was aborted
  disturbed   \* history: was an API thread in the link along with another thread?

history == <<destroyed, abandoned, disturbed>>
heap == <<pending, ordered, seq>>
vars == <<now, heap, window, counts, call, tick, history>>

\* "lost" is packets_lost of the statistics: lost + gate_dropped.
Counter == {"transmitted", "lost", "delivered"}

NoCall == [pc |-> "none", op |-> "transmit", at |-> 0, due |-> 0, size |-> 0]

NoTick == [pc |-> "idle", left |-> 0, until |-> 0, size |-> 0]

Init ==
  /\ now = 0
  /\ pending = {}
  /\ ordered = TRUE
  /\ seq = 0
  /\ window = << >>
  /\ counts = [c \in Counter |-> 0]
  /\ call = [t \in Thread |-> NoCall]
  /\ tick = NoTick
  /\ destroyed = 0
  /\ abandoned = 0
  /\ disturbed = FALSE

\* Compares the numbers only.
MutantBefore(f, g) == f.seq < g.seq

\* _Pending.__lt__
Before(f, g) == f.due < g.due \/ (f.due = g.due /\ f.seq < g.seq)

At(t, place) == call[t].pc = place

\* The thread is in the middle of a heappush, or of a heappop.
Sifts(t) == At(t, "sifting") \/ (t = "sim" /\ tick.pc = "popping")

\* The list stays a heap unless another thread is sifting; one frame is a heap.
OrderedAfter(t, frames) ==
  Cardinality(frames) <= 1 \/ (ordered /\ \A u \in Thread \ {t} : ~Sifts(u))

\* self._pending[0]: the least frame of a heap.
Heads ==
  IF ordered /\ \A t \in ApiThreads : ~Sifts(t)
  THEN {f \in pending : \A g \in pending : ~Before(g, f)}
  ELSE pending

\* In a tick the simulation thread uses the link all the time.
Overlaps(t) ==
  disturbed' = \/ disturbed
               \/ t # "sim" /\ tick.pc # "idle"
               \/ \E u \in ApiThreads \ {t} : ~At(u, "none")

-------------------------------------------------------------------------------
(* transmit, up to the choice of a delivery time *)

\* The bound leaves room for the records the tick has still to send.
HasRoom(n) == counts["transmitted"] + tick.left + n <= MaxFrames

\* The gate, COMMS_OUTAGE and the channel drop the frame, or let it pass; then
\* the clock is read and a latency drawn.
Transmit(t) ==
  \/ /\ counts' = [counts EXCEPT !["transmitted"] = @ + 1, !["lost"] = @ + 1]
     /\ UNCHANGED call
  \/ /\ counts' = [counts EXCEPT !["transmitted"] = @ + 1]
     /\ \E latency \in Latency .. Latency + Jitter :
          call' = [call EXCEPT ![t] = [NoCall EXCEPT !.pc = "pruning", !.at = now,
                                                    !.due = now + latency]]

\* statistics: the rate window is pruned and summed in the same way.
Statistics(t) ==
  /\ At(t, "none")
  /\ call' = [call EXCEPT ![t] = [NoCall EXCEPT !.pc = "pruning", !.op = "statistics",
                                                !.at = now]]
  /\ Overlaps(t)
  /\ UNCHANGED <<now, heap, window, counts, tick, destroyed, abandoned>>

\* A sum another thread is in will notice that the deque has changed.
Spoiled(calls, t) ==
  [u \in Thread |-> IF u # t /\ calls[u].pc = "summing" THEN [calls[u] EXCEPT !.pc = "spoiled"]
                    ELSE calls[u]]

HasOldSample(t) == window # << >> /\ Head(window) < call[t].at - Second

\* One round of the loop that drains samples older than a second.
Prune(t) ==
  /\ At(t, "pruning")
  /\ HasOldSample(t)
  /\ window' = Tail(window)
  /\ call' = Spoiled(call, t)
  /\ Overlaps(t)
  /\ UNCHANGED <<now, heap, counts, tick, destroyed, abandoned>>

\* sum(sz for _, sz in self._rate_window)
BeginSum(t) ==
  /\ At(t, "pruning")
  /\ ~HasOldSample(t)
  /\ call' = [call EXCEPT ![t].pc = "summing"]
  /\ Overlaps(t)
  /\ UNCHANGED <<now, heap, window, counts, tick, destroyed, abandoned>>

\* The time by which the budget is exceeded, none if it is not.
ShapingDue(t) ==
  IF Len(window) + 1 <= Bandwidth THEN 0
  ELSE call[t].at + ((Len(window) + 1 - Bandwidth) * Second) \div Bandwidth

\* due = max(due, self._shaping_due(...)); the answer of statistics
EndSum(t) ==
  /\ At(t, "summing")
  /\ call' = [call EXCEPT ![t] =
       IF call[t].op = "statistics" THEN NoCall
       ELSE [call[t] EXCEPT !.pc = "scheduled", !.at = 0,
               !.due = IF @ < ShapingDue(t) THEN ShapingDue(t) ELSE @]]
  /\ Overlaps(t)
  /\ UNCHANGED <<now, heap, window, counts, tick, destroyed, abandoned>>

-------------------------------------------------------------------------------
(* heappush *)

\* Does not count the frames.
MutantBeginPush(t) ==
  /\ At(t, "scheduled")
  /\ seq' = seq
  /\ pending' = pending \union {[due |-> call[t].due, seq |-> seq + 1]}
  /\ ordered' = OrderedAfter(t, pending')
  /\ call' = [call EXCEPT ![t] =
       IF pending = {} THEN NoCall
       ELSE [call[t] EXCEPT !.pc = "sifting", !.due = 0, !.size = Cardinality(pending')]]
  /\ Overlaps(t)
  /\ UNCHANGED <<now, window, counts, tick, destroyed, abandoned>>

\* The frame is appended and, unless it is the only one, compared with others.
BeginPush(t) ==
  /\ At(t, "scheduled")
  /\ seq' = seq + 1
  /\ pending' = pending \union {[due |-> call[t].due, seq |-> seq + 1]}
  /\ ordered' = OrderedAfter(t, pending')
  /\ call' = [call EXCEPT ![t] =
       IF pending = {} THEN NoCall
       ELSE [call[t] EXCEPT !.pc = "sifting", !.due = 0, !.size = Cardinality(pending')]]
  /\ Overlaps(t)
  /\ UNCHANGED <<now, window, counts, tick, destroyed, abandoned>>

\* transmit returns True.
EndPush(t) ==
  /\ At(t, "sifting")
  /\ call[t].size = Cardinality(pending)
  /\ call' = [call EXCEPT ![t] = NoCall]
  /\ Overlaps(t)
  /\ UNCHANGED <<now, heap, window, counts, tick, destroyed, abandoned>>

\* An exception leaves transmit: a client gets an error; a tick is over, with
\* the records it has not transmitted; but one from a frame's delivery is
\* caught in fetch_due.
Raise(t) ==
  /\ call' = [call EXCEPT ![t] = NoCall]
  /\ IF t = "sim" /\ tick.pc = "sending"
     THEN tick' = NoTick /\ abandoned' = abandoned + tick.left
     ELSE UNCHANGED <<tick, abandoned>>
  /\ UNCHANGED <<now, heap, window, counts, disturbed>>

\* The frame was not in the list yet, and is lost.
SumRaises(t) ==
  /\ At(t, "spoiled")
  /\ destroyed' = destroyed + (IF call[t].op = "transmit" THEN 1 ELSE 0)
  /\ Raise(t)

\* The frame stays in the list, perhaps out of order.
PushRaises(t) ==
  /\ At(t, "sifting")
  /\ call[t].size # Cardinality(pending)
  /\ Raise(t)
  /\ UNCHANGED destroyed

-------------------------------------------------------------------------------
(* The tick of the simulation thread *)

SimAt(place) == tick.pc = place /\ At("sim", "none")

\* The spacecraft has produced or drained some records to transmit.
BeginTick ==
  /\ SimAt("idle")
  /\ \E n \in 0 .. MaxBatch : HasRoom(n) /\ tick' = [NoTick EXCEPT !.pc = "sending", !.left = n]
  /\ disturbed' = (disturbed \/ \E t \in ApiThreads : ~At(t, "none"))
  /\ UNCHANGED <<now, heap, window, counts, call, destroyed, abandoned>>

SendRecord ==
  /\ SimAt("sending")
  /\ tick.left > 0
  /\ tick' = [tick EXCEPT !.left = @ - 1]
  /\ Transmit("sim")
  /\ UNCHANGED <<now, heap, window, history>>

\* fetch_due(), with the time of the call
BeginFetch ==
  /\ SimAt("sending")
  /\ tick.left = 0
  /\ tick' = [tick EXCEPT !.pc = "fetching", !.until = now]
  /\ UNCHANGED <<now, heap, window, counts, call, history>>

\* heappop: the head is taken out.  A list of two needs no comparison.
BeginPop(f) ==
  /\ SimAt("fetching")
  /\ f \in Heads
  /\ f.due <= tick.until
  /\ pending' = pending \ {f}
  /\ ordered' = OrderedAfter("sim", pending')
  /\ tick' = [tick EXCEPT !.size = Cardinality(pending'),
                          !.pc = IF Cardinality(pending') < 2 THEN "delivering" ELSE "popping"]
  /\ UNCHANGED <<now, seq, window, counts, call, history>>

EndPop ==
  /\ SimAt("popping")
  /\ tick.size = Cardinality(pending)
  /\ tick' = [tick EXCEPT !.pc = "delivering"]
  /\ UNCHANGED <<now, heap, window, counts, call, history>>

\* Ends the loop, not only the tick.
MutantPopRaises ==
  /\ SimAt("popping")
  /\ tick.size # Cardinality(pending)
  /\ destroyed' = destroyed + 1
  /\ tick' = [NoTick EXCEPT !.pc = "ended"]
  /\ UNCHANGED <<now, heap, window, counts, call, abandoned, disturbed>>

\* Another thread pushed in the meantime: the popped frame is gone, and the
\* exception ends the tick.
PopRaises ==
  /\ SimAt("popping")
  /\ tick.size # Cardinality(pending)
  /\ destroyed' = destroyed + 1
  /\ tick' = NoTick
  /\ UNCHANGED <<now, heap, window, counts, call, abandoned, disturbed>>

\* The delivered frame was a command that makes the spacecraft transmit.
Respond ==
  /\ SimAt("delivering")
  /\ HasRoom(1)
  /\ Transmit("sim")
  /\ UNCHANGED <<now, heap, window, tick, history>>

\* Counts the frame only if the callback did not raise.
MutantDelivered ==
  /\ SimAt("delivering")
  /\ \E n \in {0, 1} : counts' = [counts EXCEPT !["delivered"] = @ + n]
  /\ window' = Append(window, tick.until)
  /\ call' = Spoiled(call, "sim")
  /\ tick' = [tick EXCEPT !.pc = "fetching", !.size = 0]
  /\ UNCHANGED <<now, heap, history>>

\* The callback returned, or what it raised was logged.
Delivered ==
  /\ SimAt("delivering")
  /\ counts' = [counts EXCEPT !["delivered"] = @ + 1]
  /\ window' = Append(window, tick.until)
  /\ call' = Spoiled(call, "sim")
  /\ tick' = [tick EXCEPT !.pc = "fetching", !.size = 0]
  /\ UNCHANGED <<now, heap, history>>

\* Nothing more is due.
EndTick ==
  /\ SimAt("fetching")
  /\ Heads = {} \/ \E f \in Heads : f.due > tick.until
  /\ tick' = NoTick
  /\ UNCHANGED <<now, heap, window, counts, call, history>>

-------------------------------------------------------------------------------

\* A command or a chat frame.
ApiTransmit(t) ==
  /\ At(t, "none")
  /\ HasRoom(1)
  /\ Transmit(t)
  /\ Overlaps(t)
  /\ UNCHANGED <<now, heap, window, tick, destroyed, abandoned>>

LinkStep(t) ==
  \/ Prune(t) \/ BeginSum(t) \/ EndSum(t) \/ SumRaises(t)
  \/ BeginPush(t) \/ EndPush(t) \/ PushRaises(t)

SimStep ==
  \/ LinkStep("sim")
  \/ BeginTick \/ SendRecord \/ BeginFetch
  \/ \E f \in pending : BeginPop(f)
  \/ EndPop \/ PopRaises \/ Respond \/ Delivered \/ EndTick

\* Bounds the clock: it moves only while a frame is waiting for its time.
Clock ==
  /\ \E f \in pending : f.due > now
  /\ now' = now + 1
  /\ UNCHANGED <<heap, window, counts, call, tick, history>>

Next ==
  \/ SimStep
  \/ \E t \in ApiThreads : ApiTransmit(t) \/ Statistics(t) \/ LinkStep(t)
  \/ Clock

Spec == Init /\ [][Next]_vars

\* Time passes, the simulation goes on ticking, and a call that was made ends.
FairSpec ==
  /\ Spec
  /\ WF_vars(Clock)
  /\ WF_vars(SimStep)
  /\ \A t \in ApiThreads : WF_vars(LinkStep(t))

-------------------------------------------------------------------------------

TypeOK ==
  /\ now \in Nat
  /\ seq \in Nat
  /\ pending \subseteq [due : Nat, seq : 1 .. seq]
  /\ \A f, g \in pending : f.seq = g.seq => f = g
  /\ ordered \in BOOLEAN
  /\ window \in Seq(Nat)
  /\ counts \in [Counter -> Nat]
  /\ call \in [Thread ->
       [pc : {"none", "pruning", "summing", "spoiled", "scheduled", "sifting"},
        op : {"transmit", "statistics"}, at : Nat, due : Nat, size : Nat]]
  /\ tick \in [pc : {"idle", "sending", "fetching", "popping", "delivering"},
               left : Nat, until : Nat, size : Nat]
  /\ destroyed \in Nat
  /\ abandoned \in Nat
  /\ disturbed \in BOOLEAN

\* Frames a thread has in its hands: not yet in the list, or taken out of it.
Held ==
  Cardinality({t \in Thread : /\ call[t].op = "transmit"
                              /\ call[t].pc \notin {"none", "sifting"}})
    + (IF tick.pc \in {"popping", "delivering"} THEN 1 ELSE 0)

(***************************************************************************)
(* Every frame given to transmit is in a counter of /api/link/status, in   *)
(* pending_queue, or in the hands of a call.  Only an exception can take   *)
(* one out of the books, or cost a tick the records it had still to send,  *)
(* and only if a request used the link along with another thread.          *)
(***************************************************************************)
FramesAreAccounted ==
  /\ counts["transmitted"] =
       counts["lost"] + counts["delivered"] + Cardinality(pending) + Held + destroyed
  /\ destroyed + abandoned > 0 => disturbed

(***************************************************************************)
(* No frame is delivered before its time, and as long as no two threads    *)
(* work on the list of frames at once, none before one that is due         *)
(* earlier, or at the same time and was sent before it.                    *)
(***************************************************************************)
DeliversInOrder ==
  [][\A f \in pending : BeginPop(f) =>
       /\ f.due <= now
       /\ ~disturbed => \A g \in pending :
            g.due > f.due \/ (g.due = f.due /\ g.seq >= f.seq)]_vars

(***************************************************************************)
(* Once no more frames are sent, every frame the link has accepted leaves  *)
(* it, also when requests have disturbed the order of the list and broken  *)
(* off ticks.                                                              *)
(***************************************************************************)
FramesArrive == (~HasRoom(1) /\ tick.left = 0) ~> (pending = {} /\ Held = 0)
===============================================================================
