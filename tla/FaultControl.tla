----------------------------- MODULE FaultControl -----------------------------
(***************************************************************************)
(* Fault injection: FaultController (src/simulation/faults.py), its        *)
(* clients in the HTTP API (src/mission_control/api.py), and its readers   *)
(* in the tick: from Spacecraft._apply_fault_state on, through telemetry   *)
(* and the link, to expire at the end (src/satelite/spacecraft.py,         *)
(* src/communication/link.py, src/simulation/runner.py).                   *)
(*                                                                         *)
(* API requests run on worker threads and share the dictionary of active   *)
(* faults with the simulation thread, without a lock.  expire therefore    *)
(* runs in steps: one for each item its comprehension visits, and one for  *)
(* each fault it pops.                                                     *)
(*                                                                         *)
(* Simulated time is counted in ticks.                                     *)
(***************************************************************************)
EXTENDS Integers, Sequences, FiniteSets

CONSTANTS
  Fault,       \* the names of FAULT_REGISTRY in play
  ApiThreads,  \* worker threads that may be inside inject
  Durations,   \* per fault, the values FaultRequest.duration_s is given
  Unlimited,   \* None: the fault lasts until it is cleared
  MaxTime      \* bounds the ticks of one spacecraft's life

ASSUME FaultAssumption == Fault # {}
ASSUME DurationsAssumption ==
  Unlimited \notin Nat /\ Durations \in [Fault -> SUBSET (Nat \union {Unlimited})]
ASSUME MaxTimeAssumption == MaxTime \in Nat

VARIABLES
  active,      \* the keys of FaultController._active
  entry,       \* its values: ActiveFault.injected_at and duration_s
  worker,      \* per worker thread, its call of inject
  simTime,     \* Spacecraft.sim_time
  pc,          \* where the simulation thread is in tick_once
  size,        \* expire: the size of the dictionary when its iteration began
  visited,     \* expire: the items the comprehension has seen
  expired,     \* expire: the list it builds and then pops from
  lived,       \* history: the ticks each fault has acted in since it became active
  interfered,  \* history: has an API thread changed the set during this expire?
  replaced,    \* history: the active faults whose entry a second inject replaced
  missed,      \* history: how many ticks in a row have let the faults act and
               \* then not got to the end of expire
  sameClock    \* history: has the simulation never been reset?

expireVars == <<size, visited, expired>>
historyVars == <<lived, interfered, replaced, missed, sameClock>>
vars == <<active, entry, worker, pc, expireVars, simTime, historyVars>>

Duration == Nat \union {Unlimited}

Entry == [at : Nat, duration : Duration]

NoEntry == [at |-> 0, duration |-> Unlimited]

Idle == [pc |-> "idle", fault |-> CHOOSE n \in Fault : TRUE, entry |-> NoEntry]

Init ==
  /\ active = {}
  /\ entry = [n \in Fault |-> NoEntry]
  /\ worker = [t \in ApiThreads |-> Idle]
  /\ simTime = 0
  /\ pc = "tick"
  /\ size = 0
  /\ visited = {}
  /\ expired = << >>
  /\ lived = [n \in Fault |-> 0]
  /\ interfered = FALSE
  /\ replaced = {}
  /\ missed = 0
  /\ sameClock = TRUE

-------------------------------------------------------------------------------
(* The API *)

At(t, place) == worker[t].pc = place

Touched == interfered' = (interfered \/ pc \in {"scan", "pop"})

\* inject_fault: the simulated time is read before inject is called.
CallInject(t, n, d) ==
  /\ At(t, "idle")
  /\ worker' = [worker EXCEPT ![t] = [pc |-> "called", fault |-> n,
                                      entry |-> [at |-> simTime, duration |-> d]]]
  /\ UNCHANGED <<active, entry, pc, expireVars, simTime, historyVars>>

\* if name in self._active: raise ValueError   (409)
CheckInactive(t) ==
  /\ At(t, "called")
  /\ worker' = [worker EXCEPT ![t] =
                  IF @.fault \in active THEN Idle ELSE [@ EXCEPT !.pc = "checked"]]
  /\ UNCHANGED <<active, entry, pc, expireVars, simTime, historyVars>>

\* self._active[name] = ActiveFault(name, sim_time, duration_s).  In the midst of
\* a tick the fault acts at once: a link fault on the next frame, SENSOR_ANOMALY
\* on the next record.  A fault that another request has activated since the
\* test goes on acting, with the new entry.
Activate(t) ==
  LET n == worker[t].fault IN
  /\ At(t, "checked")
  /\ active' = active \union {n}
  /\ entry' = [entry EXCEPT ![n] = worker[t].entry]
  /\ worker' = [worker EXCEPT ![t] = Idle]
  /\ IF n \in active
       THEN replaced' = replaced \union {n} /\ UNCHANGED lived
       ELSE /\ lived' = [lived EXCEPT ![n] = IF pc = "running" THEN 1 ELSE 0]
            /\ UNCHANGED replaced
  /\ Touched
  /\ UNCHANGED <<pc, expireVars, simTime, missed, sameClock>>

\* Takes the item of n out of the dictionary.
Remove(n) ==
  /\ n \in active
  /\ active' = active \ {n}
  /\ entry' = [entry EXCEPT ![n] = NoEntry]
  /\ lived' = [lived EXCEPT ![n] = 0]
  /\ replaced' = replaced \ {n}

\* clear: self._active.pop(name, None)   (404 if there was none)
Clear(n) ==
  /\ Remove(n)
  /\ Touched
  /\ UNCHANGED <<worker, pc, expireVars, simTime, missed, sameClock>>

\* Simulation.reset with the loop stopped: a new spacecraft, the same faults.  The
\* ticks of the new one are counted anew.
Reset ==
  /\ pc = "tick"
  /\ simTime' = 0
  /\ lived' = [n \in Fault |-> 0]
  /\ replaced' = {}
  /\ missed' = 0
  /\ sameClock' = FALSE
  /\ UNCHANGED <<active, entry, worker, pc, expireVars, interfered>>

-------------------------------------------------------------------------------
(* The tick *)

\* The boot sequence and the subsystems, which get dt_s too, advance it as well.
MutantAdvanced(time) == time + 3

\* self.sim_time += dt_s
Advanced(time) == time + 1

\* From _apply_fault_state on the faults act: on the subsystems, on the records of
\* produce_telemetry, on the frames of link.transmit, until fetch_due returns.  A
\* request that comes after the clock was advanced finds the tick running.
BeginTick ==
  /\ pc = "tick"
  /\ simTime < MaxTime
  /\ simTime' = Advanced(simTime)
  /\ lived' = [n \in Fault |->
                 IF n \in active /\ lived[n] <= MaxTime THEN lived[n] + 1 ELSE lived[n]]
  /\ pc' = "running"
  /\ UNCHANGED <<active, entry, worker, expireVars, interfered, replaced, missed, sameClock>>

\* InvalidModeTransition leaves _boot_progression before any fault is looked at.
BootAborts ==
  /\ pc = "tick"
  /\ simTime < MaxTime
  /\ simTime' = Advanced(simTime)
  /\ UNCHANGED <<active, entry, worker, pc, expireVars, historyVars>>

\* link.transmit or the heappop of fetch_due raises: tick_once is left without expire.
AbortTick ==
  /\ pc = "running"
  /\ pc' = "tick"
  /\ missed' = missed + 1
  /\ UNCHANGED <<active, entry, worker, expireVars, simTime, lived, interfered, replaced,
                 sameClock>>

\* The comparison made strict.
MutantElapsed(n) ==
  entry[n].duration # Unlimited /\ simTime - entry[n].at > entry[n].duration

Elapsed(n) ==
  entry[n].duration # Unlimited /\ simTime - entry[n].at >= entry[n].duration

\* for n, f in self._active.items()
BeginExpire ==
  /\ pc = "running"
  /\ pc' = "scan"
  /\ size' = Cardinality(active)
  /\ UNCHANGED <<active, entry, worker, visited, expired, simTime, historyVars>>

\* The tick is over and expire's locals are gone.
LeaveExpire ==
  /\ pc' = "tick"
  /\ size' = 0
  /\ visited' = {}
  /\ expired' = << >>
  /\ interfered' = FALSE
  /\ UNCHANGED <<active, entry, worker, simTime, lived, sameClock>>

\* Pops an elapsed fault as soon as the iteration meets it.
MutantVisit(n) ==
  /\ pc = "scan"
  /\ Cardinality(active) = size
  /\ n \in active \ visited
  /\ visited' = visited \union {n}
  /\ IF Elapsed(n) THEN Remove(n) ELSE UNCHANGED <<active, entry, lived, replaced>>
  /\ UNCHANGED <<worker, pc, size, expired, simTime, interfered, missed, sameClock>>

\* The comprehension looks at one more item.
Visit(n) ==
  /\ pc = "scan"
  /\ Cardinality(active) = size
  /\ n \in active \ visited
  /\ visited' = visited \union {n}
  /\ expired' = IF Elapsed(n) THEN Append(expired, n) ELSE expired
  /\ UNCHANGED <<active, entry, worker, pc, size, simTime, historyVars>>

EndScan ==
  /\ pc = "scan"
  /\ Cardinality(active) = size
  /\ active \subseteq visited
  /\ pc' = "pop"
  /\ UNCHANGED <<active, entry, worker, expireVars, simTime, historyVars>>

\* RuntimeError: the dictionary changed its size during the iteration.
ScanRaises ==
  /\ pc = "scan"
  /\ Cardinality(active) # size
  /\ LeaveExpire
  /\ missed' = missed + 1
  /\ UNCHANGED replaced

\* self._active.pop(name)
Pop ==
  /\ pc = "pop"
  /\ expired # << >>
  /\ Remove(Head(expired))
  /\ expired' = Tail(expired)
  /\ UNCHANGED <<worker, pc, size, visited, simTime, interfered, missed, sameClock>>

\* KeyError: another thread has cleared the fault in the meantime.
PopRaises ==
  /\ pc = "pop"
  /\ expired # << >>
  /\ Head(expired) \notin active
  /\ LeaveExpire
  /\ missed' = missed + 1
  /\ UNCHANGED replaced

\* expire returns and the tick goes on to the link gate and the snapshot.  One that
\* nobody interfered with has looked at the entries that replaced others, too.
EndTick ==
  /\ pc = "pop"
  /\ expired = << >>
  /\ LeaveExpire
  /\ missed' = 0
  /\ replaced' = IF interfered THEN replaced ELSE {}

-------------------------------------------------------------------------------

Inject(t) ==
  \/ \E n \in Fault : \E d \in Durations[n] : CallInject(t, n, d)
  \/ CheckInactive(t)
  \/ Activate(t)

Expire ==
  \/ BeginExpire
  \/ \E n \in Fault : Visit(n)
  \/ EndScan \/ ScanRaises \/ Pop \/ PopRaises

Next ==
  \/ \E t \in ApiThreads : Inject(t)
  \/ \E n \in Fault : Clear(n)
  \/ Reset
  \/ BeginTick \/ BootAborts \/ AbortTick
  \/ Expire
  \/ EndTick

Spec == Init /\ [][Next]_vars

-------------------------------------------------------------------------------

TypeOK ==
  /\ active \subseteq Fault
  /\ entry \in [Fault -> Entry]
  /\ worker \in [ApiThreads -> [pc : {"idle", "called", "checked"}, fault : Fault,
                                entry : Entry]]
  /\ simTime \in 0 .. MaxTime
  /\ pc \in {"tick", "running", "scan", "pop"}
  /\ size \in Nat
  /\ visited \subseteq Fault
  /\ expired \in Seq(Fault)
  /\ lived \in [Fault -> 0 .. MaxTime + 1]
  /\ interfered \in BOOLEAN
  /\ replaced \subseteq Fault
  /\ missed \in Nat
  /\ sameClock \in BOOLEAN

(***************************************************************************)
(* A fault injected for a duration of d ticks acts in no more than d + 1   *)
(* of them (the first may be the rest of the tick it is injected in),      *)
(* wherever in a tick it was injected and however late its request was     *)
(* executed.  Each tick that was left before expire removed anything, or   *)
(* in the midst of expire, adds one until an expire gets to its end.  If   *)
(* two requests raced past the test of inject and one replaced the entry   *)
(* of the other, the entry that stayed is kept to from the next expire on  *)
(* that nobody interferes with; if the simulation was reset, the entries   *)
(* tell the time of another clock.                                         *)
(***************************************************************************)
ActsNoLongerThanItsDuration ==
  \A n \in active \ replaced :
    (sameClock /\ entry[n].duration # Unlimited) =>
      lived[n] <= entry[n].duration + 1 + missed

(***************************************************************************)
(* "Remove faults whose duration elapsed" (faults.py:137): as long as no   *)
(* API request changes the set of faults while it runs, expire raises      *)
(* nothing, removes no fault that still has time to run, and leaves none   *)
(* whose time is over.                                                     *)
(***************************************************************************)
ExpireAloneIsExact ==
  [][~interfered =>
       /\ ~ScanRaises /\ ~PopRaises
       /\ Pop => Elapsed(Head(expired))
       /\ EndTick => \A n \in active : ~Elapsed(n)]_vars
===============================================================================
