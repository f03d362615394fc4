------------------------------- MODULE Lifecycle -------------------------------
(***************************************************************************)
(* The life of the simulation loop: start, stop and reset of class         *)
(* Simulation (src/simulation/runner.py), the API requests that call them  *)
(* (src/mission_control/api.py), and the tables a reset empties            *)
(* (src/database/db.py) while loops may still write and requests read.     *)
(*                                                                         *)
(* The requests run on worker threads and share the attributes _thread and *)
(* _stop_event without a lock, so each method is split at every access to  *)
(* them.  The loops are the threads start creates; there should be one.    *)
(*                                                                         *)
(* Of the tables' contents it is kept whether they are of the mission the  *)
(* present objects fly or of an older one, be it one before a reset or one *)
(* of an earlier process with the same database.  packets is written along *)
(* with telemetry; the two tables of events get rows from API threads too. *)
(*                                                                         *)
(* No name here is one of FaultControl's, the other component of the       *)
(* runner, so that a module may extend both.                               *)
(***************************************************************************)
EXTENDS Integers, Sequences, FiniteSets

CONSTANTS
  Clients,   \* worker threads that may be inside start, stop or reset
  MaxLoops   \* bounds the simulation threads ever created

\* The thread pool that serves requests is finite.
ASSUME ClientsAssumption == IsFiniteSet(Clients)
ASSUME MaxLoopsAssumption == MaxLoops \in Nat

Loop == 1 .. MaxLoops
NoLoop == 0

\* The tables in the order wipe_db drops them, and those only ticks write.
Tables == <<"telemetry", "packets", "events", "security_events", "satellite_state">>
TickTable == {"telemetry", "satellite_state"}

Age == {"present", "old"}

VARIABLES
  slowTicks,  \* the machine: may a tick take longer than the 5 s join waits?
  client,     \* per worker thread: the request it serves, where it is in it, the
              \* thread it joins and whether the event was cleared meanwhile, and
              \* how many tables it has dropped
  thread,     \* Simulation._thread
  stopEvent,  \* Simulation._stop_event
  loop,       \* where each simulation thread is
  created,    \* how many simulation threads were created
  begunIn,    \* the mission each simulation thread began its tick in
  missing,    \* the tables that do not exist
  rows,       \* the missions a table has rows of
  brokenOff,  \* history: was a reset broken off, and the tables not restored?
  rebuilt,    \* history: has a reset of this process put new objects in place?
  alone,      \* history: has every request come when no other was under way?
  raced,      \* history: have two requests been creating a thread at once?
  overrun     \* history: has a loop run in the middle of a reset?

control == <<slowTicks, thread, stopEvent, loop, created>>
mission == <<begunIn, missing, rows>>
history == <<brokenOff, rebuilt, alone, raced, overrun>>
lifecycleVars == <<control, client, mission, history>>

Request == {"start", "stop", "reset"}

Place == {"idle", "testing", "clearing", "creating", "launching", "started",
          "stopping", "signalling", "signalled", "joining", "stopped", "wiping",
          "rebuilding"}

NoRequest == [pc |-> "idle", request |-> "stop", joins |-> NoLoop, cleared |-> FALSE,
              dropped |-> 0]

\* create_simulation opens the database of an earlier process if there is one.
LifecycleInit ==
  /\ slowTicks \in BOOLEAN
  /\ client = [t \in Clients |-> NoRequest]
  /\ thread = NoLoop
  /\ stopEvent = FALSE
  /\ loop = [l \in Loop |-> "none"]
  /\ created = 0
  /\ begunIn = [l \in Loop |-> "present"]
  /\ missing = {}
  /\ rows \in [TickTable -> {{}, {"old"}}]
  /\ brokenOff = FALSE
  /\ rebuilt = FALSE
  /\ alone = TRUE
  /\ raced = FALSE
  /\ overrun = FALSE

ClientAt(t, place) == client[t].pc = place

Goto(t, place) == client' = [client EXCEPT ![t].pc = place]

\* threading.Thread.is_alive: started and not yet returned from _loop
Alive(l) == loop[l] \in {"waiting", "ticking"}

\* self._thread and self._thread.is_alive()
ThreadAlive == thread # NoLoop /\ Alive(thread)

InStart(t) == client[t].pc \in {"clearing", "creating", "launching"}

InReset(t) == client[t].pc \in {"wiping", "rebuilding"}

\* The requests that may still create a thread
Creators == {t \in Clients : client[t].request # "stop"
                              /\ client[t].pc \notin {"idle", "launching", "started"}}

-------------------------------------------------------------------------------
(* The requests *)

\* reset_simulation calls reset and then start; stop is the first thing in it.
Serve(t, request) ==
  /\ ClientAt(t, "idle")
  /\ request # "stop" => created + Cardinality(Creators) < MaxLoops
  /\ client' = [client EXCEPT ![t].pc = IF request = "start" THEN "testing" ELSE "stopping",
                              ![t].request = request]
  /\ alone' = (alone /\ \A u \in Clients : ClientAt(u, "idle"))
  /\ UNCHANGED <<control, mission, brokenOff, rebuilt, raced, overrun>>

-------------------------------------------------------------------------------
(* start *)

\* Creates another thread whatever the first one does.
MutantTestAlive(t) ==
  /\ ClientAt(t, "testing")
  /\ Goto(t, "clearing")
  /\ raced' = (raced \/ \E u \in Clients : InStart(u))
  /\ UNCHANGED <<control, mission, brokenOff, rebuilt, alone, overrun>>

TestAlive(t) ==
  /\ ClientAt(t, "testing")
  /\ Goto(t, IF ThreadAlive THEN "started" ELSE "clearing")
  /\ raced' = (raced \/ (~ThreadAlive /\ \E u \in Clients : InStart(u)))
  /\ UNCHANGED <<control, mission, brokenOff, rebuilt, alone, overrun>>

\* A stop that has set the event and waits for the loop to see it waits in vain.
ClearEvent(t) ==
  /\ ClientAt(t, "clearing")
  /\ stopEvent' = FALSE
  /\ client' = [u \in Clients |->
       IF u = t THEN [client[u] EXCEPT !.pc = "creating"]
       ELSE IF client[u].pc \in {"signalled", "joining"} THEN [client[u] EXCEPT !.cleared = TRUE]
       ELSE client[u]]
  /\ UNCHANGED <<slowTicks, thread, loop, created, mission, history>>

\* Assigns the attribute before there is a thread for it.
MutantCreate(t) ==
  /\ ClientAt(t, "creating")
  /\ created' = created + 1
  /\ thread' = created'
  /\ Goto(t, "launching")
  /\ UNCHANGED <<slowTicks, stopEvent, loop, mission, history>>

\* self._thread = threading.Thread(...)
Create(t) ==
  /\ ClientAt(t, "creating")
  /\ created' = created + 1
  /\ thread' = created'
  /\ loop' = [loop EXCEPT ![created'] = "created"]
  /\ Goto(t, "launching")
  /\ UNCHANGED <<slowTicks, stopEvent, mission, history>>

\* self._thread.start()
Launch(t) ==
  /\ ClientAt(t, "launching")
  /\ loop[thread] = "created"
  /\ loop' = [loop EXCEPT ![thread] = "waiting"]
  /\ Goto(t, "started")
  /\ overrun' = (overrun \/ \E u \in Clients : InReset(u))
  /\ UNCHANGED <<slowTicks, thread, stopEvent, created, mission, brokenOff, rebuilt, alone, raced>>

\* RuntimeError: another request has started the thread of the attribute before.
LaunchRaises(t) ==
  /\ ClientAt(t, "launching")
  /\ loop[thread] # "created"
  /\ Goto(t, "idle")
  /\ UNCHANGED <<control, mission, history>>

\* The answer {"running": True} goes to the client.
Started(t) ==
  /\ ClientAt(t, "started")
  /\ Goto(t, "idle")
  /\ UNCHANGED <<control, mission, history>>

-------------------------------------------------------------------------------
(* stop, and reset around it *)

TestRunning(t) ==
  /\ ClientAt(t, "stopping")
  /\ Goto(t, IF ThreadAlive THEN "signalling" ELSE "stopped")
  /\ UNCHANGED <<control, mission, history>>

SetEvent(t) ==
  /\ ClientAt(t, "signalling")
  /\ stopEvent' = TRUE
  /\ Goto(t, "signalled")
  /\ UNCHANGED <<slowTicks, thread, loop, created, mission, history>>

\* self._thread.join(timeout=5.0) reads the attribute once.
BeginJoin(t) ==
  /\ ClientAt(t, "signalled")
  /\ loop[thread] # "created"
  /\ client' = [client EXCEPT ![t].pc = "joining", ![t].joins = thread]
  /\ UNCHANGED <<control, mission, history>>

\* RuntimeError: another request has put a thread there that is not started yet.
JoinRaises(t) ==
  /\ ClientAt(t, "signalled")
  /\ loop[thread] = "created"
  /\ client' = [client EXCEPT ![t].pc = "idle", ![t].cleared = FALSE]
  /\ UNCHANGED <<control, mission, history>>

\* The timeout of join is over before the tick, or nothing tells the loop to end.
TimedOut(t) == slowTicks \/ client[t].cleared

\* Does not wait for the thread.
MutantJoin(t) ==
  /\ ClientAt(t, "joining")
  /\ client' = [client EXCEPT ![t].pc = "stopped", ![t].joins = NoLoop, ![t].cleared = FALSE]
  /\ UNCHANGED <<control, mission, history>>

\* join returns, and stop does not ask why.
Join(t) ==
  /\ ClientAt(t, "joining")
  /\ ~Alive(client[t].joins) \/ TimedOut(t)
  /\ client' = [client EXCEPT ![t].pc = "stopped", ![t].joins = NoLoop, ![t].cleared = FALSE]
  /\ UNCHANGED <<control, mission, history>>

\* stop is over.
Stopped(t) ==
  /\ ClientAt(t, "stopped")
  /\ client[t].request = "stop"
  /\ Goto(t, "idle")
  /\ UNCHANGED <<control, mission, history>>

\* reset goes on with the tables.
BeginWipe(t) ==
  /\ ClientAt(t, "stopped")
  /\ client[t].request = "reset"
  /\ Goto(t, "wiping")
  /\ overrun' = (overrun \/ \E l \in Loop : Alive(l))
  /\ UNCHANGED <<control, mission, brokenOff, rebuilt, alone, raced>>

\* DROP TABLE IF EXISTS, one table after the other
DropTable(t) ==
  /\ ClientAt(t, "wiping")
  /\ client[t].dropped < Len(Tables)
  /\ client' = [client EXCEPT ![t].dropped = @ + 1]
  /\ LET table == Tables[client[t].dropped + 1] IN
       /\ missing' = missing \union {table}
       /\ rows' = [b \in TickTable |-> IF b = table THEN {} ELSE rows[b]]
  /\ UNCHANGED <<control, begunIn, history>>

\* DROP TABLE raises "database table is locked" in the middle of a SELECT of any
\* table, and the client of the reset gets an error.  The rows of a query are
\* fetched one by one, and any request may be between two of them.
DropRaises(t) ==
  /\ ClientAt(t, "wiping")
  /\ client[t].dropped < Len(Tables)
  /\ client' = [client EXCEPT ![t].pc = "idle", ![t].dropped = 0]
  /\ brokenOff' = TRUE
  /\ UNCHANGED <<control, mission, rebuilt, alone, raced, overrun>>

\* init_db
RestoreTables(t) ==
  /\ ClientAt(t, "wiping")
  /\ client[t].dropped = Len(Tables)
  /\ client' = [client EXCEPT ![t].pc = "rebuilding", ![t].dropped = 0]
  /\ missing' = {}
  /\ brokenOff' = FALSE
  /\ UNCHANGED <<control, begunIn, rows, rebuilt, alone, raced, overrun>>

\* New objects for a new mission; start follows.
Rebuild(t) ==
  /\ ClientAt(t, "rebuilding")
  /\ rows' = [b \in TickTable |-> IF rows[b] = {} THEN {} ELSE {"old"}]
  /\ begunIn' = [l \in Loop |-> IF loop[l] = "ticking" THEN "old" ELSE "present"]
  /\ rebuilt' = TRUE
  /\ Goto(t, "testing")
  /\ UNCHANGED <<control, missing, brokenOff, alone, raced, overrun>>

-------------------------------------------------------------------------------
(* _loop *)

\* Never looks at the event.
MutantTestStop(l) ==
  /\ loop[l] = "waiting"
  /\ loop' = [loop EXCEPT ![l] = "ticking"]
  /\ UNCHANGED <<slowTicks, client, thread, stopEvent, created, mission, history>>

\* while not self._stop_event.is_set()
TestStop(l) ==
  /\ loop[l] = "waiting"
  /\ loop' = [loop EXCEPT ![l] = IF stopEvent THEN "dead" ELSE "ticking"]
  /\ UNCHANGED <<slowTicks, client, thread, stopEvent, created, mission, history>>

\* insert_telemetry and upsert_satellite_state, with what the objects of the
\* tick hold: those it began with, or those that have replaced them.  There is
\* one row of satellite_state.  Without its table a write raises.
Write(l, table) ==
  /\ loop[l] = "ticking"
  /\ table \notin missing
  /\ \E age \in {"present", begunIn[l]} :
       rows' = [rows EXCEPT ![table] =
         IF table = "satellite_state" THEN {age} ELSE @ \union {age}]
  /\ UNCHANGED <<control, client, begunIn, missing, history>>

\* tick_once returns or raises, and the loop waits out the interval.
FinishTick(l) ==
  /\ loop[l] = "ticking"
  /\ loop' = [loop EXCEPT ![l] = "waiting"]
  /\ begunIn' = [begunIn EXCEPT ![l] = "present"]
  /\ UNCHANGED <<slowTicks, client, thread, stopEvent, created,
                 missing, rows, history>>

-------------------------------------------------------------------------------

LoopStep(l) == TestStop(l) \/ FinishTick(l)

ClientStep(t) ==
  \/ TestAlive(t) \/ ClearEvent(t) \/ Create(t) \/ Launch(t) \/ LaunchRaises(t) \/ Started(t)
  \/ TestRunning(t) \/ SetEvent(t) \/ BeginJoin(t) \/ JoinRaises(t) \/ Join(t) \/ Stopped(t)
  \/ BeginWipe(t) \/ DropTable(t) \/ DropRaises(t) \/ RestoreTables(t) \/ Rebuild(t)

LifecycleNext ==
  \/ \E t \in Clients : ClientStep(t) \/ \E r \in Request : Serve(t, r)
  \/ \E l \in Loop : LoopStep(l) \/ \E b \in TickTable : Write(l, b)

LifecycleSpec == LifecycleInit /\ [][LifecycleNext]_lifecycleVars

\* A loop that can run does run; no client has to make a request or to go on.
FairLifecycle ==
  /\ LifecycleSpec
  /\ \A l \in Loop : WF_lifecycleVars(LoopStep(l))

-------------------------------------------------------------------------------

LifecycleTypeOK ==
  /\ slowTicks \in BOOLEAN
  /\ client \in [Clients -> [pc : Place, request : Request, joins : Loop \union {NoLoop},
                            cleared : BOOLEAN, dropped : 0 .. Len(Tables)]]
  /\ thread \in Loop \union {NoLoop}
  /\ stopEvent \in BOOLEAN
  /\ loop \in [Loop -> {"none", "created", "waiting", "ticking", "dead"}]
  /\ created \in 0 .. MaxLoops
  /\ \A l \in Loop : loop[l] = "none" <=> l > created
  /\ begunIn \in [Loop -> Age]
  /\ missing \subseteq {Tables[i] : i \in 1 .. Len(Tables)}
  /\ rows \in [TickTable -> SUBSET Age]
  /\ brokenOff \in BOOLEAN /\ rebuilt \in BOOLEAN
  /\ alone \in BOOLEAN /\ raced \in BOOLEAN /\ overrun \in BOOLEAN

(***************************************************************************)
(* "advances the simulation on a background loop" (runner.py:5): requests  *)
(* to start, stop and reset may overlap in every way but one, and there is *)
(* one loop, never two that tick the same spacecraft.  The one way: a      *)
(* request passes start's test while another is between that test and the  *)
(* launch.  When start answers a client, and requests have come one after  *)
(* the other and ticks end before join gives up, the loop runs and nobody  *)
(* has told it to stop: "running" is no leftover of a loop about to end.   *)
(***************************************************************************)
StartedMeansOneLoop ==
  /\ ~raced => \A k, l \in Loop : (Alive(k) /\ Alive(l)) => k = l
  /\ (alone /\ ~slowTicks) =>
       \A t \in Clients : ClientAt(t, "started") => ThreadAlive /\ ~stopEvent

(***************************************************************************)
(* "Full reset: fresh objects + empty tables, simulation stopped"          *)
(* (runner.py:79).  No loop runs in the middle of a reset if requests come *)
(* one after the other and ticks end before join gives up.  However        *)
(* requests overlap, as long as no loop has run in the middle of a reset   *)
(* the tables hold, from the first one on, what the present mission has    *)
(* written and nothing of an earlier one.  Tables are missing only in the  *)
(* middle of a reset, or if a SELECT broke one off, until the next one.    *)
(***************************************************************************)
ResetLeavesOneMission ==
  /\ (alone /\ ~slowTicks) => ~overrun
  /\ (rebuilt /\ ~overrun) => \A b \in TickTable : rows[b] \subseteq {"present"}
  /\ missing # {} => brokenOff \/ \E t \in Clients : InReset(t)

(***************************************************************************)
(* Once the event is set every loop ends, also one that races have left    *)
(* behind and no attribute names, unless a start takes the event back.     *)
(***************************************************************************)
StopEndsTheLoops ==
  stopEvent ~> (~stopEvent \/ \A l \in Loop : ~Alive(l))
===============================================================================
