# A verification project for the Zee-1 satellite telemetry simulator

TLA+ modules that model the control logic of the simulator in `src/`, TLC
configurations that check them on small instances, and TLAPS proofs that hold
for every value of the constants.

The simulator runs one spacecraft, one ground station and the radio link between
them. A background thread advances simulated time tick by tick; an HTTP API
(FastAPI, so synchronous handlers run on a pool of worker threads) reads and
changes the same objects. **No object of the mission is protected by a lock.**
Most of the project is about what that means, and about what a lossy, reordering
link and a queue of limited capacity do to records and commands.

The source directories are spelled `src/satelite/` and `src/grounf_station/`,
while the imports say `satellite` and `ground_station`. The models take the code
as if it were importable, and use the paths as they are.

1. [Inventory](#1-inventory)
2. [How the modules correspond to the code](#2-how-the-modules-correspond-to-the-code)
3. [What the runs check](#3-what-the-runs-check)
4. [Fairness](#4-fairness)
5. [What is proved](#5-what-is-proved)
6. [Disagreements between the code and its documentation](#6-disagreements-between-the-code-and-its-documentation)
7. [Abstractions, and what is not modelled](#7-abstractions-and-what-is-not-modelled)
8. [Plan](#8-plan)

Run a check with `tlc -config X.cfg M`, a proof with `tlapm M.tla`.
`PROJECT.json` lists the runs, a mutant of the code for each property, the
source lines of every definition, the hazards, the findings and the theorems.

## 1. Inventory

Two kinds of threads exist. The **simulation thread** runs `Simulation._loop`,
which calls `tick_once` and catches what it raises. **Worker threads** run the
API handlers. A tick is, in this order: `Spacecraft.tick` (faults, boot sequence,
orbit, subsystems, thresholds, telemetry, transmission), `SpaceLink.fetch_due`
(which calls back into ground station, spacecraft and chat channel),
`FaultController.expire`, `SpaceLink.set_visibility`,
`GroundStation.update_contact`, `Store.upsert_satellite_state`.

| Component (source) | State | Operations that change it | Who calls them | What is hard | What makes it correct |
|---|---|---|---|---|---|
| Onboard storage (`satelite/storage.py`) | three priority buckets, capacity, dropped counter | `enqueue`, `drain`, `clear`; capacity set from outside | spacecraft | a full queue; a capacity that shrinks below the fill level; draining under a limit | no record unaccounted for; FIFO per priority; urgent first out, least urgent first dropped |
| Mode state machine (`satelite/modes.py`) | mode, history | `transition`, `to_safe` | simulation thread and API | test, read and assignment of the mode are apart | BOOT ends in INIT, whatever interferes |
| Spacecraft (`satelite/spacecraft.py`) | boot and init timers, sequence number, replay guard, command results | `tick`, `on_uplink`, `request_mode` | simulation thread; API | the boot sequence raises if the mode moved under it; order of payload update and thresholds | boot ends; critical health leads to SAFE; results say what ran |
| Subsystems (`satelite/subsystems.py`) | battery, temperatures, CPU, attitude, radio, payload | one `update` each | spacecraft | fault overrides set before an `update` that resets them | the state shown is the state acted on |
| Orbit, visibility (`satelite/orbit.py`, `communication/visibility.py`) | none | pure | spacecraft | floating point | - |
| Space link (`communication/link.py`) | gate, heap of pending frames, counters, rate window | `transmit`, `fetch_due`, `set_visibility`, `statistics` (prunes the window) | both kinds of threads | loss, corruption, jitter; two threads in one heap or one sum | every frame is delivered or in a counter; in order of due time; all of them leave |
| RF channel (`communication/rf_channel.py`) | random generator | `transmit_data`, `set_eb_n0_db` | link | randomness | - |
| Frames (`telemetry/packet.py`, `crc.py`, `schema.py`) | none | encode, decode, CRC | both ends | damage the CRC cannot see | damage is detected, or decoding fails harmlessly |
| Ground station downlink (`grounf_station/`) | validator, counters, contact, previous record | `on_downlink`, `update_contact` | link, simulation thread | gaps, late frames, duplicates under reordering; a decoder that raises | the counters tell the truth and agree with the tables |
| Telecommand uplink (`grounf_station/station.py`, `security/replay.py`) | `command_seq`, two replay guards, results | `send_telecommand`, `on_uplink`, `handle_command` | API; simulation thread | check and record apart; commands overtaking each other | executed once, in order, with a result |
| Command registry, authentication (`security/commands.py`, `commands_auth.py`) | none | pure | both ends | - | - |
| Fault injection (`simulation/faults.py`) | dictionary of active faults | `inject`, `clear`, `expire` | API; simulation thread | iteration over a dictionary others change; stale list of names | a fault lasts its duration; expire never breaks a tick by itself |
| Simulation runner (`simulation/runner.py`) | thread, stop event, all objects | `start`, `stop`, `reset`, `tick_once` | API | two starts; a join that times out; a reset under readers and writers | one loop; a reset leaves one mission |
| Message tester (`communication/chat.py`) | next id, table of messages | `send`, `receive` | API; simulation thread | id counter without a lock; damaged headers | what is shown was sent; reports are exact |
| Events (`simulation/events.py`), anomaly rules (`simulation/anomaly.py`) | the list of events | `emit`, `clear` | everybody | one sink on every thread; rules that compare with the record before | no event is lost silently; every rule runs |
| Database (`database/db.py`, `store.py`) | five SQLite tables, one open transaction | inserts, `wipe_db`, `init_db` | everybody | one connection and one transaction for all threads; swallowed failures, which may roll it back; a process that stops between two commits | tables explain one another and the counters |
| Mission control API (`mission_control/api.py`) | the singleton simulation | handlers | clients | everything above at once | - |
| Configuration, dashboard | - | - | - | - | not modelled, see section 7 |

## 2. How the modules correspond to the code

| Module | Models | Uses |
|---|---|---|
| `StorageOps` | pure effect of `enqueue` and `drain` on the buckets | - |
| `OnboardStorage` | the queue as a component, with the capacity writer | `StorageOps` |
| `SpacecraftModes` | `ModeController` with its callers: boot sequence, thresholds, commands, `request_mode` | - |
| `CommandExecution` | abstract: commands are executed once and in order, after they were issued | - |
| `Telecommand` | request, ground guard, link, spacecraft gate, results | refines `CommandExecution` |
| `SequenceTracking` | `Validator` of the ground station | - |
| `StoreAndForward` | the tick: production, buffering, transmission, delivery, gate | composes `StorageOps` and `SequenceTracking` |
| `SpaceLink` | the link in time: delivery times, heap, rate window, racing callers | - |
| `AnomalyRules` | `detect_anomalies`, all rules | - |
| `GroundStation` | `on_downlink`, `update_contact`, event bus, tables, restarts | composes `SequenceTracking` and `AnomalyRules` |
| `Crc16` | the checksum and its use by frames, with bit-by-bit division as reference | - |
| `FaultControl` | `FaultController`, API and the tick's uses of it | - |
| `ChatChannel` | `ChatChannel`, the link it uses, and the routing of frames | - |
| `Lifecycle` | `start`, `stop`, `reset`, the loop, and the tables under them | - |
| `MC...` | definitions only TLC needs: symmetry (`MCTelecommand`, `MCFaultControl`), sensor readings and facts about `Crc16` (`MCGroundStation`), the drain loop as reference (`MCStoreAndForward`) | the component |
| `...Proofs` | theorems | the component and TLAPS |

**How threads are split.** A method that worker threads may run at the same time
is split into one action for each access to shared state (`Telecommand`:
eight steps for `send_telecommand`; `SpacecraftModes`: `Check`, `Read`, `Assign`
for a transition; `ChatChannel`: four steps of `send` and one for each chunk, and
two of `receive` where it finds no message; `Lifecycle`: every access to `_thread`
and `_stop_event`). What only the simulation thread
touches is one action for the whole handler (`Telecommand.Deliver`,
`StoreAndForward.SpacecraftTick`). `FaultControl` splits `expire` item by item,
because the dictionary may change under the iteration and under the pops.
`SpaceLink` splits where CPython 3.12 (the version of the `Dockerfile`) may switch
threads and another thread can tell: it looks for a request to switch when a Python
function begins, when a call has returned and when a loop jumps back.
`heapq.heappush` is no single step, since it calls `_Pending.__lt__`, and neither is
`sum` over a generator. The other modules split at every access, which allows at
least as many interleavings.

**Where the link raises.** `SpaceLink` shows how a request in the middle of a tick
makes `transmit` or `fetch_due` raise RuntimeError: the `sum` over the rate window
(`link.py:183`) when the frame is in no list yet, `heappush` (`link.py:174`) when it is,
`heappop` (`link.py:194`) when it is in none any more. The modules that call the link
take each of these as possible at each call: a request for a telecommand or a
message ends in the middle (`Telecommand`, `ChatChannel`), a tick is left with what it
had in hand (`StoreAndForward`, `SpacecraftModes`, `FaultControl`), and an exception in
the delivery of a frame, REQUEST_TELEMETRY's above all, is swallowed (`link.py:199`).

**OnboardStorage.** `queue`, `capacity`, `dropped` are the attributes. `next`
numbers the records, so "older" is "smaller"; `offered` and `drained` count calls
and are history. `Enqueue` makes room for one record and then tests again, as the
code does: when STORAGE_FULL has put the capacity below the fill level one call
loses two records. `drain` is a loop over the buckets in the code and a closed
form here (`Taken`, `AfterDrain`); `DrainIsTheLoop` of `MCStoreAndForward` is the
assumption, evaluated by TLC for small queues, that they are equal.

**SpacecraftModes.** `call[t]` is thread t's call of the ModeController in
progress; `pc` is the simulation thread's place in the tick. The subsystems are
reduced to `health`, which decides the self checks and the critical thresholds and
may be anything each tick. `frames` (history) shows the records just produced, by the
tick itself or by a REQUEST_TELEMETRY inside `fetch_due`, with category and mode;
`interfered` (history) says that an API request, or an earlier command of the same
`fetch_due`, has changed the mode in this tick.

**Telecommand.** `thread[t]` is a worker inside `send_telecommand`, with the
value it has read; `groundGuard` and `guard` are the two replay guards, each a
bounded bucket and a watermark; `sent`, `alone`, `heard`, `executed`, `broken`, `raised`
are history. `Transmit` may raise, with the frame under way or lost: the request then
ends between the guard's record and `command_seq += 1`, and `raised` remembers it.
`ExecuteRaises` is the command whose number is consumed and which leaves no result:
`broken` has it.

**StoreAndForward.** A record is its sequence number. `counts` holds the counters
the code keeps in storage, link and station. `pc` alternates between the
spacecraft's tick and the delivery of what is due; the gate changes last. `config`
is chosen once and never changes. `RequestTelemetry` produces and dispatches in the
middle of the delivery. `RaiseInView` is a tick, or a request for telemetry, whose
transmission raises over some record, new or drained, and `AbortFetch` a delivery
broken off by a pop; `errors` (history) counts these exceptions and `spilled`
(history) the records they cost, which no counter of the code has.

**SpaceLink.** `pending` is the list `_pending`, as a set of due times and numbers;
`ordered` says whether it is a heap. The head of a heap is its least frame; while
another thread is sifting, or once the order is lost, any frame may be at
`_pending[0]`. `heappush` and `heappop` compare items and raise RuntimeError when the
size of the list has changed meanwhile; the item is in the list already when
`heappush` raises and is out of it when `heappop` does. `sum` raises when the deque
changed under its iterator. `call[t]` is a thread inside `transmit` or `statistics`,
`tick` the simulation thread inside `tick_once`. An exception of `transmit` ends the
tick, but one raised in the delivery of a frame is caught by `fetch_due`.
`destroyed`, `abandoned`, `disturbed` are history.

**GroundStation.** `todo[t]` is what is left of the handler thread t is in: events to
emit and rows to insert, in the order of the code. An insert is two steps,
`execute` and `commit`. `tx` holds the rows of the one transaction of the one
connection, `db` the durable ones, `failed` (history) those whose insert raised or
was skipped because an earlier one of the same event did, and those that were in the
transaction when SQLite rolled it back. `Raise` is an `execute` or `commit` that
raises, in either way SQLite has: the statement alone fails and the transaction
stays, or the transaction is rolled back with the rows of all threads, as it is on a
full disk or an I/O error; the commits of these threads then succeed with nothing in
hand. `OnDownlink` chooses
which parts of the frame are damaged and whether the CRC matches all the same; a
damaged frame that passes may carry any number, be undecodable, or decode to
an object `TelemetryRecord.from_dict` raises on. `Restart` stops the process between
any two steps and starts it again on the same file (`docker-compose.yml` mounts
`./data` and restarts unless stopped).

**AnomalyRules.** A position is a point of a line in km; thresholds are the
configured percentages. Rates are compared without division. `Findings` of
`GroundStation` gives the rules what the decoder gives them: no previous record.

**Crc16.** Bytes and 16-bit registers as numbers. `MCGroundStation` has TLC evaluate
that the table-driven loop is the division by the polynomial, that in a six-byte
frame one or two flipped bits, or up to seven neighbouring ones, never pass, and that
four particular ones do; the last is why `Parse` lets a damaged frame pass.

**FaultControl.** `active` and `entry` are keys and values of `_active`. A tick
is `running` from `_apply_fault_state`, where the first faults are looked at, through
`produce_telemetry` (SENSOR_ANOMALY) and `link.transmit` (the link faults) to the end
of `fetch_due`; a fault that is active anywhere in between acts in that tick. The
locals of `expire` are variables since API threads run in between. `BootAborts` is a
tick that ends before any fault is looked at, `AbortTick` one that the link ends
before `expire`. History: `lived` counts the ticks a fault has acted in, `missed` those
in a row that did not get to the end of `expire`, `replaced` holds the faults whose
entry a second, racing inject has replaced, and `sameClock` says that no reset has set
the clock back.

**ChatChannel.** A piece of text is a pair of a call of `send` and an index, so
"what was shown was sent" can be stated. `chunks` are the chunks of the message
objects, which `send` and `receive` share: `send` frames what a chunk holds at the
moment (`chat.py:216`), `receive` overwrites it (`chat.py:257`). An object is numbered
like the call that builds it; the placeholder `receive` enters for an unknown id m is
the object -m. A frame whose header noise has hit and left parseable may name any
message, index and count; `headerHits` counts these. `calls`, `idOf`, `arrived`,
`damaged`, `alone` are history.

**Lifecycle.** `client[t]` is where a request is inside start, stop or reset, and
requests overlap in every way. `loop[l]` is the life of the l-th thread ever created;
`slowTicks`, chosen once, says whether a tick may outlast the five seconds of `join`.
`Join` goes on when the thread has ended, or at the timeout: if ticks are slow,
or if a start has cleared the event the loop should have seen. Of a table it keeps
which missions its rows are of; at first these may be rows of an earlier process with
the same database. `dropped` counts the tables a reset has dropped so far. In the middle
of a SELECT on the shared connection SQLite refuses DROP TABLE with "database table is
locked", whatever the table (`DropRaises`); INSERT and CREATE TABLE pass. History:
`raced` says that a request passed start's test while another was between that test and
the launch, `overrun` that a loop ran in the middle of a reset, `brokenOff` and
`rebuilt` how resets ended, `alone` that requests have come one after the other.

## 3. What the runs check

Each property of a passing run comes with a mutant of the code (`Mutant...`
operators beside the definitions) under which TLC finds it violated.

### Passing runs

| Run | Instance | Shows |
|---|---|---|
| `onboard_storage` | capacity 3, 2 under the fault, limits None, 1, 2, six records | `Conservation`, `BucketsInOrder`, `DrainsMostUrgentFirst`, `EvictsLeastUrgentOldest`, `NeverGrowsPastCapacity` |
| `spacecraft_modes` | one API thread racing the simulation thread, BOOT and INIT two ticks each | `PayloadOnlyInItsMode`, `BootCompletesToInit`, `AbortsOnlyWhenInterfered`, `BootAndInitEnd`, `CriticalHealthLeadsToSafe` |
| `telecommand` | two workers, three numbers, window 1, three sends, any transmit and any execution may raise | `ExecutesInOrder`, `ResultsTellWhatRan`, `FinalResultsStay`, refinement `KeepsPromise`; for requests that do not overlap `GroundGuardIsExact` |
| `store_and_forward` | capacity 3, 1 under the fault, drain 2, five records, one exception of the link, all four settings of the two buffering switches | `EveryRecordIsAccounted`, `MissingAddsUp`, `BufferEmptiesInView` |
| `space_link` | one worker, four frames, batches up to two, jitter and rate window of one time unit, bandwidth of one frame | `FramesAreAccounted`, `DeliversInOrder`, `FramesArrive` |
| `ground_station` | one worker, two sequence numbers, a harmless and a critical reading, three inputs (frames, requests, contact updates, restarts), one failing insert, with the transaction rolled back or not | `TablesAreConsistent`, `HistoryIsLogged`, `CountersMatchTables` |
| `fault_control` | two faults, two workers, durations 0, 1 and None, two ticks | `ActsNoLongerThanItsDuration`, `ExpireAloneIsExact` |
| `chat_channel` | two clients, two messages of one or two chunks, at most one damaged header | `DeliveredIsSent`; while noise spares the headers `ReportIsExact` |
| `lifecycle` | two clients, up to two loops, an empty database or one with old rows, with and without ticks longer than the join timeout | `StartedMeansOneLoop`, `ResetLeavesOneMission`, `StopEndsTheLoops` |

What is behind some of them:

* `ExecutesInOrder` holds although the ground lets two racing requests send two
  frames with one number: the spacecraft's own guard is what protects it, and it
  does because one thread runs it.
* `ResultsTellWhatRan` is exact about what came back from execution: a command an
  exception broke off is consumed and has no result.
* `GroundGuardIsExact`: among requests that do not overlap, the station refuses what
  was given to the link and nothing else. Its own next number can therefore be refused, and
  the property says when: an operator has named a number of his own, or a transmit
  has raised. Then the number is recorded and never counted, and every request without a
  number of its own is refused until an operator names a larger one.
* `PayloadOnlyInItsMode` needs its premise: STOP_PAYLOAD and REQUEST_TELEMETRY in one
  `fetch_due` give a payload record stamped NORMAL.
* `AbortsOnlyWhenInterfered`: an exception out of `_boot_progression` skips
  telemetry, delivery, fault expiry and the gate; without an API request in that
  very tick it cannot happen.
* `EveryRecordIsAccounted` includes that a record goes out live or from the buffer,
  never both: the station's count of duplicates stays zero. What an exception of the
  link costs is in no counter of the code, but it is one batch at most (`spilled <=
  errors * Batch`); the rest of the account stays exact.
* `BufferEmptiesInView`: a tick broken off loses its batch and the next one goes on.
  Exceptions that come again for ever are excluded by `MaxErrors`: with them the gate
  need never be updated, and nothing is to be said.
* `ActsNoLongerThanItsDuration`: d ticks, and one more because a fault injected in the
  middle of a tick acts in the rest of it, and one more for each tick in a row that did
  not get to the end of `expire`. An entry that a racing inject has replaced is set apart
  until an expire has looked at it, and so are behaviours with a reset, whose entries
  tell the time of another clock.
* `DeliveredIsSent`: whatever races and whatever noise does, a chunk shown as
  delivered had an intact frame with its id and index. That its text is the one the
  client typed needs more: the frame is built from a chunk that `receive` may have
  overwritten before `send` came to it, and ids may be shared. It holds while
  noise spares headers, of a message whose id no other call has taken (`HasOwnId`);
  `ReportIsExact` is about the same messages, chunk by chunk.
* `MissingAddsUp` is stated from the first frame, whose number the validator
  expects again; with that off-by-one included, the sum is exact however frames
  are reordered.
* `FramesAreAccounted` names its exceptions: `destroyed` frames and `abandoned`
  records exist, and only if a request was in the link together with a tick or with
  another request. `FramesArrive`
  holds in spite of them, since a list that is no heap any more is a heap again when
  it has shrunk to one frame, and until then its head comes of age all the same.
* `DeliversInOrder`: its second half is about undisturbed behaviours only; in
  the others a frame can wait behind one that is due later. No frame is ever early.
* `HistoryIsLogged` is about every event of the running process and allows three
  cases: durable, being recorded by a thread, or lost to an insert that raised. An
  insert that raises may take the transaction with it, and rows of threads that know
  nothing of it: their own commits then say nothing. The second half bounds that loss:
  nothing is ever in the transaction but rows whose thread is about to commit them, and
  rows whose own commit raised. The mutant, which commits an event only after its last
  table, leaves more.
* `TablesAreConsistent` is about the durable rows of all missions, also those a
  stop has cut off: but for the rows a failing insert has lost, a mirror without its event,
  or a critical record without its alert, cannot be found. `CountersMatchTables` counts
  the lost rows with the durable ones, and needs the count of frames whose
  handling raised (`raised`, which the code does not keep): they are in `received`
  and neither accepted nor rejected.
* `StartedMeansOneLoop`: two loops are possible, and the property says from what alone
  they come: two requests between start's test and the launch at once (`raced`). Slow
  ticks, joins that time out and resets in between do not make a second loop. The answer
  of start is true if requests come one after the other and ticks are short; otherwise it
  may come from a loop a stop has told to end.
* `ResetLeavesOneMission` has three parts: when a loop can run in the middle of a
  reset at all; that after a reset in which none did, however requests overlap, the tables
  hold the present mission alone, also on a database of an earlier process; and that
  tables stay away only where a SELECT has broken a reset off, until the next one.
* `StopEndsTheLoops` is about all loops, the unnamed ones that races leave behind
  included: they share one event.
* Some properties have a premise the code does not enforce: requests that do not
  overlap (`alone`), or not at one place (`~raced`), ticks shorter than the join timeout
  (`~slowTicks`), no loop in the middle of a reset (`~overrun`), noise that
  spares chunk headers (`headerHits = 0`), a message id of one's own (`HasOwnId`), an
  expire or a tick no request touches (`~interfered`), a link that has not raised in a
  request (`~raised`), a link no request enters while another thread is in it
  (`~disturbed`). The runs
  contain the behaviours in which the premise fails as well; there the property says
  nothing, and section 6 says what happens.

### Bounds, and why they are enough

Names of bounds: `MaxRecords`, `MaxSends`, `MaxTime`, `MaxLoops`, `MaxFrames`, `MaxBatch`,
`MaxInputs`, `MaxFailures`, `MaxErrors`, `MaxHeaderHits`, and the caps `BootDuration` and
`InitDuration` put on the timers. No guard of the code depends on any of them. `MaxChunks`
is the code's `MAX_CHUNKS`; the run makes it two.

* *Storage*: three buckets and a capacity of three let every pattern of
  empty and non-empty buckets meet a full queue; six records fill the queue,
  shrink it under the fault and evict twice.
* *Modes*: a race needs one call of each of two threads: an API thread and the simulation
  thread. BOOT and INIT last two ticks, so that a request can come before, between and after
  them (447,876 states). The safety properties are proved for any number of API threads.
* *Telecommands*: a replay needs one repeated number, an overtaking two frames, an eviction
  from the bucket one more number than `Window`. Three sends (four in `telecommand_pending`)
  combine these. The code's window is 512; that the watermark covers what the bucket forgets
  is what a window of one tests hardest (1.25 million states).
* *Store and forward*: four records overflow a capacity of three, and three of them
  take two ticks to drain; five give gaps, late frames and corruption on both sides
  of one another. One exception of the link can come at any record of a batch or any
  frame of a delivery; a second one repeats the first (1.7 million states).
* *Link*: a comparison in the heap needs two frames, a disturbed one three; the
  fourth finds a list out of order. Jitter of one unit makes two delivery times, and a
  bandwidth of one frame makes the second delivery of a second shape the next frame.
  The clock moves only while a frame waits for its time, which bounds it.
* *Ground station*: two numbers give gaps, late frames and, with a damaged number the CRC
  lets pass, duplicates. Three inputs are a frame, a racing request and a restart; one
  failure can meet any insert, and any rows of the other thread (1.7 million states). More
  of either repeats the interplay of two threads with one transaction, and what the tables
  promise is proved without any bound.
* *Faults*: two faults are the least for a dictionary that changes size during an
  iteration and keeps elements on both sides of the change; two workers inject one
  fault at once. Durations of zero, one and no limit are below, at and outside the
  comparison in `expire`; with two ticks every entry that has a limit can be overdue, and
  a tick can be aborted before `expire` (2 million states).
* *Chat*: two messages race for an id, and for a placeholder; a header may be
  damaged into any other id, index and count, including an index past the end of the
  message. One such frame is enough to overwrite a chunk before it is sent, or to enter a
  placeholder (1.3 million states).
* *Lifecycle*: two clients are enough for two requests to meet at any pair of places of
  start, stop and reset; two loops are a restart, or the two that a race creates
  (1.1 million states).

`CHECK_DEADLOCK FALSE` is set where the system may stop: in `Telecommand`,
`ChatChannel`, `SpaceLink`, `GroundStation` and `Lifecycle` no client has to make
another request, and the bounds end the enumeration.

### Runs that end in a violation

Each checks one sentence of the repository against what the code does; see
section 6.

## 4. Fairness

* `SpacecraftModes`: weak fairness of the simulation thread's steps, since
  `_loop` catches every exception of a tick and goes on; strong fairness of
  `EndTick`, since `fetch_due` takes the frames that are due at the instant of the
  call, a finite number, so commands cannot keep one tick from ending. `EndTick`
  is disabled while a command's call is in progress, which is why weak fairness
  would not say that. API threads are given no fairness: they may stop in the
  middle of a request, and the properties hold all the same.
* `StoreAndForward`: weak fairness of `SpacecraftTick` and of `UpdateGate` (ticks
  go on, and each delivery ends). Exceptions may end ticks, but not for ever
  (`MaxErrors`). Nothing is assumed about the link or about when
  the satellite is in view: `BufferEmptiesInView` has that as its premise.
* `SpaceLink`: weak fairness of the clock, of the simulation thread (`_loop` goes on
  whatever a tick raises) and of the calls workers have begun. No client has to call.
  `FramesArrive` has as its premise that no more frames are sent.
* `Lifecycle`: weak fairness of the steps of each loop: a loop that can test the event
  does so, and a tick ends. No client has to make a request, or to go on with one.

## 5. What is proved

Proofs are in the `...Proofs` module of each component: `OnboardStorageProofs`,
`StoreAndForwardProofs`, `SpaceLinkProofs`, `TelecommandProofs`, `SpacecraftModesProofs`,
`ChatChannelProofs`, `GroundStationProofs`, and `RunnerProofs` for the two halves of the
simulation runner, `FaultControl` and `Lifecycle`. They rest on the named assumptions on
constants (in the component modules; TLC evaluates them in every run) and on nothing else.
Every inductive invariant was first checked by TLC on the instance of its component's run,
the few quantifiers over all numbers restricted to those in use there.

**The onboard queue** (`OnboardStorageProofs`), for every capacity, fault
capacity, set of limits and number of records. The inductive invariant is
`TypeOK /\ Conservation /\ BucketsOrdered`. `BucketsInOrder` alone is not
inductive: an append keeps a bucket ordered only if the new record is larger
than all in it, so `BucketsOrdered` adds that every buffered number is below
`next`. The lemmas say what the operators do to the fill level (`MakeRoomUsed`,
`EnqueuedUsed`, `DrainUsed`) and to each bucket (`EnqueueKeepsOrder`,
`DrainKeepsOrder`); `TakenAddsUp` is the arithmetic of the closed form of
`drain`; `EnqueuedRecords` and `DrainedRecords` say that a record is never in two places
of the queue, nor both handed out and kept. Theorems: `TypeCorrectness`, `EveryRecordCounted`,
`FirstInFirstOut`, `CapacityRespected`, `MostUrgentFirst`, `LeastUrgentEvicted`.

**Store and forward** (`StoreAndForwardProofs`), for every capacity, size of a batch, memory
of the validator, number of records and number of exceptions. `EveryRecordIsAccounted` adds
up cardinalities and counters, which is only inductive if no record is counted twice:
`OnePlace` says that a sequence number is in one place of the queue, in one frame, or in the
validator's memory, and in no two of these. The same fact makes the second half true, that
the validator never meets a number it remembers. `MissingAddsUp` needs `NothingYet`: before
the first intact frame nothing is expected and nothing counted. The lemmas about one call of
`enqueue` and `drain` are those of `OnboardStorageProofs`, taken by instance; `TransmitIs`,
`BreakIs`, `SendKeeps` and `BufferKeeps` are the ways of a new record, `RaiseKeeps` the one
an exception cuts short, `FrameLeaves` and `ValidatedIs` the end of its way. An exception
takes some records of a list out of the account and counts them in `spilled`, no more than
the list is long. Theorems: `TypeCorrectness`, `RecordsAccounted`, `MissingIsExact`.

**The link** (`SpaceLinkProofs`), for any number of API threads, any latency, jitter,
window and bandwidth; the one assumption beyond the types is that the simulation thread
is no API thread. `Books` is the account of frames, with those in the hands of a call;
it holds whatever the threads do. What the theorems say of undisturbed behaviours
follows from `Apart`: threads that never met in the link have spoiled no iteration, any
comparison under way knows the true size of the list, and the list is a heap. Proving it
showed that two requests can disturb each other without any tick, so `disturbed` counts
them too. Theorems: `TypeCorrectness`, `FramesAccounted`, `DeliveredInOrder`.

**Telecommands** (`TelecommandProofs`), for any set of workers, sequence numbers, window and
bound. The inductive invariant is `TypeOK /\ WatermarkCovers /\ BrokenWasExecuted /\
ExecutesInOrder /\ ResultsTellWhatRan`. `WatermarkCovers` is the strengthening: the onboard
watermark is at or above everything executed, so a number that passes `IsReplay` is larger
than all of them, whatever the bucket has forgotten; `BrokenWasExecuted` is what a command
broken off leaves, so that a second copy of it finds its number consumed. What the ground
side does matters only through the types: its steps leave the board alone, which is what
`GroundType` is for. `GroundGuardIsExact` is about the ground side, and needs a second
invariant on top of it: `OneAtATime` says that, as long as no two requests overlap, the
ground guard knows nothing but what was sent and what the one request under way is about to
send, and, while every number was the station's own and no transmit has raised, that
`command_seq` is ahead of all of that; `AboveIssued` is the other direction, the watermark
is no lower than anything sent. It is an account of `send_telecommand` step by step, since
between `is_replay`, `record`, the send and the increment the guard, the link and the
counter are out of step with one another. Theorems: `TypeCorrectness`, `ExecutionOrder`,
`ResultsAgree`, `ResultsAreFinal`, `GroundGuardAnswers`, and `Refinement`: with `issued`
mapped to the numbers of all frames sent, every step is an `Issue`, an `Execute` or a
stutter of `CommandExecution`.

**Modes** (`SpacecraftModesProofs`), for any set of API threads and any durations.
The inductive invariant is
`TypeOK /\ SimCallPlace /\ TestedCalls /\ BootRequestLegal`: a call of the
simulation thread is only ever under way in the three places that make one; a call
whose test has passed does not lead to BOOT, and leads to INIT as long as the mode
is BOOT; and the boot sequence's own request is legal until a worker interferes.
`PayloadPlace`, a second invariant on top of it, follows the payload from
`UpdateSubsystems` to the end of `fetch_due`, and `FramesPlace` says of the records just
produced what mode they carry. Theorems: `TypeCorrectness`,
`BootCompletes`, `AbortsAreInterference`, `PayloadStamps`.

**Faults** (`RunnerProofs`), for any set of faults, workers and durations. The inductive
invariant follows `expire` through its two loops: `Expiring` says that an active fault which
has been looked at has time left or is in the list of those that will be popped, and
`ClocksAgree` that no fault has acted in more ticks than have begun since its injection, the
one it was injected in included; both hold as long as no reset set the clock back. A fault
is overdue by no more ticks than were missed. `ListIsExact` is about an expire no request
interferes with: the list names each elapsed fault once, and the dictionary still has the
size the iteration began with. Theorems: `TypeCorrectness`, `DurationsAreKept`,
`ExpireIsExact`.

**The life of the loop** (`RunnerProofs`), for any finite number of clients, whose requests
overlap as they like, and any number of loops. Every request that may still create a thread
has one left (`ThreadsOK`), which bounds the loops; the tables a reset has dropped are empty
and are restored in order unless it was broken off (`TablesOK`). `LoopOK` is about
behaviours without a race at start's test: only the thread of the attribute may be alive,
one request at most is between test and launch, and while it is there no thread is alive.
`AloneOK` says that requests which come one after the other are one at a time, and
`QuickOK`, with short ticks in addition, that a stop event set outside the join has ended
the loop and that no loop is alive from the end of the join to the next start. `MissionOK`
is the account of the rows: as long as no loop has run in the middle of a reset, a tick that
began in the old mission is over before the tables are dropped. Theorems:
`LifecycleTypeCorrectness`, `OneLoop`, `OneMission`. Neither needs an assumption about the
clients; what the code does not ensure is in the properties, as what has happened in the
behaviour: two starts that race through the test do create two loops, against `runner.py:5`.

**Messages** (`ChatChannelProofs`), for any number of workers, calls, chunks and damaged
headers. What holds always needs that the counter of ids, whose updates may be lost, never
runs ahead of the calls (`CounterIsBehind`, which counts the threads that have yet to write
it), what the table names (`Table`, `Built`), and what intact frames tell (`IntactTell`): with
`Deliveries` this is the first half of `DeliveredIsSent`. The other half and `ReportIsExact`
are about a channel whose noise spares headers: then every frame is where it says (`Known`,
`FramesTell`), every piece is sent once (`Sent`), and the report is right chunk by chunk
(`Exact`), each for calls whose id is their own. Calls that follow one another get the ids
1, 2, 3 (`Sequential`), so all of theirs are. Theorems: `TypeCorrectness`,
`DeliveredTextWasSent`, `ReportsAreExact`.

**The ground station** (`GroundStationProofs`), for any set of threads, sequence numbers,
readings and window, and any number of frames, requests, restarts and failing inserts,
whether or not SQLite rolls the transaction back. The inductive invariant is `TypeInv /\
EventsFollow /\ RecordsFollow /\ Logging /\ Committing`, of which the last two are the
halves of `HistoryIsLogged`. A statement about durable tables says nothing of rows that are
still to come, so the strengthening follows a row from the call that will insert it:
`RecordsFollow` says that in front of every telemetry insert a call still has its packet and
its alert, unless they are kept already; `EventsFollow` says where an insert under way
stands: one at its commit has its row in the transaction or, if another thread has committed
it, in the table, or is lost to a rollback, and one that has come to the mirror has its
event in the table of events or lost. Handlers begin calls that are `WellOrdered`
(`AcceptedOrdered` is the one about an accepted record); a step of a thread replaces the
first operation of its call or drops it (`ReplaceReady`, `DropReady`); and no step, be it a
commit or a rollback by any thread, takes a row out of the transaction, the tables and the
lost rows together (`Grows`; `RaiseRows` is the step that raises). `CommittingStep` follows
each row of the transaction to the thread that will commit it. The step lemmas are one per
action. Theorems: `TypeCorrectness`, `EventsAreLogged`, `TablesExplainOneAnother`.

`StatisticsAgree` (`CountersMatchTables`) needs a second invariant, `Accounts`. A counter is
incremented when the frame comes, its row is inserted some steps later and may fail, so the
account is of what is *held*: rows that are durable, that were lost, or that the call of the
simulation thread has still to insert. `RowsCounted` says that a row in the open transaction
is one of these, and that frames are numbered as they come, so a new frame's row is none of
them; `OnlySim` that no other thread inserts packets or records; `ContactCounted` does the
same for contact events, between the call and the bus. No step of a thread changes what is
held (`AccountsStep`), not even a commit or a rollback by another thread in the middle of an
insert; each outcome of `on_downlink` changes one counter and as many rows (`FrameBooked`).

**Only model-checked**: liveness (`BootAndInitEnd`, `CriticalHealthLeadsToSafe`,
`BufferEmptiesInView`, `FramesArrive`, `StopEndsTheLoops`), which needs fairness;
`DrainIsTheLoop`, whose reference is RECURSIVE and therefore lives in `MCStoreAndForward`; and
the facts about the checksum in `MCGroundStation`, which are about samples. All invariants and
all action properties of the passing runs are theorems.

## 6. Disagreements between the code and its documentation

Three runs end in a violation. Each checks one sentence of the repository against
what the code does.

| Run | The text says | The code does |
|---|---|---|
| `telecommand_pending` (one worker, six numbers, four sends, no exceptions) | a rejection is recorded, not pending for ever (`spacecraft.py:475`) | a command overtaken by another is a replay without a result |
| `downlink_buffered_gate` | buffered telemetry is dumped on the next pass (`storage.py:5`) | the first batch meets a gate still closed, and is lost |
| `anomaly_rate_rules` | every rule is run against the record and the previous one (`anomaly.py:86`) | the decoder's own `previous` is None for ever, so the rate rules never run |

Others were met while modelling. Most are behaviours of the modules; no run is
spent on them:

* Only documented transitions (`modes.py:6`): two racing calls record a change such
  as INIT to INIT, which is not in the table.
* A background loop (`runner.py:5`): two clients that start at once make two, which tick
  the same spacecraft; a stop ends only the one in `_thread`.
* An outage flips the radio into FAULT (`faults.py:73`): `comm.update` overwrites
  the status in the same tick (`spacecraft.py:167`).
* Over capacity, `enqueue` drops one record and refuses the new one too, whatever
  its priority (`faults.py:66` speaks of low-priority data); a queue full of
  CRITICAL records evicts one for a LOW record (`storage.py:15`).
* `_init_elapsed` is never reset, so a second INIT ends at its first tick
  (`spacecraft.py:43`).
* The ground guard refuses everything up to its watermark, seen or not
  (`replay.py:46`): one high number named by an operator locks out the station's own.
  Two workers can pass the check with one number (`replay.py:31`). If `transmit` raises
  between `record` and `command_seq += 1` (`station.py:251`, `station.py:253`), the
  station's own next number is refused from then on.
* An exception in REQUEST_TELEMETRY leaves its number consumed and the command without
  a result (`spacecraft.py:483`, `link.py:199`): pending for ever as well.
* A batch that has left the buffer when `transmit` raises is in no counter
  (`spacecraft.py:363`).
* Frames under way when a pass ends are delivered below the mask (`link.py:12`).
* The rate window holds what was delivered, not what was scheduled, so a burst of
  frames gets delivery times as if the link were idle (`link.py:25`).
* `burst_errors` flips bits "guaranteeing CRC failure" (`rf_channel.py:101`): four flips
  at the distances of the polynomial's terms pass the check (`SomeDamagePasses`), and a
  flip in the sync word makes the frame malformed instead. The CRC is called the XModem
  variant (`crc.py:20`) but starts from 0xFFFF.
* The validator expects the first frame's number again, so a perfect stream has one
  frame missing (`validator.py:3`).
* A frame whose decoding raises is in no counter but `received`, and in
  `delivered` of the link (`link.py:199`).
* An event whose insert fails is in the log file only (`README.md:87`; `store.py:169`).
  If SQLite rolls the transaction back, so are the events of other threads that were
  about to be committed, and nothing reports these.
* The database survives the process, so a mission that starts again shares its tables,
  and its sequence numbers, with the earlier one; only a reset clears them.
* History queries sort ascending before the limit, so they return the oldest rows
  (`store.py:83`, `store.py:107`).
* `expire` can remove a fault injected anew since its scan; active faults and their
  old injection times survive a reset (`runner.py:79`).
* A chunk with a damaged header is booked where the header says (`chat.py:13`); one
  with a damaged sync word reaches the telemetry or command pipeline
  (`chat.py:18`); two clients can get one message id (`chat.py:194`). `send` frames
  the chunk of the shared message object (`chat.py:217`), so text that `receive` has
  written into it meanwhile, from a frame with a damaged header, goes out with a good
  CRC. A placeholder may take the entry of a message that was stored since the
  lookup (`chat.py:253`).
* If a tick outlasts the five seconds of `join`, reset goes on under it, and rows of the old
  mission are written into the new tables (`runner.py:79`); so are those of a loop that
  another client starts in the middle of the reset. A process that starts on an existing
  database has the rows of an earlier mission in its tables (`runner.py:166`). A SELECT in
  progress breaks a reset off with some tables dropped.

## 7. Abstractions, and what is not modelled

* Except in `GroundStation`, a CRC is taken to detect every damage to what it covers; in
  `ChatChannel` a damaged frame is never reported as intact. The
  byte layout of frames, encodings and signatures are not modelled: a frame is intact,
  fails its CRC, or is malformed.
* Only `SpaceLink` has a clock; there every frame has size one and the gate is open or
  closed anew for each frame. In the other modules any order of delivery is possible, so
  what holds there holds for every timing.
* Orbit, visibility and RF are arbitrary choices (in view or not; lost, damaged or
  intact). Power, thermal and attitude models are an arbitrary `health`.
* The modules that call the link do not say when it raises, only that it may, in a request or
  a tick; that it takes another thread in the link is in `SpaceLink`. A tick that
  `_boot_progression` aborts has produced and sent nothing, so `StoreAndForward` has no
  step for it; `SpacecraftModes` and `FaultControl` have.
* `GroundStation` handles one frame or contact update at a time, since one thread does; it
  leaves out the events of the spacecraft and of the link, which take the same path as
  those it has. A failing insert fails for any reason, and may roll back or not; SQLite's
  locking protocol is not modelled, since there is one connection.
* `FaultControl` counts time in ticks, does not say what a fault does while it acts, and
  takes `enabled` as the constant TRUE, which the configuration sets.
* `Telecommand` abstracts the command to "authorized" and "executes". The effects of mode
  commands are in `SpacecraftModes`, of REQUEST_TELEMETRY in `SpacecraftModes`,
  `StoreAndForward` and `SpaceLink`, and that it may raise here; ORBITAL_BURN and
  ADJUST_ATTITUDE change numbers no property depends on.
* `ChatChannel` does not tell the two directions apart; both use the same counter,
  table and frame format.
* Not modelled: what queries select, configuration, the dashboard, tokens of the API, the
  Eb/N0 setting, the first request's creation of the simulation.

## 8. Plan

Order followed: the queue (no concurrency, strongest theorems), the mode machine and the
telecommand path (threads), their proofs, then the tick that composes queue, link and
station, faults, chat and the lifecycle; after these the link in time, the ground station
with its tables and anomaly rules, and the tables under a reset.

To come, most important first:

1. *Proofs*: that `OnboardStorage` implements a bag with a capacity.
2. *Composition*: `StoreAndForward` over the timed link, to say how long a record may take.
3. *Detail*: the order of the gate's checks in `handle_command` over malformed, foreign
   and unsigned commands; execution of burns and attitude commands; a reference definition
   of the missing counter over bounded sequences of arrivals.
