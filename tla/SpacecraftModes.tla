---------------------------- MODULE SpacecraftModes ----------------------------
(***************************************************************************)
(* The operating mode of the spacecraft and everybody who changes it:      *)
(* ModeController (src/satelite/modes.py), the mode logic of               *)
(* Spacecraft.tick and of telecommand execution                            *)
(* (src/satelite/spacecraft.py), and the direct mode request of the HTTP   *)
(* API (src/mission_control/api.py).                                       *)
(*                                                                         *)
(* The simulation thread runs ticks, and telecommands inside the tick's    *)
(* link delivery.  API requests run on threads of their own, and nothing   *)
(* locks the ModeController: transition tests the mode, reads it again for *)
(* the change record, and assigns it, and another thread may run in        *)
(* between.  A call therefore takes three steps here: Check, Read, Assign. *)
(***************************************************************************)
EXTENDS Integers

CONSTANTS
  ApiThreads,    \* the API worker threads that may be inside request_mode
  BootDuration,  \* BOOT_DURATION_S in ticks
  InitDuration   \* INIT_DURATION_S in ticks

Sim == "sim"     \* the simulation thread

ASSUME ApiThreadsAssumption == Sim \notin ApiThreads
ASSUME BootDurationAssumption == BootDuration \in Nat \ {0}
ASSUME InitDurationAssumption == InitDuration \in Nat \ {0}

Thread == ApiThreads \union {Sim}

Mode == {"BOOT", "INIT", "SAFE", "NORMAL", "PAYLOAD_OPERATION", "COMMUNICATION"}

Operational == {"NORMAL", "PAYLOAD_OPERATION", "COMMUNICATION"}

\* INIT lost its way out to SAFE.
MutantValidTransitions ==
  [m \in Mode |-> CASE m = "BOOT" -> {"INIT"}
                    [] m = "INIT" -> {"NORMAL"}
                    [] m = "SAFE" -> {"NORMAL", "INIT"}
                    [] m = "NORMAL" -> {"PAYLOAD_OPERATION", "COMMUNICATION", "SAFE"}
                    [] OTHER -> {"NORMAL", "SAFE"}]

\* Every mode may be left for SAFE.
MutantSafeFromAnywhere ==
  [m \in Mode |-> CASE m = "BOOT" -> {"INIT", "SAFE"}
                    [] m = "INIT" -> {"NORMAL", "SAFE"}
                    [] m = "SAFE" -> {"NORMAL", "INIT"}
                    [] m = "NORMAL" -> {"PAYLOAD_OPERATION", "COMMUNICATION", "SAFE"}
                    [] OTHER -> {"NORMAL", "SAFE"}]

\* The transition table.
ValidTransitions ==
  [m \in Mode |-> CASE m = "BOOT" -> {"INIT"}
                    [] m = "INIT" -> {"NORMAL", "SAFE"}
                    [] m = "SAFE" -> {"NORMAL", "INIT"}
                    [] m = "NORMAL" -> {"PAYLOAD_OPERATION", "COMMUNICATION", "SAFE"}
                    [] OTHER -> {"NORMAL", "SAFE"}]

(***************************************************************************)
(* What the modes depend on of the power, thermal and computer models: is  *)
(* a safe-mode threshold crossed (battery below 15 %, bus too hot), and do *)
(* the power-on self checks pass (battery above 5 %, CPU below 99 %, bus   *)
(* not too hot).  A low battery crosses the threshold and still passes the *)
(* checks; a pinned CPU does the opposite.                                 *)
(***************************************************************************)
Health == {"nominal", "low_battery", "pinned_cpu", "failed"}

Critical(h) == h \in {"low_battery", "failed"}

SelfChecksPass(h) == h \in {"nominal", "low_battery"}

(***************************************************************************)
(* A call of ModeController.transition or to_safe in progress.  "called":  *)
(* the mode is not tested yet; "checked": the test has passed; "read": the *)
(* old mode is read, the new one not yet assigned.                         *)
(***************************************************************************)
Call == [phase : {"none", "called", "checked", "read"},
         op : {"transition", "to_safe"}, target : Mode, old : Mode]

NoCall == [phase |-> "none", op |-> "transition", target |-> "BOOT", old |-> "BOOT"]

Calling(op, target) ==
  [phase |-> "called", op |-> op, target |-> target, old |-> "BOOT"]

VARIABLES
  mode,           \* ModeController._mode
  call,           \* per thread, its call of the ModeController
  pc,             \* where the simulation thread is in tick_once
  bootElapsed,    \* Spacecraft._boot_elapsed, capped at BootDuration
  initElapsed,    \* Spacecraft._init_elapsed, capped at InitDuration
  health,         \* the subsystem models
  payloadActive,  \* Payload.active
  frames,         \* history: the records just produced, until the
                  \* simulation thread goes on
  interfered      \* history: has an API request, or a telecommand of the tick's
                  \* fetch_due, changed the mode in this tick?

tickVars == <<bootElapsed, initElapsed, health, payloadActive>>
vars == <<mode, call, pc, tickVars, frames, interfered>>

Init ==
  /\ mode = "BOOT"
  /\ call = [t \in Thread |-> NoCall]
  /\ pc = "idle"
  /\ bootElapsed = 0
  /\ initElapsed = 0
  /\ health = "nominal"
  /\ payloadActive = FALSE
  /\ frames = {}
  /\ interfered = FALSE

-------------------------------------------------------------------------------
(* ModeController.transition and ModeController.to_safe *)

MayChange(op, target) ==
  CASE op = "transition" -> target # mode /\ target \in ValidTransitions[mode]
    [] op = "to_safe"    -> mode \notin {"SAFE", "BOOT"}

\* Where the simulation thread goes on after its call, returned or raised.
\* InvalidModeTransition is caught in _safety_transition and in
\* _execute_command; out of _boot_progression it aborts the whole tick.
Returned == [boot |-> "subsystems", thresholds |-> "telemetry", uplink |-> "uplink"]
Raised   == [boot |-> "idle",       thresholds |-> "telemetry", uplink |-> "uplink"]

\* The guards of both methods.
Check(t) ==
  /\ call[t].phase = "called"
  /\ IF MayChange(call[t].op, call[t].target)
     THEN /\ call' = [call EXCEPT ![t].phase = "checked"]
          /\ UNCHANGED pc
     ELSE /\ call' = [call EXCEPT ![t] = NoCall]
          /\ pc' = IF t = Sim THEN Raised[pc] ELSE pc
  /\ UNCHANGED <<mode, tickVars, frames, interfered>>

\* old = self._mode
Read(t) ==
  /\ call[t].phase = "checked"
  /\ call' = [call EXCEPT ![t].phase = "read", ![t].old = mode]
  /\ UNCHANGED <<mode, pc, tickVars, frames, interfered>>

\* self._mode = target; self._history.append(ModeChange(old, target, ...)).
\* The history is not kept: this step shows the entry it appends.
Assign(t) ==
  /\ call[t].phase = "read"
  /\ mode' = call[t].target
  /\ call' = [call EXCEPT ![t] = NoCall]
  /\ pc' = IF t = Sim THEN Returned[pc] ELSE pc
  /\ interfered' = (interfered \/ t # Sim \/ pc = "uplink")
  /\ UNCHANGED <<tickVars, frames>>

-------------------------------------------------------------------------------
(* Spacecraft.tick *)

\* Adds the duration itself instead of the length of the tick.
MutantCapped(n, bound) == n + bound

\* The time in a mode grows tick by tick; past the bound only "enough" counts.
Capped(n, bound) == IF n < bound THEN n + 1 ELSE bound

SimAt(place) == pc = place /\ call[Sim].phase = "none"

SimCalls(place, op, target) ==
  /\ pc' = place
  /\ call' = [call EXCEPT ![Sim] = Calling(op, target)]

\* _boot_progression, BOOT branch
BootTick ==
  /\ mode = "BOOT"
  /\ bootElapsed' = Capped(bootElapsed, BootDuration)
  /\ IF bootElapsed' >= BootDuration
     THEN SimCalls("boot", "transition", "INIT")
     ELSE pc' = "subsystems" /\ UNCHANGED call
  /\ UNCHANGED initElapsed

\* Waits in INIT for the self checks to pass, with no way out to SAFE.
MutantInitTick ==
  /\ mode = "INIT"
  /\ initElapsed' = Capped(initElapsed, InitDuration)
  /\ IF initElapsed' >= InitDuration /\ SelfChecksPass(health)
     THEN SimCalls("boot", "transition", "NORMAL")
     ELSE pc' = "subsystems" /\ UNCHANGED call
  /\ UNCHANGED bootElapsed

\* _boot_progression, INIT branch
InitTick ==
  /\ mode = "INIT"
  /\ initElapsed' = Capped(initElapsed, InitDuration)
  /\ IF initElapsed' >= InitDuration
     THEN SimCalls("boot", "transition",
                   IF SelfChecksPass(health) THEN "NORMAL" ELSE "SAFE")
     ELSE pc' = "subsystems" /\ UNCHANGED call
  /\ UNCHANGED bootElapsed

\* The tick begins with _boot_progression.
BeginTick ==
  /\ SimAt("idle")
  /\ \/ BootTick
     \/ InitTick
     \/ /\ mode \notin {"BOOT", "INIT"}
        /\ pc' = "subsystems"
        /\ UNCHANGED <<call, bootElapsed, initElapsed>>
  /\ frames' = {}
  /\ interfered' = FALSE
  /\ UNCHANGED <<mode, health, payloadActive>>

\* The payload is switched on with its mode and never off.
MutantUpdateSubsystems ==
  /\ SimAt("subsystems")
  /\ health' \in Health
  /\ payloadActive' = (payloadActive \/ mode = "PAYLOAD_OPERATION")
  /\ pc' = "thresholds"
  /\ UNCHANGED <<mode, call, bootElapsed, initElapsed, frames, interfered>>

\* eps, thermal, obc and payload .update: the models may go anywhere.
UpdateSubsystems ==
  /\ SimAt("subsystems")
  /\ health' \in Health
  /\ payloadActive' = (mode = "PAYLOAD_OPERATION")
  /\ pc' = "thresholds"
  /\ UNCHANGED <<mode, call, bootElapsed, initElapsed, frames, interfered>>

\* COMMUNICATION left out of the modes that watch the thresholds.
MutantWatched == Operational \ {"COMMUNICATION"}

\* The modes in which _check_thresholds does not return at once.
Watched == Operational

\* _check_thresholds
CheckThresholds ==
  /\ SimAt("thresholds")
  /\ IF mode \in Watched /\ Critical(health)
     THEN SimCalls("thresholds", "to_safe", "SAFE")
     ELSE pc' = "telemetry" /\ UNCHANGED call
  /\ UNCHANGED <<mode, tickVars, frames, interfered>>

\* produce_telemetry: one housekeeping record, and a payload record while the
\* payload is active, each stamped with the operating mode.
Produced ==
  {[category |-> c, operating_mode |-> mode] :
     c \in {"HOUSEKEEPING"} \union (IF payloadActive THEN {"PAYLOAD"} ELSE {})}

\* The tick's own records are produced and dispatched.  link.transmit may raise
\* (link.py:174, 183): that is the end of the tick.
ProduceTelemetry ==
  /\ SimAt("telemetry")
  /\ frames' = Produced
  /\ pc' \in {"uplink", "idle"}
  /\ UNCHANGED <<mode, call, tickVars, interfered>>

\* link.fetch_due returns, or a pop raises in it: the tick is over.
EndTick ==
  /\ SimAt("uplink")
  /\ pc' = "idle"
  /\ frames' = {}
  /\ UNCHANGED <<mode, call, tickVars, interfered>>

-------------------------------------------------------------------------------
(* Telecommands that reach _execute_command inside fetch_due *)

\* The mode a command asks for, and the modes authorize_command lets it through.
ModeCommands ==
  {[target |-> m, allowed |-> Mode] : m \in Mode}                       \* SET_MODE
    \union {[target |-> m, allowed |-> {"NORMAL", "PAYLOAD_OPERATION"}] :
              m \in {"PAYLOAD_OPERATION", "NORMAL"}}         \* START/STOP_PAYLOAD

\* A command for the current mode is answered without a transition.
ExecuteModeCommand(c) ==
  /\ SimAt("uplink")
  /\ mode \in c.allowed
  /\ c.target # mode
  /\ SimCalls("uplink", "transition", c.target)
  /\ frames' = {}
  /\ UNCHANGED <<mode, tickVars, interfered>>

\* REQUEST_TELEMETRY, authorized in every mode: another production inside
\* fetch_due, before the subsystems have seen what earlier commands of the same
\* fetch_due did to the mode.  An exception of transmit is swallowed there.
RequestTelemetry ==
  /\ SimAt("uplink")
  /\ frames' = Produced
  /\ UNCHANGED <<mode, call, pc, tickVars, interfered>>

-------------------------------------------------------------------------------
(* POST /api/satellite/mode on a worker thread: Spacecraft.request_mode *)

RequestMode(t, target) ==
  /\ call[t].phase = "none"
  /\ call' = [call EXCEPT ![t] = Calling("transition", target)]
  /\ UNCHANGED <<mode, pc, tickVars, frames, interfered>>

-------------------------------------------------------------------------------

CallStep(t) == Check(t) \/ Read(t) \/ Assign(t)

SimStep ==
  \/ BeginTick \/ UpdateSubsystems \/ CheckThresholds \/ ProduceTelemetry
  \/ CallStep(Sim)

Uplink == RequestTelemetry \/ \E c \in ModeCommands : ExecuteModeCommand(c)

ApiStep(t) == CallStep(t) \/ \E target \in Mode : RequestMode(t, target)

Next == SimStep \/ EndTick \/ Uplink \/ \E t \in ApiThreads : ApiStep(t)

Spec == Init /\ [][Next]_vars

\* The simulation thread keeps running (Simulation._loop catches every
\* exception of a tick), and fetch_due returns: it delivers what is due at the
\* instant it was called, a finite number of frames, so a tick cannot execute
\* telecommands for ever.
FairSpec == Spec /\ WF_vars(SimStep) /\ SF_vars(EndTick)

-------------------------------------------------------------------------------

TypeOK ==
  /\ mode \in Mode
  /\ call \in [Thread -> Call]
  /\ pc \in {"idle", "boot", "subsystems", "thresholds", "telemetry", "uplink"}
  /\ bootElapsed \in 0 .. BootDuration
  /\ initElapsed \in 0 .. InitDuration
  /\ health \in Health
  /\ payloadActive \in BOOLEAN
  /\ frames \subseteq [category : {"HOUSEKEEPING", "PAYLOAD"}, operating_mode : Mode]
  /\ interfered \in BOOLEAN

(***************************************************************************)
(* "BOOT cannot drop to SAFE; boot completes to INIT first" (modes.py:134):*)
(* whatever the threads do to each other, the mode leaves BOOT for INIT    *)
(* and for nothing else, and never comes back to BOOT.                     *)
(***************************************************************************)
BootCompletesToInit ==
  [][/\ mode = "BOOT" => mode' \in {"BOOT", "INIT"}
     /\ mode # "BOOT" => mode' # "BOOT"]_vars

(***************************************************************************)
(* Left alone, the boot sequence never requests an illegal transition: a   *)
(* tick that InvalidModeTransition aborts (it then skips telemetry,        *)
(* delivery, fault expiry and the link gate) is one during which an API    *)
(* request changed the mode.                                               *)
(***************************************************************************)
AbortsOnlyWhenInterfered ==
  [][(pc = "boot" /\ pc' = "idle") => interfered]_vars

(***************************************************************************)
(* "SAFE: Degraded: payload disabled" (modes.py:14), as far as it goes:    *)
(* the payload records of a tick, its own and those REQUEST_TELEMETRY      *)
(* produces in its fetch_due, are stamped PAYLOAD_OPERATION, or SAFE in a  *)
(* tick whose thresholds have just degraded the mode; the payload was      *)
(* updated before them.  Once an API request, or a telecommand of the same *)
(* fetch_due, has changed the mode, a record may carry any mode: the       *)
(* payload is switched by the next tick only.                              *)
(***************************************************************************)
PayloadOnlyInItsMode ==
  ~interfered =>
    \A record \in frames :
      record.category = "PAYLOAD" =>
        \/ record.operating_mode = "PAYLOAD_OPERATION"
        \/ record.operating_mode = "SAFE" /\ Critical(health)

(***************************************************************************)
(* BOOT and INIT end, also when API requests abort ticks of theirs.        *)
(***************************************************************************)
BootAndInitEnd ==
  /\ mode = "BOOT" ~> mode # "BOOT"
  /\ mode = "INIT" ~> mode # "INIT"

(***************************************************************************)
(* A spacecraft that stays beyond a critical threshold comes back to SAFE  *)
(* again and again, wherever telecommands and API requests, also racing    *)
(* ones, take it in the meantime.                                          *)
(***************************************************************************)
CriticalHealthLeadsToSafe ==
  <>[]Critical(health) => []<>(mode = "SAFE")
===============================================================================
