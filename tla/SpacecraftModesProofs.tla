------------------------- MODULE SpacecraftModesProofs ------------------------
(***************************************************************************)
(* Theorems about the operating modes, for any number of API threads and   *)
(* any durations of BOOT and INIT.  The unlocked ModeController lets calls *)
(* act on a mode that has changed under them; what the invariant says is   *)
(* how far such a call can be wrong.                                       *)
(***************************************************************************)
EXTENDS SpacecraftModes, TLAPS

-------------------------------------------------------------------------------
(* The invariant *)

\* The simulation thread is in a call only at the three places that make one.
SimCallPlace ==
  call[Sim].phase # "none" => pc \in {"boot", "thresholds", "uplink"}

\* A call that has passed its test does not lead to BOOT, and as long as the
\* spacecraft is in BOOT it leads to INIT.
TestedCalls ==
  \A t \in Thread :
    /\ call[t].op = "to_safe" => call[t].target = "SAFE"
    /\ call[t].phase \in {"checked", "read"} =>
         /\ call[t].target # "BOOT"
         /\ mode = "BOOT" => call[t].target = "INIT"

\* Unless an API thread has changed the mode in this tick, the transition the
\* boot sequence is about to ask for is legal.
BootRequestLegal ==
  (pc = "boot" /\ call[Sim].phase = "called" /\ ~interfered)
    => MayChange(call[Sim].op, call[Sim].target)

Inv == TypeOK /\ SimCallPlace /\ TestedCalls /\ BootRequestLegal

(***************************************************************************)
(* What the transition table and the two tests allow.                      *)
(***************************************************************************)
LEMMA TableFacts ==
  /\ \A m \in Mode : ValidTransitions[m] \subseteq Mode \ {"BOOT"}
  /\ ValidTransitions["BOOT"] = {"INIT"}
  /\ "NORMAL" \in ValidTransitions["INIT"] /\ "SAFE" \in ValidTransitions["INIT"]
  BY DEF ValidTransitions, Mode

\* A thread in no call has a well-formed call record.
LEMMA NoCallIsCall == NoCall \in Call /\ NoCall.phase = "none" /\ NoCall.op = "transition"
  BY DEF NoCall, Call, Mode

\* A call that begins has its arguments in its record.
LEMMA CallingIsCall ==
  ASSUME NEW op \in {"transition", "to_safe"}, NEW target \in Mode
  PROVE  /\ Calling(op, target) \in Call
         /\ Calling(op, target).phase = "called"
         /\ Calling(op, target).op = op
         /\ Calling(op, target).target = target
  BY DEF Calling, Call, Mode

\* The elapsed times stay within their bounds.
LEMMA CappedType ==
  ASSUME NEW bound \in Nat, NEW n \in 0 .. bound
  PROVE  Capped(n, bound) \in 0 .. bound
  BY DEF Capped

-------------------------------------------------------------------------------
(* Steps of a call *)

\* The tests of transition and to_safe keep the invariant.
LEMMA CheckInv ==
  ASSUME Inv, NEW t \in Thread, Check(t)
  PROVE  Inv'
<1>1. /\ mode \in Mode /\ call \in [Thread -> Call] /\ call[t].phase = "called"
      /\ UNCHANGED <<mode, bootElapsed, initElapsed, health, payloadActive, frames, interfered>>
      /\ Sim \in Thread
  BY DEF Inv, TypeOK, Check, tickVars, Thread
<1>2. CASE MayChange(call[t].op, call[t].target)
  <2>1. call' = [call EXCEPT ![t].phase = "checked"] /\ pc' = pc
    BY <1>2 DEF Check
  <2>2. /\ call' \in [Thread -> Call]
        /\ \A u \in Thread : /\ call'[u].op = call[u].op
                             /\ call'[u].target = call[u].target
                             /\ u # t => call'[u] = call[u]
        /\ call'[t].phase = "checked"
    BY <1>1, <2>1 DEF Call
  <2>3. call[t].target # "BOOT" /\ (mode = "BOOT" => call[t].target = "INIT")
    BY <1>1, <1>2, TableFacts DEF MayChange, Inv, TestedCalls, Call
  <2>4. TypeOK'
    BY <1>1, <2>1, <2>2 DEF Inv, TypeOK
  <2>5. SimCallPlace'
    BY <1>1, <2>1, <2>2 DEF Inv, SimCallPlace
  <2>6. TestedCalls'
    BY <1>1, <2>2, <2>3 DEF Inv, TestedCalls
  <2>7. BootRequestLegal'
    BY <1>1, <2>1, <2>2 DEF Inv, BootRequestLegal, MayChange
  <2> QED BY <2>4, <2>5, <2>6, <2>7 DEF Inv
<1>3. CASE ~MayChange(call[t].op, call[t].target)
  <2>1. /\ call' = [call EXCEPT ![t] = NoCall]
        /\ pc' = IF t = Sim THEN Raised[pc] ELSE pc
    BY <1>3 DEF Check
  <2>2. /\ call' \in [Thread -> Call]
        /\ \A u \in Thread : u # t => call'[u] = call[u]
        /\ call'[t] = NoCall
    BY <1>1, <2>1, NoCallIsCall
  <2>3. t = Sim => pc' \in {"idle", "telemetry", "uplink"}
    BY <1>1, <2>1 DEF Inv, SimCallPlace, Raised
  <2>4. TypeOK'
    BY <1>1, <2>1, <2>2, <2>3 DEF Inv, TypeOK
  <2>5. SimCallPlace'
    BY <1>1, <2>1, <2>2, <2>3, NoCallIsCall DEF Inv, SimCallPlace
  <2>6. TestedCalls'
    BY <1>1, <2>2, NoCallIsCall DEF Inv, TestedCalls
  <2>7. BootRequestLegal'
    BY <1>1, <2>1, <2>2, <2>3, NoCallIsCall DEF Inv, BootRequestLegal, MayChange
  <2> QED BY <2>4, <2>5, <2>6, <2>7 DEF Inv
<1> QED BY <1>2, <1>3

\* Reading the old mode keeps the invariant.
LEMMA ReadInv ==
  ASSUME Inv, NEW t \in Thread, Read(t)
  PROVE  Inv'
<1>1. /\ mode \in Mode /\ call \in [Thread -> Call] /\ call[t].phase = "checked"
      /\ UNCHANGED <<mode, pc, bootElapsed, initElapsed, health, payloadActive, frames, interfered>>
      /\ call' = [call EXCEPT ![t].phase = "read", ![t].old = mode]
      /\ Sim \in Thread
  BY DEF Inv, TypeOK, Read, tickVars, Thread
<1>2. /\ call' \in [Thread -> Call]
      /\ \A u \in Thread : /\ call'[u].op = call[u].op
                           /\ call'[u].target = call[u].target
                           /\ u # t => call'[u] = call[u]
      /\ call'[t].phase = "read"
  BY <1>1 DEF Call
<1>3. TypeOK'
  BY <1>1, <1>2 DEF Inv, TypeOK
<1>4. SimCallPlace'
  BY <1>1, <1>2 DEF Inv, SimCallPlace
<1>5. TestedCalls'
  BY <1>1, <1>2 DEF Inv, TestedCalls
<1>6. BootRequestLegal'
  BY <1>1, <1>2 DEF Inv, BootRequestLegal, MayChange
<1> QED BY <1>3, <1>4, <1>5, <1>6 DEF Inv

\* Assigning the new mode, however late, keeps the invariant.
LEMMA AssignInv ==
  ASSUME Inv, NEW t \in Thread, Assign(t)
  PROVE  /\ Inv'
         /\ mode' # "BOOT"
         /\ mode = "BOOT" => mode' = "INIT"
<1>1. /\ mode \in Mode /\ call \in [Thread -> Call] /\ call[t].phase = "read"
      /\ UNCHANGED <<bootElapsed, initElapsed, health, payloadActive, frames>>
      /\ call' = [call EXCEPT ![t] = NoCall]
      /\ mode' = call[t].target
      /\ pc' = IF t = Sim THEN Returned[pc] ELSE pc
      /\ interfered' = (interfered \/ t # Sim \/ pc = "uplink")
      /\ Sim \in Thread
  BY DEF Inv, TypeOK, Assign, tickVars, Thread
<1>2. /\ call' \in [Thread -> Call]
      /\ \A u \in Thread : u # t => call'[u] = call[u]
      /\ call'[t] = NoCall
  BY <1>1, NoCallIsCall
<1>3. mode' \in Mode /\ mode' # "BOOT" /\ (mode = "BOOT" => mode' = "INIT")
  BY <1>1 DEF Inv, TestedCalls, Call
<1>4. t = Sim => pc' \in {"subsystems", "telemetry", "uplink"}
  BY <1>1 DEF Inv, SimCallPlace, Returned
<1>5. TypeOK'
  BY <1>1, <1>2, <1>3, <1>4 DEF Inv, TypeOK
<1>6. SimCallPlace'
  BY <1>1, <1>2, <1>4, NoCallIsCall DEF Inv, SimCallPlace
<1>7. TestedCalls'
  BY <1>2, <1>3, NoCallIsCall DEF Inv, TestedCalls
<1>8. BootRequestLegal'
  BY <1>1, <1>2, <1>4, NoCallIsCall DEF BootRequestLegal
<1> QED BY <1>3, <1>5, <1>6, <1>7, <1>8 DEF Inv

-------------------------------------------------------------------------------
(* Steps that start a call *)

(***************************************************************************)
(* Thread t, in no call, starts one, and the mode does not change.         *)
(***************************************************************************)
LEMMA StartInv ==
  ASSUME Inv, NEW t \in Thread, NEW op \in {"transition", "to_safe"}, NEW target \in Mode,
         op = "to_safe" => target = "SAFE",
         call' = [call EXCEPT ![t] = Calling(op, target)], mode' = mode
  PROVE  /\ call' \in [Thread -> Call]
         /\ \A u \in Thread : u # t => call'[u] = call[u]
         /\ call'[t] = Calling(op, target)
         /\ TestedCalls'
<1>1. call \in [Thread -> Call]
  BY DEF Inv, TypeOK
<1>2. /\ call' \in [Thread -> Call]
      /\ \A u \in Thread : u # t => call'[u] = call[u]
      /\ call'[t] = Calling(op, target)
  BY <1>1, CallingIsCall
<1>3. TestedCalls'
  BY <1>2, CallingIsCall DEF Inv, TestedCalls
<1> QED BY <1>2, <1>3

\* _boot_progression keeps the invariant: it asks only for legal transitions.
LEMMA BeginTickInv == ASSUME Inv, BeginTick PROVE Inv'
<1>1. /\ mode \in Mode /\ call \in [Thread -> Call] /\ call[Sim].phase = "none"
      /\ UNCHANGED <<mode, health, payloadActive>> /\ frames' = {} /\ interfered' = FALSE
      /\ Sim \in Thread
  BY DEF Inv, TypeOK, BeginTick, SimAt, Thread
<1>2. bootElapsed' \in 0 .. BootDuration /\ initElapsed' \in 0 .. InitDuration
  BY CappedType, BootDurationAssumption, InitDurationAssumption
  DEF Inv, TypeOK, BeginTick, BootTick, InitTick
<1>3. CASE pc' = "subsystems" /\ UNCHANGED call
  <2>1. TypeOK'
    BY <1>1, <1>2, <1>3 DEF Inv, TypeOK
  <2> QED BY <1>1, <1>3, <2>1 DEF Inv, SimCallPlace, TestedCalls, BootRequestLegal
<1>4. CASE \E target \in Mode : /\ SimCalls("boot", "transition", target)
                                /\ MayChange("transition", target)
  <2>1. PICK target \in Mode : /\ SimCalls("boot", "transition", target)
                               /\ MayChange("transition", target)
    BY <1>4
  <2>2. pc' = "boot" /\ call' = [call EXCEPT ![Sim] = Calling("transition", target)]
    BY <2>1 DEF SimCalls
  <2>3. /\ call' \in [Thread -> Call]
        /\ call'[Sim] = Calling("transition", target)
        /\ TestedCalls'
    BY <1>1, <2>2, StartInv
  <2>4. TypeOK'
    BY <1>1, <1>2, <2>2, <2>3 DEF Inv, TypeOK
  <2>5. call'[Sim].op = "transition" /\ call'[Sim].target = target
    BY <2>3, CallingIsCall
  <2>6. BootRequestLegal'
    BY <1>1, <2>1, <2>5 DEF BootRequestLegal, MayChange
  <2> QED BY <2>2, <2>3, <2>4, <2>6 DEF Inv, SimCallPlace
<1>5. \/ pc' = "subsystems" /\ UNCHANGED call
      \/ \E target \in Mode : /\ SimCalls("boot", "transition", target)
                              /\ MayChange("transition", target)
  <2>1. CASE BootTick
    <3>1. MayChange("transition", "INIT") /\ "INIT" \in Mode
      BY <2>1, TableFacts DEF BootTick, MayChange, Mode
    <3> QED BY <2>1, <3>1 DEF BootTick
  <2>2. CASE InitTick
    <3>1. /\ MayChange("transition", "NORMAL") /\ "NORMAL" \in Mode
          /\ MayChange("transition", "SAFE") /\ "SAFE" \in Mode
      BY <2>2, TableFacts DEF InitTick, MayChange, Mode
    <3> QED BY <2>2, <3>1 DEF InitTick
  <2> QED BY <2>1, <2>2 DEF BeginTick
<1> QED BY <1>3, <1>4, <1>5

\* _check_thresholds, with its call of to_safe, keeps the invariant.
LEMMA CheckThresholdsInv == ASSUME Inv, CheckThresholds PROVE Inv'
<1>1. /\ call[Sim].phase = "none"
      /\ UNCHANGED <<mode, bootElapsed, initElapsed, health, payloadActive, frames, interfered>>
      /\ Sim \in Thread
  BY DEF CheckThresholds, SimAt, tickVars, Thread
<1>2. CASE pc' = "telemetry" /\ UNCHANGED call
  BY <1>1, <1>2 DEF Inv, TypeOK, SimCallPlace, TestedCalls, BootRequestLegal
<1>3. CASE SimCalls("thresholds", "to_safe", "SAFE")
  <2>1. pc' = "thresholds" /\ call' = [call EXCEPT ![Sim] = Calling("to_safe", "SAFE")]
    BY <1>3 DEF SimCalls
  <2>2. call' \in [Thread -> Call] /\ TestedCalls'
    BY <1>1, <2>1, StartInv DEF Mode
  <2> QED BY <1>1, <2>1, <2>2 DEF Inv, TypeOK, SimCallPlace, BootRequestLegal
<1> QED BY <1>2, <1>3 DEF CheckThresholds

\* A telecommand that asks for a mode keeps the invariant.
LEMMA UplinkInv == ASSUME Inv, NEW c \in ModeCommands, ExecuteModeCommand(c) PROVE Inv'
<1>1. /\ UNCHANGED <<mode, bootElapsed, initElapsed, health, payloadActive, interfered>>
      /\ pc' = "uplink" /\ frames' = {}
      /\ call' = [call EXCEPT ![Sim] = Calling("transition", c.target)]
      /\ c.target \in Mode /\ Sim \in Thread
  BY DEF ExecuteModeCommand, SimCalls, tickVars, ModeCommands, Thread, Mode
<1>2. call' \in [Thread -> Call] /\ TestedCalls'
  BY <1>1, StartInv
<1> QED BY <1>1, <1>2 DEF Inv, TypeOK, SimCallPlace, BootRequestLegal

\* An API request for a mode keeps the invariant.
LEMMA RequestInv ==
  ASSUME Inv, NEW t \in ApiThreads, NEW target \in Mode, RequestMode(t, target)
  PROVE  Inv'
<1>1. /\ UNCHANGED <<mode, pc, bootElapsed, initElapsed, health, payloadActive, frames, interfered>>
      /\ call' = [call EXCEPT ![t] = Calling("transition", target)]
      /\ t \in Thread /\ Sim \in Thread /\ t # Sim
  BY ApiThreadsAssumption DEF RequestMode, tickVars, Thread
<1>2. call' \in [Thread -> Call] /\ TestedCalls' /\ call'[Sim] = call[Sim]
  BY <1>1, StartInv
<1> QED BY <1>1, <1>2 DEF Inv, TypeOK, SimCallPlace, BootRequestLegal, MayChange

-------------------------------------------------------------------------------
(* Theorems *)

\* The spacecraft as it is built satisfies the invariant.
LEMMA InitInv == Init => Inv
<1> SUFFICES ASSUME Init PROVE Inv
  OBVIOUS
<1>1. Sim \in Thread /\ \A t \in Thread : call[t] = NoCall
  BY DEF Init, Thread
<1>2. call \in [Thread -> Call]
  BY NoCallIsCall DEF Init
<1>3. bootElapsed \in 0 .. BootDuration /\ initElapsed \in 0 .. InitDuration
  BY BootDurationAssumption, InitDurationAssumption DEF Init
<1>4. TypeOK
  BY <1>2, <1>3 DEF Init, TypeOK, Mode, Health
<1> QED BY <1>1, <1>4, NoCallIsCall DEF Init, Inv, SimCallPlace, TestedCalls, BootRequestLegal

(***************************************************************************)
(* Every step keeps the invariant, and what it may do to BOOT.             *)
(***************************************************************************)
LEMMA StepInv ==
  ASSUME Inv, Next
  PROVE  /\ Inv'
         /\ mode = "BOOT" => mode' \in {"BOOT", "INIT"}
         /\ mode # "BOOT" => mode' # "BOOT"
<1> DEFINE Good == /\ Inv'
                   /\ mode = "BOOT" => mode' \in {"BOOT", "INIT"}
                   /\ mode # "BOOT" => mode' # "BOOT"
<1> SUFFICES Good
  OBVIOUS
<1>1. ASSUME NEW t \in Thread, CallStep(t) PROVE Good
  <2>1. CASE Check(t)
    BY <2>1, CheckInv DEF Check
  <2>2. CASE Read(t)
    BY <2>2, ReadInv DEF Read
  <2>3. CASE Assign(t)
    BY <2>3, AssignInv
  <2> QED BY <1>1, <2>1, <2>2, <2>3 DEF CallStep
<1>2. CASE BeginTick
  BY <1>2, BeginTickInv DEF BeginTick
<1>3. CASE UpdateSubsystems
  BY <1>3 DEF UpdateSubsystems, SimAt, Inv, TypeOK, SimCallPlace, TestedCalls, BootRequestLegal
<1>4. CASE CheckThresholds
  BY <1>4, CheckThresholdsInv DEF CheckThresholds
<1>5. CASE ProduceTelemetry \/ RequestTelemetry
  <2>1. mode \in Mode
    BY DEF Inv, TypeOK
  <2>2. Produced \subseteq [category : {"HOUSEKEEPING", "PAYLOAD"}, operating_mode : Mode]
    BY <2>1 DEF Produced
  <2> QED BY <1>5, <2>2 DEF ProduceTelemetry, RequestTelemetry, SimAt, tickVars, Inv, TypeOK,
                            SimCallPlace, TestedCalls, BootRequestLegal
<1>6. CASE EndTick
  BY <1>6 DEF EndTick, SimAt, tickVars, Inv, TypeOK, SimCallPlace, TestedCalls, BootRequestLegal
<1>7. CASE Uplink
  BY <1>5, <1>7, UplinkInv DEF Uplink, ExecuteModeCommand
<1>8. ASSUME NEW t \in ApiThreads, NEW target \in Mode, RequestMode(t, target) PROVE Good
  BY <1>8, RequestInv DEF RequestMode
<1> HIDE DEF Good
<1>9. CASE SimStep
  BY <1>1, <1>2, <1>3, <1>4, <1>5, <1>9 DEF SimStep, Thread
<1>10. CASE \E t \in ApiThreads : ApiStep(t)
  <2>1. PICK t \in ApiThreads : ApiStep(t)
    BY <1>10
  <2>2. t \in Thread
    BY DEF Thread
  <2> QED BY <1>1, <1>8, <2>1, <2>2 DEF ApiStep
<1> QED BY <1>6, <1>7, <1>9, <1>10 DEF Next

\* The invariant depends on nothing but the variables.
LEMMA StutterInv == ASSUME Inv, UNCHANGED vars PROVE Inv'
  BY DEF vars, tickVars, Inv, TypeOK, SimCallPlace, TestedCalls, BootRequestLegal, MayChange

(***************************************************************************)
(* The inductive invariant of the mode logic.                              *)
(***************************************************************************)
THEOREM Invariance == Spec => []Inv
<1>1. Inv /\ [Next]_vars => Inv'
  BY StepInv, StutterInv
<1> QED BY <1>1, InitInv, PTL DEF Spec

(***************************************************************************)
(* Mode, calls and counters of the mode logic are well formed, however the *)
(* threads interleave.                                                     *)
(***************************************************************************)
THEOREM TypeCorrectness == Spec => []TypeOK
<1>1. Inv => TypeOK
  BY DEF Inv
<1> QED BY <1>1, Invariance, PTL

(***************************************************************************)
(* The mode leaves BOOT for INIT only and never returns to BOOT, for any   *)
(* number of threads racing through the unlocked ModeController.           *)
(***************************************************************************)
THEOREM BootCompletes == Spec => BootCompletesToInit
<1>1. Inv /\ [Next]_vars
        => [/\ mode = "BOOT" => mode' \in {"BOOT", "INIT"}
            /\ mode # "BOOT" => mode' # "BOOT"]_vars
  BY StepInv
<1> QED BY <1>1, Invariance, PTL DEF Spec, BootCompletesToInit

(***************************************************************************)
(* A tick that InvalidModeTransition aborts out of _boot_progression is    *)
(* one in which an API thread has changed the mode.                        *)
(***************************************************************************)
THEOREM AbortsAreInterference == Spec => AbortsOnlyWhenInterfered
<1> DEFINE Aborts == (pc = "boot" /\ pc' = "idle") => interfered
<1>1. ASSUME Inv, Next PROVE Aborts
  <2>1. SUFFICES ASSUME pc = "boot", pc' = "idle" PROVE interfered
    OBVIOUS
  <2>2. Check(Sim) /\ ~MayChange(call[Sim].op, call[Sim].target)
    <3>1. CASE SimStep
      BY <2>1, <3>1 DEF SimStep, CallStep, BeginTick, UpdateSubsystems, CheckThresholds,
                        ProduceTelemetry, SimAt, Check, Read, Assign, Returned
    <3>2. CASE ~SimStep
      BY <1>1, <2>1, <3>2, ApiThreadsAssumption
      DEF Next, EndTick, Uplink, RequestTelemetry, ExecuteModeCommand, ApiStep, CallStep, SimAt, Check, Read,
          Assign, RequestMode
    <3> QED BY <3>1, <3>2
  <2> QED BY <1>1, <2>1, <2>2 DEF Check, Inv, BootRequestLegal, TypeOK
<1>2. Inv /\ [Next]_vars => [Aborts]_vars
  BY <1>1
<1> QED BY <1>2, Invariance, PTL DEF Spec, AbortsOnlyWhenInterfered

-------------------------------------------------------------------------------
(* The stamp of payload records *)

\* As long as nobody has interfered with the tick, an active payload is in its
\* mode until the thresholds act, and after that it may be in SAFE.
ModeOfPayload == mode = "PAYLOAD_OPERATION" \/ (mode = "SAFE" /\ Critical(health))

PayloadPlace ==
  (payloadActive /\ ~interfered) =>
    /\ pc = "thresholds" =>
         /\ mode = "PAYLOAD_OPERATION"
         /\ call[Sim].phase # "none" => call[Sim].op = "to_safe" /\ Critical(health)
    /\ pc \in {"telemetry", "uplink"} => ModeOfPayload

\* What has just been produced is what the property says of it.
FramesPlace ==
  /\ frames # {} => pc \in {"uplink", "idle"}
  /\ PayloadOnlyInItsMode

\* A call, of whatever thread, keeps what is known of the payload.
LEMMA CallKeepsPayloadPlace ==
  ASSUME Inv, PayloadPlace, NEW t \in Thread, CallStep(t)
  PROVE  PayloadPlace'
<1>1. call \in [Thread -> Call] /\ Sim \in Thread
  BY DEF Inv, TypeOK, Thread
<1>2. CASE Check(t)
  BY <1>1, <1>2, NoCallIsCall
  DEF Check, tickVars, Raised, PayloadPlace, ModeOfPayload, Inv, SimCallPlace, Call
<1>3. CASE Read(t)
  BY <1>1, <1>3 DEF Read, tickVars, PayloadPlace, ModeOfPayload, Call
<1>4. CASE Assign(t)
  <2>1. CASE t # Sim
    <3>1. interfered' = TRUE
      BY <1>4, <2>1 DEF Assign
    <3> QED BY <3>1 DEF PayloadPlace
  <2>2. CASE t = Sim
    <3>1. /\ mode' = call[Sim].target /\ pc' = Returned[pc]
          /\ call[Sim].phase = "read" /\ UNCHANGED <<health, payloadActive>>
      BY <1>4, <2>2 DEF Assign, tickVars
    <3>2. interfered' <=> (interfered \/ pc = "uplink")
      BY <1>4, <2>2 DEF Assign
    <3>3. /\ pc' \in {"subsystems", "telemetry", "uplink"}
          /\ pc' = "telemetry" => pc = "thresholds"
          /\ pc' = "uplink" => pc = "uplink"
      BY <3>1 DEF Inv, SimCallPlace, Returned
    <3>4. call[Sim].op = "to_safe" => call[Sim].target = "SAFE"
      BY <1>1 DEF Inv, TestedCalls
    <3> QED BY <3>1, <3>2, <3>3, <3>4 DEF PayloadPlace, ModeOfPayload, Critical
  <2> QED BY <2>1, <2>2
<1> QED BY <1>2, <1>3, <1>4, <1>1 DEF CallStep

\* A call produces nothing, and it interferes for good.
LEMMA CallKeepsFramesPlace ==
  ASSUME Inv, FramesPlace, NEW t \in Thread, CallStep(t)
  PROVE  FramesPlace'
<1>1. /\ UNCHANGED <<frames, health>>
      /\ interfered => interfered'
  <2>1. interfered \in BOOLEAN
    BY DEF Inv, TypeOK
  <2>2. CASE Check(t) \/ Read(t)
    BY <2>2 DEF Check, Read, tickVars
  <2>3. CASE Assign(t)
    BY <2>1, <2>3 DEF Assign, tickVars
  <2> QED BY <2>2, <2>3 DEF CallStep
<1>2. pc \in {"uplink", "idle"} => pc' \in {"uplink", "idle"}
  BY DEF CallStep, Check, Read, Assign, Raised, Returned, Inv, SimCallPlace
<1> QED BY <1>1, <1>2 DEF FramesPlace, PayloadOnlyInItsMode

\* Producing shows the mode the payload was found in.
LEMMA ProductionFits ==
  ASSUME PayloadPlace, pc \in {"telemetry", "uplink"}, ~interfered
  PROVE  \A record \in Produced :
           record.category = "PAYLOAD" =>
             \/ record.operating_mode = "PAYLOAD_OPERATION"
             \/ record.operating_mode = "SAFE" /\ Critical(health)
<1>1. CASE payloadActive
  BY <1>1 DEF PayloadPlace, ModeOfPayload, Produced
<1>2. CASE ~payloadActive
  BY <1>2 DEF Produced
<1> QED BY <1>1, <1>2

\* Every step keeps what is known of the payload and of what it produced.
LEMMA NextKeepsPayloadPlace ==
  ASSUME Inv, PayloadPlace, FramesPlace, [Next]_vars
  PROVE  PayloadPlace' /\ FramesPlace'
<1> DEFINE Goal == PayloadPlace' /\ FramesPlace'
<1> SUFFICES Goal
  OBVIOUS
<1>1. call \in [Thread -> Call] /\ Sim \in Thread
  BY DEF Inv, TypeOK, Thread
<1>2. ASSUME NEW t \in Thread, CallStep(t) PROVE Goal
  BY <1>2, CallKeepsPayloadPlace, CallKeepsFramesPlace
<1>3. CASE BeginTick
  <2>1. PayloadPlace'
    BY <1>3 DEF BeginTick, BootTick, InitTick, SimAt, SimCalls, PayloadPlace
  <2>2. FramesPlace'
    BY <1>3 DEF BeginTick, FramesPlace, PayloadOnlyInItsMode
  <2> QED BY <2>1, <2>2
<1>4. CASE UpdateSubsystems
  <2>1. PayloadPlace'
    BY <1>4 DEF UpdateSubsystems, SimAt, PayloadPlace, ModeOfPayload
  <2>2. frames' = {}
    BY <1>4 DEF UpdateSubsystems, SimAt, FramesPlace
  <2> QED BY <2>1, <2>2 DEF FramesPlace, PayloadOnlyInItsMode
<1>5. CASE CheckThresholds
  <2>1. PayloadPlace'
    BY <1>1, <1>5, CallingIsCall
    DEF CheckThresholds, SimAt, SimCalls, tickVars, PayloadPlace, ModeOfPayload, Mode
  <2>2. frames' = {}
    BY <1>5 DEF CheckThresholds, SimAt, FramesPlace
  <2> QED BY <2>1, <2>2 DEF FramesPlace, PayloadOnlyInItsMode
<1>6. CASE ProduceTelemetry \/ RequestTelemetry
  <2>1. /\ pc \in {"telemetry", "uplink"} /\ pc' \in {"uplink", "idle"}
        /\ UNCHANGED <<mode, call, health, payloadActive, interfered>>
        /\ frames' = Produced
    BY <1>6 DEF ProduceTelemetry, RequestTelemetry, SimAt, tickVars
  <2>2. PayloadPlace'
    BY <2>1 DEF PayloadPlace, ModeOfPayload
  <2>3. FramesPlace'
    BY <2>1, ProductionFits DEF FramesPlace, PayloadOnlyInItsMode
  <2> QED BY <2>2, <2>3
<1>7. CASE EndTick \/ \E c \in ModeCommands : ExecuteModeCommand(c)
  <2>1. frames' = {} /\ UNCHANGED <<mode, health, payloadActive, interfered>>
        /\ pc = "uplink" /\ pc' \in {"uplink", "idle"}
    BY <1>7 DEF EndTick, ExecuteModeCommand, SimCalls, SimAt, tickVars
  <2>2. PayloadPlace'
    BY <2>1 DEF PayloadPlace, ModeOfPayload
  <2> QED BY <2>1, <2>2 DEF FramesPlace, PayloadOnlyInItsMode
<1>8. ASSUME NEW t \in ApiThreads, NEW target \in Mode, RequestMode(t, target)
      PROVE  Goal
  <2>1. call'[Sim] = call[Sim]
    BY <1>1, <1>8, ApiThreadsAssumption DEF RequestMode, Thread
  <2>2. UNCHANGED <<mode, pc, health, payloadActive, frames, interfered>>
    BY <1>8 DEF RequestMode, tickVars
  <2> QED BY <2>1, <2>2 DEF PayloadPlace, ModeOfPayload, FramesPlace, PayloadOnlyInItsMode
<1>9. CASE UNCHANGED vars
  BY <1>9 DEF vars, tickVars, PayloadPlace, ModeOfPayload, FramesPlace, PayloadOnlyInItsMode
<1> HIDE DEF Goal
<1>10. CASE SimStep
  BY <1>1, <1>2, <1>3, <1>4, <1>5, <1>6, <1>10 DEF SimStep
<1>11. CASE \E t \in ApiThreads : ApiStep(t)
  <2>1. PICK t \in ApiThreads : ApiStep(t)
    BY <1>11
  <2> QED BY <1>2, <1>8, <2>1 DEF ApiStep, Thread
<1>12. CASE Uplink
  BY <1>6, <1>7, <1>12 DEF Uplink
<1> QED BY <1>7, <1>9, <1>10, <1>11, <1>12 DEF Next

(***************************************************************************)
(* However the threads interleave, and whenever telemetry is requested in  *)
(* between, a payload record is stamped PAYLOAD_OPERATION, or SAFE in a    *)
(* tick that a critical threshold has degraded, unless the mode was        *)
(* changed under the tick by a request or by a command before it in the    *)
(* same fetch_due.                                                         *)
(***************************************************************************)
THEOREM PayloadStamps == Spec => []PayloadOnlyInItsMode
<1>1. Init => PayloadPlace /\ FramesPlace
  BY DEF Init, PayloadPlace, FramesPlace, PayloadOnlyInItsMode
<1>2. Inv /\ PayloadPlace /\ FramesPlace /\ [Next]_vars => PayloadPlace' /\ FramesPlace'
  BY NextKeepsPayloadPlace
<1>3. FramesPlace => PayloadOnlyInItsMode
  BY DEF FramesPlace
<1> QED BY <1>1, <1>2, <1>3, Invariance, PTL DEF Spec
===============================================================================
