------------------------------ MODULE Telecommand ------------------------------
(***************************************************************************)
(* The telecommand path from the HTTP API to execution on board:           *)
(* POST /api/command/send (src/mission_control/api.py), the uplink gateway *)
(* of the ground station (src/grounf_station/station.py), the lossy and    *)
(* reordering link (src/communication/link.py), and the security gate of   *)
(* the spacecraft (src/satelite/spacecraft.py), with a ReplayGuard         *)
(* (src/security/replay.py) at either end.                                 *)
(*                                                                         *)
(* API requests run on worker threads and share the station without a      *)
(* lock, so send_telecommand is split at every access to shared state.     *)
(* Frames are delivered, and commands executed, by the one simulation      *)
(* thread, so a delivery is one step.                                      *)
(*                                                                         *)
(* A frame is authentic and well formed unless the channel corrupted it;   *)
(* then the CRC rejects it.  What a command is about is abstracted to the  *)
(* two answers the gate depends on: is it authorized in the current mode,  *)
(* and does it execute.  link.transmit may raise RuntimeError while other  *)
(* threads use the link (SpaceLink): in a request, and on board in         *)
(* REQUEST_TELEMETRY.                                                      *)
(***************************************************************************)
EXTENDS Integers, Sequences, FiniteSets

CONSTANTS
  ApiThreads,         \* worker threads that may be inside send_command
  Sequence,           \* the sequence numbers commands carry
  OperatorSequence,   \* those a request may name (CommandRequestModel.sequence)
  FirstSequence,      \* GroundStation.command_seq at start (1000 in the code)
  Window,             \* how many sequence numbers a guard remembers (512)
  MaxSends            \* bounds the commands that get as far as the link

ASSUME SequenceAssumption == Sequence \subseteq Int
ASSUME OperatorSequenceAssumption == OperatorSequence \subseteq Sequence
ASSUME FirstSequenceAssumption == FirstSequence \in Nat \ {0}
ASSUME WindowAssumption == Window \in Nat \ {0}
ASSUME MaxSendsAssumption == MaxSends \in Nat

VARIABLES
  thread,      \* per worker: where it is, its command's sequence, a value read
  commandSeq,  \* GroundStation.command_seq
  groundGuard, \* GroundStation.replay_guard
  sent,        \* history: the sequence number of every frame given to the link
  inFlight,    \* SpaceLink._pending: frames on their way, by index into sent
  guard,       \* Spacecraft.command_guard
  results,     \* Spacecraft.command_results, "none" for no entry
  executed,    \* history: the sequence numbers handed to _execute_command
  broken,      \* history: those among them an exception broke off
  alone,       \* history: have no two requests overlapped so far?
  raised,      \* history: has link.transmit raised in a request?
  heard        \* history: the sequence numbers that reached handle_command

groundVars == <<thread, commandSeq, groundGuard, alone, raised>>
linkVars == <<sent, inFlight>>
boardVars == <<guard, results, executed, broken, heard>>
vars == <<groundVars, linkVars, boardVars>>

-------------------------------------------------------------------------------
(* class ReplayGuard, for the one satellite there is *)

Guard == [bucket : Seq(Sequence), watermark : Int]

NewGuard == [bucket |-> << >>, watermark |-> 0]

InBucket(g, s) == \E i \in 1 .. Len(g.bucket) : g.bucket[i] = s

\* The comparison with the watermark left out.
MutantIsReplay(g, s) == InBucket(g, s)

\* is_replay
IsReplay(g, s) == s <= g.watermark \/ InBucket(g, s)

\* A deque without its maxlen.
MutantRemember(bucket, s) == Append(bucket, s)

\* deque(maxlen=512).append
Remember(bucket, s) ==
  IF Len(bucket) < Window THEN Append(bucket, s) ELSE Append(Tail(bucket), s)

Larger(a, b) == IF a > b THEN a ELSE b

\* record, where no other thread can interfere
Record(g, s) ==
  [bucket |-> Remember(g.bucket, s), watermark |-> Larger(g.watermark, s)]

-------------------------------------------------------------------------------

Place == {"idle", "chosen", "checked", "remembered", "maximum", "recorded",
          "transmitted", "counted"}

Worker == [pc : Place, seq : Int, read : Int]

At(t, place) == thread[t].pc = place

Goto(t, place) == thread' = [thread EXCEPT ![t].pc = place]

Init ==
  /\ thread = [t \in ApiThreads |-> [pc |-> "idle", seq |-> 0, read |-> 0]]
  /\ commandSeq = FirstSequence
  /\ groundGuard = NewGuard
  /\ sent = << >>
  /\ inFlight = {}
  /\ guard = NewGuard
  /\ results = [s \in Sequence |-> "none"]
  /\ executed = << >>
  /\ broken = {}
  /\ alone = TRUE
  /\ raised = FALSE
  /\ heard = {}

-------------------------------------------------------------------------------
(* Ground: send_command and GroundStation.send_telecommand *)

\* The operator's sequence number, or the station's next one.  A command that
\* is not in the registry or whose parameters do not fit ends here (422).
SendCommand(t) ==
  /\ At(t, "idle")
  /\ Len(sent) + Cardinality({u \in ApiThreads : ~At(u, "idle")}) < MaxSends
  /\ \E s \in (OperatorSequence \union {commandSeq}) \intersect Sequence :
       /\ thread' = [thread EXCEPT ![t] = [pc |-> "chosen", seq |-> s, read |-> 0]]
  /\ alone' = (alone /\ \A u \in ApiThreads : At(u, "idle"))
  /\ UNCHANGED <<commandSeq, groundGuard, raised, linkVars, boardVars>>

\* if self.replay_guard.is_replay(...): raise ValueError   (409)
CheckReplay(t) ==
  /\ At(t, "chosen")
  /\ Goto(t, IF IsReplay(groundGuard, thread[t].seq) THEN "idle" ELSE "checked")
  /\ UNCHANGED <<commandSeq, groundGuard, alone, raised, linkVars, boardVars>>

\* replay_guard.record: bucket.append(sequence)
RememberSequence(t) ==
  /\ At(t, "checked")
  /\ groundGuard' = [groundGuard EXCEPT !.bucket = Remember(@, thread[t].seq)]
  /\ Goto(t, "remembered")
  /\ UNCHANGED <<commandSeq, alone, raised, linkVars, boardVars>>

\* replay_guard.record: max(self._watermark[...], sequence)
ReadWatermark(t) ==
  /\ At(t, "remembered")
  /\ thread' = [thread EXCEPT ![t].pc = "maximum",
                              ![t].read = Larger(groundGuard.watermark, thread[t].seq)]
  /\ UNCHANGED <<commandSeq, groundGuard, alone, raised, linkVars, boardVars>>

\* replay_guard.record: self._watermark[...] = ...
WriteWatermark(t) ==
  /\ At(t, "maximum")
  /\ groundGuard' = [groundGuard EXCEPT !.watermark = thread[t].read]
  /\ Goto(t, "recorded")
  /\ UNCHANGED <<commandSeq, alone, raised, linkVars, boardVars>>

\* link.transmit: dropped (gate, outage, loss), or under way, intact or not.
\* Latency and jitter put no order on the frames in flight.  A transmit that
\* raises has lost the frame (the sum over the rate window, link.py:183) or left
\* it in the list (heappush, link.py:174); the request ends with the exception,
\* its number recorded and not counted.
Transmit(t) ==
  /\ At(t, "recorded")
  /\ sent' = Append(sent, thread[t].seq)
  /\ \/ UNCHANGED inFlight
     \/ \E intact \in BOOLEAN :
          inFlight' = inFlight \union {[id |-> Len(sent) + 1, intact |-> intact]}
  /\ \/ Goto(t, "transmitted") /\ UNCHANGED raised
     \/ Goto(t, "idle") /\ raised' = TRUE
  /\ UNCHANGED <<commandSeq, groundGuard, alone, boardVars>>

\* self.command_seq += 1: the read
ReadCommandSeq(t) ==
  /\ At(t, "transmitted")
  /\ thread' = [thread EXCEPT ![t].pc = "counted", ![t].read = commandSeq]
  /\ UNCHANGED <<commandSeq, groundGuard, alone, raised, linkVars, boardVars>>

\* The increment forgotten.
MutantWriteCommandSeq(t) ==
  /\ At(t, "counted")
  /\ commandSeq' = thread[t].read
  /\ Goto(t, "idle")
  /\ UNCHANGED <<groundGuard, alone, raised, linkVars, boardVars>>

\* self.command_seq += 1: the write, and the answer to the client
WriteCommandSeq(t) ==
  /\ At(t, "counted")
  /\ commandSeq' = thread[t].read + 1
  /\ Goto(t, "idle")
  /\ UNCHANGED <<groundGuard, alone, raised, linkVars, boardVars>>

GroundStep(t) ==
  \/ SendCommand(t) \/ CheckReplay(t) \/ RememberSequence(t) \/ ReadWatermark(t)
  \/ WriteWatermark(t) \/ Transmit(t) \/ ReadCommandSeq(t) \/ WriteCommandSeq(t)

-------------------------------------------------------------------------------
(* Space: Spacecraft.on_uplink and handle_command *)

\* The CRC check of on_uplink fails.
RejectCorrupt(f) ==
  /\ ~f.intact
  /\ UNCHANGED boardVars

\* Gives the replayed command a result as well.
MutantRejectReplay(f) ==
  LET s == sent[f.id] IN
  /\ f.intact
  /\ IsReplay(guard, s)
  /\ results' = [results EXCEPT ![s] = "unauthorized"]
  /\ heard' = heard \union {s}
  /\ UNCHANGED <<guard, executed, broken>>

\* Step 4 of the gate: no entry in command_results.
RejectReplay(f) ==
  LET s == sent[f.id] IN
  /\ f.intact
  /\ IsReplay(guard, s)
  /\ heard' = heard \union {s}
  /\ UNCHANGED <<guard, results, executed, broken>>

\* Authorization tested before replay (steps 4 and 5 swapped).
MutantRejectUnauthorized(f) ==
  LET s == sent[f.id] IN
  /\ f.intact
  /\ results' = [results EXCEPT ![s] = "unauthorized"]
  /\ heard' = heard \union {s}
  /\ UNCHANGED <<guard, executed, broken>>

\* Step 5: the refusal is recorded, the sequence number is not consumed.
RejectUnauthorized(f) ==
  LET s == sent[f.id] IN
  /\ f.intact
  /\ ~IsReplay(guard, s)
  /\ results' = [results EXCEPT ![s] = "unauthorized"]
  /\ heard' = heard \union {s}
  /\ UNCHANGED <<guard, executed, broken>>

\* Executes first and consumes the sequence number only on success.
MutantExecute(f, outcome) ==
  LET s == sent[f.id] IN
  /\ f.intact
  /\ ~IsReplay(guard, s)
  /\ guard' = IF outcome = "executed" THEN Record(guard, s) ELSE guard
  /\ executed' = Append(executed, s)
  /\ results' = [results EXCEPT ![s] = outcome]
  /\ heard' = heard \union {s}
  /\ UNCHANGED broken

\* Step 6: the sequence number is consumed, then the command runs.
Execute(f, outcome) ==
  LET s == sent[f.id] IN
  /\ f.intact
  /\ ~IsReplay(guard, s)
  /\ guard' = Record(guard, s)
  /\ executed' = Append(executed, s)
  /\ results' = [results EXCEPT ![s] = outcome]
  /\ heard' = heard \union {s}
  /\ UNCHANGED broken

\* An exception that is no InvalidModeTransition leaves _execute_command: the
\* transmit of REQUEST_TELEMETRY.  fetch_due swallows it (link.py:199); the
\* number is consumed, and no result is kept.
ExecuteRaises(f) ==
  LET s == sent[f.id] IN
  /\ f.intact
  /\ ~IsReplay(guard, s)
  /\ guard' = Record(guard, s)
  /\ executed' = Append(executed, s)
  /\ broken' = broken \union {s}
  /\ heard' = heard \union {s}
  /\ UNCHANGED results

\* link.fetch_due hands one due frame to the spacecraft.
Deliver(f) ==
  /\ inFlight' = inFlight \ {f}
  /\ UNCHANGED <<groundVars, sent>>
  /\ \/ RejectCorrupt(f)
     \/ RejectReplay(f)
     \/ RejectUnauthorized(f)
     \/ \E outcome \in {"executed", "rejected"} : Execute(f, outcome)
     \/ ExecuteRaises(f)

-------------------------------------------------------------------------------

Next ==
  \/ \E t \in ApiThreads : GroundStep(t)
  \/ \E f \in inFlight : Deliver(f)

Spec == Init /\ [][Next]_vars

Issued == {sent[i] : i \in 1 .. Len(sent)}

Abstract == INSTANCE CommandExecution WITH issued <- Issued

-------------------------------------------------------------------------------

TypeOK ==
  /\ thread \in [ApiThreads -> Worker]
  /\ \A t \in ApiThreads : ~At(t, "idle") => thread[t].seq \in Sequence
  /\ commandSeq \in Int
  /\ groundGuard \in Guard /\ Len(groundGuard.bucket) <= Window
  /\ sent \in Seq(Sequence)
  /\ inFlight \subseteq [id : 1 .. Len(sent), intact : BOOLEAN]
  /\ guard \in Guard /\ Len(guard.bucket) <= Window
  /\ results \in [Sequence -> {"none", "unauthorized", "rejected", "executed"}]
  /\ executed \in Seq(Sequence)
  /\ broken \subseteq Sequence
  /\ alone \in BOOLEAN
  /\ raised \in BOOLEAN
  /\ heard \subseteq Sequence

(***************************************************************************)
(* A sequence number is consumed at most once, and in increasing order,    *)
(* although racing API requests put the same number on two frames and the  *)
(* link loses and reorders them.                                           *)
(***************************************************************************)
ExecutesInOrder ==
  \A i, j \in 1 .. Len(executed) : i < j => executed[i] < executed[j]

(***************************************************************************)
(* GET /api/command/result/{sequence} answers executed or rejected for     *)
(* exactly the commands that were handed to execution and came back from   *)
(* it, whatever copies of them arrived before and after; a command that an *)
(* exception broke off is consumed, and no result says so.                 *)
(***************************************************************************)
ResultsTellWhatRan ==
  \A s \in Sequence :
    results[s] \in {"executed", "rejected"}
      <=> s \notin broken /\ \E i \in 1 .. Len(executed) : executed[i] = s

(***************************************************************************)
(* A result that tells a command ran, or tried to, is never overwritten.   *)
(***************************************************************************)
FinalResultsStay ==
  [][\A s \in Sequence :
       results[s] \in {"executed", "rejected"} => results'[s] = results[s]]_vars

(***************************************************************************)
(* The telecommand path keeps the promise of CommandExecution.             *)
(***************************************************************************)
KeepsPromise == Abstract!Spec

(***************************************************************************)
(* As long as no two requests overlap, the guard of the station refuses a  *)
(* number exactly if it, or a larger one, has been given to the link.  So  *)
(* the station's own next number is refused only if an operator has named  *)
(* a number the station would not have chosen, or a transmit has raised:   *)
(* its number is recorded and never counted, and from then on every        *)
(* request without a number of its own is refused.                         *)
(***************************************************************************)
GroundGuardIsExact ==
  [][alone =>
       \A t \in ApiThreads : At(t, "chosen") =>
         /\ thread'[t].pc = "idle" => \E s \in Issued \union {0} : thread[t].seq <= s
         /\ thread'[t].pc = "checked" => \A s \in Issued : s < thread[t].seq
         /\ (thread'[t].pc = "idle" /\ thread[t].seq = commandSeq) =>
              \/ raised
              \/ Issued # FirstSequence .. FirstSequence + Len(sent) - 1]_vars

(***************************************************************************)
(* "Record the rejection so ops can see *why* a command did not run        *)
(* instead of it staying "pending" forever" (spacecraft.py:475): every     *)
(* authentic command that reached the gate has a result, as long as no     *)
(* exception has broken anything off.                                      *)
(***************************************************************************)
HeardCommandsHaveResults ==
  (~raised /\ broken = {}) => \A s \in heard : results[s] # "none"
===============================================================================
