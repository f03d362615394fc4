-------------------------- MODULE TelecommandProofs ---------------------------
(***************************************************************************)
(* Theorems about the telecommand path, for any number of worker threads,  *)
(* any set of sequence numbers, any window of the replay guards and any    *)
(* number of frames in flight: the spacecraft consumes sequence numbers in *)
(* increasing order, its results say what ran, and the path implements     *)
(* CommandExecution.                                                       *)
(*                                                                         *)
(* The argument rests on the watermark of the spacecraft's guard alone:    *)
(* it is at least every sequence number executed so far, and a command is  *)
(* executed only above it.  The ground guard, which worker threads race    *)
(* on, is not needed; nor is the guard's window of remembered numbers.     *)
(* That the ground guard refuses exactly what was sent while no two        *)
(* requests overlap has invariants of its own, OneAtATime and AboveIssued. *)
(***************************************************************************)
EXTENDS Telecommand, TLAPS

-------------------------------------------------------------------------------
(* The invariant *)

\* The watermark of the spacecraft's guard is at least every number executed.
WatermarkCovers ==
  \A i \in 1 .. Len(executed) : executed[i] <= guard.watermark

\* What an exception has broken off had been handed to execution.
BrokenWasExecuted ==
  \A s \in broken : \E i \in 1 .. Len(executed) : executed[i] = s

Inv ==
  /\ TypeOK
  /\ WatermarkCovers
  /\ BrokenWasExecuted
  /\ ExecutesInOrder
  /\ ResultsTellWhatRan

(***************************************************************************)
(* deque(maxlen).append never holds more than the window.                  *)
(***************************************************************************)
LEMMA RememberType ==
  ASSUME NEW b \in Seq(Sequence), Len(b) <= Window, NEW s \in Sequence
  PROVE  Remember(b, s) \in Seq(Sequence) /\ Len(Remember(b, s)) <= Window
<1> USE WindowAssumption
<1>1. CASE Len(b) < Window
  BY <1>1 DEF Remember
<1>2. CASE ~(Len(b) < Window)
  <2>1. b # << >> /\ Len(b) = Window
    BY <1>2
  <2>2. Tail(b) \in Seq(Sequence) /\ Len(Tail(b)) = Len(b) - 1
    BY <2>1
  <2>3. Append(Tail(b), s) \in Seq(Sequence) /\ Len(Append(Tail(b), s)) = Len(b)
    BY <2>2
  <2> QED BY <1>2, <2>1, <2>3 DEF Remember
<1> QED BY <1>1, <1>2

(***************************************************************************)
(* record keeps a guard well formed, and its watermark is the larger of    *)
(* the old one and the new sequence number.                                *)
(***************************************************************************)
LEMMA RecordType ==
  ASSUME NEW g \in Guard, Len(g.bucket) <= Window, NEW s \in Sequence
  PROVE  /\ Record(g, s) \in Guard
         /\ Len(Record(g, s).bucket) <= Window
         /\ Record(g, s).watermark >= g.watermark
         /\ Record(g, s).watermark >= s
<1>1. g.bucket \in Seq(Sequence) /\ g.watermark \in Int /\ s \in Int
  BY SequenceAssumption DEF Guard
<1>2. Remember(g.bucket, s) \in Seq(Sequence) /\ Len(Remember(g.bucket, s)) <= Window
  BY <1>1, RememberType
<1>3. /\ Larger(g.watermark, s) \in Int
      /\ Larger(g.watermark, s) >= g.watermark
      /\ Larger(g.watermark, s) >= s
  BY <1>1 DEF Larger
<1> QED BY <1>2, <1>3 DEF Record, Guard

-------------------------------------------------------------------------------
(* Ground steps: they do not touch the board *)

\* The conjuncts of TypeOK that are about the workers.
ThreadsOK ==
  /\ thread \in [ApiThreads -> Worker]
  /\ \A t \in ApiThreads : ~At(t, "idle") => thread[t].seq \in Sequence

\* A worker that moves on keeps the types of the workers.
LEMMA GotoType ==
  ASSUME ThreadsOK, NEW t \in ApiThreads, ~At(t, "idle"),
         NEW place \in Place, Goto(t, place)
  PROVE  ThreadsOK'
<1>1. thread' = [thread EXCEPT ![t].pc = place]
  BY DEF Goto
<1>2. thread' \in [ApiThreads -> Worker]
  BY <1>1 DEF ThreadsOK, Worker
<1>3. \A u \in ApiThreads : /\ thread'[u].seq = thread[u].seq
                            /\ u # t => thread'[u].pc = thread[u].pc
  BY <1>1 DEF ThreadsOK, Worker
<1> QED BY <1>2, <1>3 DEF ThreadsOK, At

\* A worker that moves on with a value it has read keeps the types of the workers.
LEMMA GotoReadType ==
  ASSUME ThreadsOK, NEW t \in ApiThreads, ~At(t, "idle"),
         NEW place \in Place, NEW v \in Int,
         thread' = [thread EXCEPT ![t].pc = place, ![t].read = v]
  PROVE  ThreadsOK'
<1>1. thread' \in [ApiThreads -> Worker]
  BY DEF ThreadsOK, Worker
<1>2. \A u \in ApiThreads : /\ thread'[u].seq = thread[u].seq
                            /\ u # t => thread'[u].pc = thread[u].pc
  BY DEF ThreadsOK, Worker
<1> QED BY <1>1, <1>2 DEF ThreadsOK, At

(***************************************************************************)
(* A step of the ground station keeps the types and leaves the board, the  *)
(* executed commands and the results alone.                                *)
(***************************************************************************)
LEMMA GroundType ==
  ASSUME TypeOK, NEW t \in ApiThreads, GroundStep(t)
  PROVE  TypeOK' /\ UNCHANGED boardVars
<1> USE DEF At
<1>1. ThreadsOK
  BY DEF TypeOK, ThreadsOK
<1>2. SUFFICES ThreadsOK' /\ UNCHANGED boardVars
               /\ commandSeq' \in Int
               /\ groundGuard' \in Guard /\ Len(groundGuard'.bucket) <= Window
               /\ sent' \in Seq(Sequence)
               /\ inFlight' \subseteq [id : 1 .. Len(sent'), intact : BOOLEAN]
               /\ alone' \in BOOLEAN /\ raised' \in BOOLEAN
  BY DEF TypeOK, ThreadsOK, boardVars
<1>3. thread[t] \in Worker /\ thread[t].seq \in Int /\ thread[t].read \in Int
  BY <1>1 DEF ThreadsOK, Worker
<1>4. ~At(t, "idle") => thread[t].seq \in Sequence
  BY <1>1 DEF ThreadsOK
<1>5. CASE SendCommand(t)
  <2>1. PICK s \in Sequence :
          thread' = [thread EXCEPT ![t] = [pc |-> "chosen", seq |-> s, read |-> 0]]
    BY <1>5 DEF SendCommand
  <2>2. [pc |-> "chosen", seq |-> s, read |-> 0] \in Worker
    BY SequenceAssumption DEF Worker, Place
  <2>3. thread' \in [ApiThreads -> Worker]
    BY <1>1, <2>1, <2>2 DEF ThreadsOK
  <2>4. \A u \in ApiThreads : thread'[u] = IF u = t THEN [pc |-> "chosen", seq |-> s, read |-> 0]
                                           ELSE thread[u]
    BY <1>1, <2>1 DEF ThreadsOK
  <2>5. ThreadsOK'
    BY <1>1, <2>3, <2>4 DEF ThreadsOK
  <2> QED BY <1>5, <2>5 DEF SendCommand, TypeOK, linkVars, boardVars
<1>6. CASE CheckReplay(t)
  <2>1. ThreadsOK'
    BY <1>1, <1>6, GotoType DEF CheckReplay, Place
  <2> QED BY <1>6, <2>1 DEF CheckReplay, TypeOK, linkVars, boardVars
<1>7. CASE RememberSequence(t)
  <2>1. ThreadsOK'
    BY <1>1, <1>7, GotoType DEF RememberSequence, Place
  <2>2. thread[t].seq \in Sequence
    BY <1>4, <1>7 DEF RememberSequence
  <2>3. /\ groundGuard.bucket \in Seq(Sequence) /\ Len(groundGuard.bucket) <= Window
        /\ groundGuard = [bucket |-> groundGuard.bucket, watermark |-> groundGuard.watermark]
        /\ groundGuard.watermark \in Int
    BY DEF TypeOK, Guard
  <2>4. groundGuard' = [bucket    |-> Remember(groundGuard.bucket, thread[t].seq),
                        watermark |-> groundGuard.watermark]
    BY <1>7, <2>3 DEF RememberSequence
  <2>5. groundGuard' \in Guard /\ Len(groundGuard'.bucket) <= Window
    BY <2>2, <2>3, <2>4, RememberType DEF Guard
  <2> QED BY <1>7, <2>1, <2>2, <2>5 DEF RememberSequence, TypeOK, linkVars, boardVars
<1>8. CASE ReadWatermark(t)
  <2>1. Larger(groundGuard.watermark, thread[t].seq) \in Int
    BY <1>3 DEF TypeOK, Guard, Larger
  <2>2. ThreadsOK'
    BY <1>1, <1>8, <2>1, GotoReadType DEF ReadWatermark, Place
  <2> QED BY <1>8, <2>2 DEF ReadWatermark, TypeOK, linkVars, boardVars
<1>9. CASE WriteWatermark(t)
  <2>1. ThreadsOK'
    BY <1>1, <1>9, GotoType DEF WriteWatermark, Place
  <2>2. groundGuard' \in Guard /\ groundGuard'.bucket = groundGuard.bucket
    BY <1>3, <1>9 DEF WriteWatermark, TypeOK, Guard
  <2> QED BY <1>9, <2>1, <2>2 DEF WriteWatermark, TypeOK, linkVars, boardVars
<1>10. CASE Transmit(t)
  <2>1. ThreadsOK'
    BY <1>1, <1>10, GotoType DEF Transmit, Place
  <2>6. raised' \in BOOLEAN
    BY <1>10 DEF Transmit, TypeOK
  <2>2. thread[t].seq \in Sequence /\ sent \in Seq(Sequence)
    BY <1>4, <1>10 DEF Transmit, TypeOK
  <2>3. sent' \in Seq(Sequence) /\ Len(sent') = Len(sent) + 1 /\ Len(sent) \in Nat
    BY <1>10, <2>2 DEF Transmit
  <2>4. inFlight \subseteq [id : 1 .. Len(sent'), intact : BOOLEAN]
    BY <2>3 DEF TypeOK
  <2>5. inFlight' \subseteq [id : 1 .. Len(sent'), intact : BOOLEAN]
    BY <1>10, <2>3, <2>4 DEF Transmit
  <2> QED BY <1>10, <2>1, <2>3, <2>5, <2>6 DEF Transmit, TypeOK, boardVars
<1>11. CASE ReadCommandSeq(t)
  <2>1. commandSeq \in Int
    BY DEF TypeOK
  <2>2. ThreadsOK'
    BY <1>1, <1>11, <2>1, GotoReadType DEF ReadCommandSeq, Place
  <2> QED BY <1>11, <2>2 DEF ReadCommandSeq, TypeOK, linkVars, boardVars
<1>12. CASE WriteCommandSeq(t)
  <2>1. ThreadsOK'
    BY <1>1, <1>12, GotoType DEF WriteCommandSeq, Place
  <2> QED BY <1>3, <1>12, <2>1 DEF WriteCommandSeq, TypeOK, linkVars, boardVars
<1> QED BY <1>5, <1>6, <1>7, <1>8, <1>9, <1>10, <1>11, <1>12 DEF GroundStep

-------------------------------------------------------------------------------
(* Deliveries *)

(***************************************************************************)
(* A frame in flight carries a sequence number the station has sent.       *)
(***************************************************************************)
LEMMA FrameSequence ==
  ASSUME TypeOK, NEW f \in inFlight
  PROVE  /\ f.id \in 1 .. Len(sent)
         /\ sent[f.id] \in Sequence
         /\ sent[f.id] \in Int
         /\ sent[f.id] \in Issued
<1>1. f \in [id : 1 .. Len(sent), intact : BOOLEAN] /\ sent \in Seq(Sequence)
  BY DEF TypeOK
<1>2. f.id \in 1 .. Len(sent)
  BY <1>1
<1>3. sent[f.id] \in Sequence
  BY <1>1, <1>2
<1>4. sent[f.id] \in Int
  BY <1>3, SequenceAssumption
<1>5. sent[f.id] \in Issued
  BY <1>2 DEF Issued
<1> QED BY <1>2, <1>3, <1>4, <1>5

(***************************************************************************)
(* A frame given to the link issues its sequence number.                   *)
(***************************************************************************)
LEMMA IssuedGrows ==
  ASSUME sent \in Seq(Sequence), NEW x \in Sequence, sent' = Append(sent, x)
  PROVE  Issued' = Issued \union {x}
<1>1. /\ Len(sent') = Len(sent) + 1 /\ Len(sent) \in Nat
      /\ sent'[Len(sent) + 1] = x
      /\ \A i \in 1 .. Len(sent) : sent'[i] = sent[i]
  OBVIOUS
<1> QED BY <1>1 DEF Issued

(***************************************************************************)
(* A command that is not a replay carries a sequence number above every    *)
(* one executed so far.                                                    *)
(***************************************************************************)
LEMMA NoReplayIsLarger ==
  ASSUME Inv, NEW s \in Sequence, ~IsReplay(guard, s)
  PROVE  /\ s > guard.watermark
         /\ \A i \in 1 .. Len(executed) : executed[i] \in Sequence /\ executed[i] < s
<1>1. /\ guard.watermark \in Int /\ s \in Int
      /\ \A i \in 1 .. Len(executed) : executed[i] \in Sequence /\ executed[i] \in Int
  <2>1. guard.watermark \in Int /\ executed \in Seq(Sequence)
    BY DEF Inv, TypeOK, Guard
  <2>2. \A i \in 1 .. Len(executed) : executed[i] \in Sequence
    BY <2>1
  <2> QED BY <2>1, <2>2, SequenceAssumption
<1>2. s > guard.watermark
  BY <1>1 DEF IsReplay
<1> QED BY <1>1, <1>2 DEF Inv, WatermarkCovers

\* A frame that CRC, replay test or authorization turns away keeps the invariant.
LEMMA RefusalInv ==
  ASSUME Inv, NEW f \in inFlight, RejectUnauthorized(f), inFlight' = inFlight \ {f},
         UNCHANGED <<groundVars, sent>>
  PROVE  Inv'
<1> DEFINE s == sent[f.id]
<1>1. s \in Sequence
  BY FrameSequence DEF Inv
<1>2. /\ ~IsReplay(guard, s)
      /\ results' = [results EXCEPT ![s] = "unauthorized"]
      /\ heard' = heard \union {s}
      /\ guard' = guard /\ executed' = executed /\ broken' = broken
  BY DEF RejectUnauthorized
<1>3. \A i \in 1 .. Len(executed) : executed[i] < s
  BY <1>1, <1>2, NoReplayIsLarger
<1>4. \A i \in 1 .. Len(executed) : executed[i] \in Int
  BY <1>1, <1>2, NoReplayIsLarger, SequenceAssumption
<1>5. s \in Int
  BY <1>1, SequenceAssumption
<1> HIDE DEF s
<1>6. results \in [Sequence -> {"none", "unauthorized", "rejected", "executed"}]
  BY DEF Inv, TypeOK
<1>7. results' \in [Sequence -> {"none", "unauthorized", "rejected", "executed"}]
  BY <1>1, <1>2, <1>6
<1>8. TypeOK'
  BY <1>1, <1>2, <1>7 DEF Inv, TypeOK, groundVars, At
<1>9. ResultsTellWhatRan'
  <2>1. SUFFICES ASSUME NEW x \in Sequence
                 PROVE  results'[x] \in {"executed", "rejected"}
                          <=> x \notin broken /\ \E i \in 1 .. Len(executed) : executed[i] = x
    BY <1>2 DEF ResultsTellWhatRan
  <2>2. CASE x = s
    BY <1>2, <1>3, <1>4, <1>5, <1>6, <2>2
  <2>3. CASE x # s
    BY <1>2, <1>6, <2>3 DEF Inv, ResultsTellWhatRan
  <2> QED BY <2>2, <2>3
<1>10. WatermarkCovers' /\ BrokenWasExecuted' /\ ExecutesInOrder'
  BY <1>2 DEF Inv, WatermarkCovers, BrokenWasExecuted, ExecutesInOrder
<1> QED BY <1>8, <1>9, <1>10 DEF Inv

\* An executed command, also one an exception breaks off, keeps the invariant:
\* it is above the watermark.
LEMMA ExecuteInv ==
  ASSUME Inv, NEW f \in inFlight,
         ExecuteRaises(f) \/ \E outcome \in {"executed", "rejected"} : Execute(f, outcome),
         inFlight' = inFlight \ {f}, UNCHANGED <<groundVars, sent>>
  PROVE  Inv'
<1> DEFINE s == sent[f.id]
<1>1. s \in Sequence
  BY FrameSequence DEF Inv
<1>2. /\ ~IsReplay(guard, s)
      /\ guard' = Record(guard, s)
      /\ executed' = Append(executed, s)
      /\ \/ /\ broken' = broken \union {s} /\ results' = results
         \/ /\ broken' = broken
            /\ \E outcome \in {"executed", "rejected"} :
                 results' = [results EXCEPT ![s] = outcome]
      /\ heard' = heard \union {s}
  BY DEF Execute, ExecuteRaises
<1>3. \A i \in 1 .. Len(executed) : executed[i] < s /\ executed[i] \in Int
  BY <1>1, <1>2, NoReplayIsLarger, SequenceAssumption
<1>4. s \in Int
  BY <1>1, SequenceAssumption
<1> HIDE DEF s
<1>5. executed \in Seq(Sequence)
      /\ results \in [Sequence -> {"none", "unauthorized", "rejected", "executed"}]
      /\ guard \in Guard /\ guard.watermark \in Int
      /\ Len(guard.bucket) <= Window
  BY DEF Inv, TypeOK, Guard
<1>6. /\ executed' \in Seq(Sequence)
      /\ Len(executed') = Len(executed) + 1 /\ Len(executed) \in Nat
      /\ executed'[Len(executed) + 1] = s
      /\ \A i \in 1 .. Len(executed) : executed'[i] = executed[i]
  BY <1>1, <1>2, <1>5
<1>7. /\ guard' \in Guard /\ Len(guard'.bucket) <= Window /\ guard'.watermark \in Int
      /\ guard'.watermark >= guard.watermark /\ guard'.watermark >= s
  <2>1. /\ Record(guard, s) \in Guard /\ Len(Record(guard, s).bucket) <= Window
        /\ Record(guard, s).watermark >= guard.watermark
        /\ Record(guard, s).watermark >= s
    BY <1>1, <1>5, RecordType
  <2> QED BY <1>2, <2>1 DEF Guard
<1>8. results' \in [Sequence -> {"none", "unauthorized", "rejected", "executed"}]
  BY <1>2, <1>5
<1>9. TypeOK'
  <2>1. heard' \subseteq Sequence /\ broken' \subseteq Sequence
    BY <1>1, <1>2 DEF Inv, TypeOK
  <2> QED BY <1>6, <1>7, <1>8, <2>1 DEF Inv, TypeOK, groundVars, At
<1>10. WatermarkCovers'
  <2>1. SUFFICES ASSUME NEW i \in 1 .. Len(executed') PROVE executed'[i] <= guard'.watermark
    BY DEF WatermarkCovers
  <2>2. CASE i = Len(executed) + 1
    BY <1>6, <1>7, <2>2
  <2>3. CASE i \in 1 .. Len(executed)
    BY <1>3, <1>4, <1>5, <1>6, <1>7, <2>3 DEF Inv, WatermarkCovers
  <2> QED BY <1>6, <2>2, <2>3
<1>11. ExecutesInOrder'
  <2>1. SUFFICES ASSUME NEW i \in 1 .. Len(executed'), NEW j \in 1 .. Len(executed'), i < j
                 PROVE  executed'[i] < executed'[j]
    BY DEF ExecutesInOrder
  <2>2. i \in 1 .. Len(executed)
    BY <1>6, <2>1
  <2>3. CASE j = Len(executed) + 1
    BY <1>3, <1>6, <2>2, <2>3
  <2>4. CASE j \in 1 .. Len(executed)
    BY <1>6, <2>1, <2>2, <2>4 DEF Inv, ExecutesInOrder
  <2> QED BY <1>6, <2>3, <2>4
<1>12. ResultsTellWhatRan'
  <2>1. SUFFICES ASSUME NEW x \in Sequence
                 PROVE  results'[x] \in {"executed", "rejected"}
                          <=> /\ x \notin broken'
                              /\ \E i \in 1 .. Len(executed') : executed'[i] = x
    BY DEF ResultsTellWhatRan
  <2>2. CASE x = s
    <3>1. ~ \E i \in 1 .. Len(executed) : executed[i] = s
      BY <1>3, <1>4
    <3>2. s \notin broken /\ results[s] \notin {"executed", "rejected"}
      BY <1>1, <3>1 DEF Inv, BrokenWasExecuted, ResultsTellWhatRan
    <3>3. Len(executed) + 1 \in 1 .. Len(executed')
      BY <1>6
    <3>4. CASE broken' = broken \union {s} /\ results' = results
      BY <2>2, <3>2, <3>4
    <3>5. CASE /\ broken' = broken
               /\ \E outcome \in {"executed", "rejected"} :
                    results' = [results EXCEPT ![s] = outcome]
      BY <1>1, <1>5, <1>6, <2>2, <3>2, <3>3, <3>5
    <3> QED BY <1>2, <3>4, <3>5
  <2>3. CASE x # s
    <3>1. results'[x] = results[x] /\ (x \in broken' <=> x \in broken)
      BY <1>2, <1>5, <2>3
    <3>2. (\E i \in 1 .. Len(executed') : executed'[i] = x)
            <=> \E i \in 1 .. Len(executed) : executed[i] = x
      BY <1>6, <2>3
    <3> QED BY <3>1, <3>2 DEF Inv, ResultsTellWhatRan
  <2> QED BY <2>2, <2>3
<1>13. BrokenWasExecuted'
  <2>1. SUFFICES ASSUME NEW x \in broken'
                 PROVE  \E i \in 1 .. Len(executed') : executed'[i] = x
    BY DEF BrokenWasExecuted
  <2>2. CASE x = s
    BY <1>6, <2>2
  <2>3. CASE x # s
    <3>1. PICK i \in 1 .. Len(executed) : executed[i] = x
      BY <1>2, <2>3 DEF Inv, BrokenWasExecuted
    <3>2. i \in 1 .. Len(executed') /\ executed'[i] = x
      BY <1>6, <3>1
    <3> QED BY <3>2
  <2> QED BY <2>2, <2>3
<1> QED BY <1>9, <1>10, <1>11, <1>12, <1>13 DEF Inv

\* A delivery, however it ends, keeps the invariant.
LEMMA DeliverInv ==
  ASSUME Inv, NEW f \in inFlight, Deliver(f)
  PROVE  Inv'
<1>1. inFlight' = inFlight \ {f} /\ UNCHANGED <<groundVars, sent>>
  BY DEF Deliver
<1>2. CASE RejectCorrupt(f)
  BY <1>1, <1>2 DEF RejectCorrupt, boardVars, groundVars, Inv, TypeOK, WatermarkCovers,
                    BrokenWasExecuted, ExecutesInOrder, ResultsTellWhatRan, At
<1>3. CASE RejectReplay(f)
  <2>1. sent[f.id] \in Sequence
    BY FrameSequence DEF Inv
  <2> QED BY <1>1, <1>3, <2>1 DEF RejectReplay, groundVars, Inv, TypeOK, WatermarkCovers,
                                  BrokenWasExecuted, ExecutesInOrder, ResultsTellWhatRan, At
<1>4. CASE RejectUnauthorized(f)
  BY <1>1, <1>4, RefusalInv
<1>5. CASE ExecuteRaises(f) \/ \E outcome \in {"executed", "rejected"} : Execute(f, outcome)
  BY <1>1, <1>5, ExecuteInv
<1> QED BY <1>2, <1>3, <1>4, <1>5 DEF Deliver

-------------------------------------------------------------------------------
(* Theorems *)

\* Station and spacecraft as they are built satisfy the invariant.
LEMMA InitInv == Init => Inv
<1> SUFFICES ASSUME Init PROVE Inv
  OBVIOUS
<1>1. NewGuard \in Guard /\ Len(NewGuard.bucket) <= Window
  BY WindowAssumption DEF NewGuard, Guard
<1>2. TypeOK
  <2>1. /\ thread \in [ApiThreads -> Worker]
        /\ \A t \in ApiThreads : At(t, "idle")
    BY DEF Init, Worker, Place, At
  <2>2. results \in [Sequence -> {"none", "unauthorized", "rejected", "executed"}]
    BY DEF Init
  <2>3. /\ commandSeq \in Int /\ sent \in Seq(Sequence) /\ executed \in Seq(Sequence)
    BY FirstSequenceAssumption DEF Init
  <2>4. /\ inFlight \subseteq [id : 1 .. Len(sent), intact : BOOLEAN]
        /\ broken \subseteq Sequence /\ heard \subseteq Sequence
    <3>1. inFlight = {} /\ broken = {} /\ heard = {}
      BY DEF Init
    <3> QED BY <3>1
  <2>5. alone \in BOOLEAN /\ raised \in BOOLEAN
    BY DEF Init
  <2> QED BY <1>1, <2>1, <2>2, <2>3, <2>4, <2>5 DEF Init, TypeOK
<1>3. WatermarkCovers /\ BrokenWasExecuted /\ ExecutesInOrder /\ ResultsTellWhatRan
  BY DEF Init, WatermarkCovers, BrokenWasExecuted, ExecutesInOrder, ResultsTellWhatRan
<1> QED BY <1>2, <1>3 DEF Inv

\* Every step keeps the invariant.
LEMMA NextInv == Inv /\ [Next]_vars => Inv'
<1> SUFFICES ASSUME Inv, [Next]_vars PROVE Inv'
  OBVIOUS
<1>1. ASSUME NEW t \in ApiThreads, GroundStep(t) PROVE Inv'
  <2>1. TypeOK' /\ UNCHANGED boardVars
    BY <1>1, GroundType DEF Inv
  <2> QED BY <2>1 DEF boardVars, Inv, WatermarkCovers, BrokenWasExecuted, ExecutesInOrder,
                      ResultsTellWhatRan
<1>2. ASSUME NEW f \in inFlight, Deliver(f) PROVE Inv'
  BY <1>2, DeliverInv
<1>3. CASE UNCHANGED vars
  BY <1>3 DEF vars, groundVars, linkVars, boardVars, Inv, TypeOK, WatermarkCovers,
              BrokenWasExecuted, ExecutesInOrder, ResultsTellWhatRan, At
<1> QED BY <1>1, <1>2, <1>3 DEF Next

(***************************************************************************)
(* The inductive invariant of the telecommand path: types, the watermark   *)
(* of the spacecraft's guard above everything executed, what exceptions    *)
(* broke off among it, the order of the executed commands, and the         *)
(* agreement of the results with them.                                     *)
(***************************************************************************)
THEOREM Invariance == Spec => []Inv
<1> QED BY InitInv, NextInv, PTL DEF Spec

(***************************************************************************)
(* The state of station, link and spacecraft is well formed, also while    *)
(* worker threads race on the ground guard.                                *)
(***************************************************************************)
THEOREM TypeCorrectness == Spec => []TypeOK
<1>1. Inv => TypeOK
  BY DEF Inv
<1> QED BY <1>1, Invariance, PTL

(***************************************************************************)
(* handle_command executes sequence numbers in strictly increasing order,  *)
(* so none of them twice, whatever the link and the API threads do.        *)
(***************************************************************************)
THEOREM ExecutionOrder == Spec => []ExecutesInOrder
<1>1. Inv => ExecutesInOrder
  BY DEF Inv
<1> QED BY <1>1, Invariance, PTL

(***************************************************************************)
(* command_results says of exactly the commands that were executed, and    *)
(* that no exception broke off, that they were: no refusal overwrites such *)
(* an entry, and no copy of a command that was broken off brings one.      *)
(***************************************************************************)
THEOREM ResultsAgree == Spec => []ResultsTellWhatRan
<1>1. Inv => ResultsTellWhatRan
  BY DEF Inv
<1> QED BY <1>1, Invariance, PTL

(***************************************************************************)
(* An entry of command_results that says a command ran, or tried to, is    *)
(* never overwritten.                                                      *)
(***************************************************************************)
THEOREM ResultsAreFinal == Spec => FinalResultsStay
<1> DEFINE Final ==
      \A s \in Sequence : results[s] \in {"executed", "rejected"} => results'[s] = results[s]
<1>1. ASSUME Inv, Next PROVE Final
  <2>1. ASSUME NEW t \in ApiThreads, GroundStep(t) PROVE Final
    BY <1>1, <2>1, GroundType DEF Inv, boardVars
  <2>2. ASSUME NEW f \in inFlight, Deliver(f) PROVE Final
    <3> DEFINE s == sent[f.id]
    <3>1. s \in Sequence /\ results \in [Sequence -> {"none", "unauthorized", "rejected", "executed"}]
      BY <1>1, FrameSequence DEF Inv, TypeOK
    <3>2. CASE IsReplay(guard, s) \/ ~f.intact
      BY <2>2, <3>2 DEF Deliver, RejectCorrupt, RejectReplay, RejectUnauthorized, Execute,
                        ExecuteRaises, boardVars
    <3>3. CASE ~IsReplay(guard, s) /\ f.intact
      <4>1. results[s] \notin {"executed", "rejected"}
        <5>1. \A i \in 1 .. Len(executed) : executed[i] \in Int /\ executed[i] < s
          BY <1>1, <3>1, <3>3, NoReplayIsLarger, SequenceAssumption
        <5>2. s \in Int
          BY <3>1, SequenceAssumption
        <5>3. ~ \E i \in 1 .. Len(executed) : executed[i] = s
          BY <5>1, <5>2
        <5> QED BY <1>1, <3>1, <5>3 DEF Inv, ResultsTellWhatRan
      <4>2. \A x \in Sequence : x # s => results'[x] = results[x]
        BY <2>2, <3>1, <3>3 DEF Deliver, RejectCorrupt, RejectReplay, RejectUnauthorized, Execute,
                                ExecuteRaises, boardVars
      <4> QED BY <4>1, <4>2
    <3> QED BY <3>2, <3>3
  <2> QED BY <1>1, <2>1, <2>2 DEF Next
<1>2. Inv /\ [Next]_vars => [Final]_vars
  BY <1>1
<1> QED BY <1>2, Invariance, PTL DEF Spec, FinalResultsStay

(***************************************************************************)
(* The telecommand path implements CommandExecution: transmitting a frame  *)
(* issues its sequence number, a delivery that passes the gate executes    *)
(* one, in increasing order, and every other step changes neither.         *)
(***************************************************************************)
THEOREM Refinement == Spec => KeepsPromise
<1>1. Init => Abstract!Init
  BY DEF Init, Abstract!Init, Issued
<1>2. Inv /\ [Next]_vars => [Abstract!Next]_(Abstract!vars)
  <2> SUFFICES ASSUME Inv, [Next]_vars PROVE [Abstract!Next]_(Abstract!vars)
    OBVIOUS
  <2>1. ASSUME NEW t \in ApiThreads, GroundStep(t) PROVE [Abstract!Next]_(Abstract!vars)
    <3>1. executed' = executed
      BY <2>1, GroundType DEF Inv, boardVars
    <3>2. CASE Transmit(t)
      <4> DEFINE s == thread[t].seq
      <4>1. s \in Sequence /\ sent \in Seq(Sequence) /\ sent' = Append(sent, s)
        BY <3>2 DEF Inv, TypeOK, Transmit, At
      <4> HIDE DEF s
      <4>2. Issued' = Issued \union {s}
        BY <4>1, IssuedGrows
      <4>3. Abstract!Issue(s)
        BY <3>1, <4>2 DEF Abstract!Issue
      <4> QED BY <4>1, <4>3 DEF Abstract!Next
    <3>3. CASE ~Transmit(t)
      <4>1. sent' = sent
        BY <2>1, <3>3 DEF GroundStep, SendCommand, CheckReplay, RememberSequence, ReadWatermark,
                          WriteWatermark, ReadCommandSeq, WriteCommandSeq, linkVars
      <4> QED BY <3>1, <4>1 DEF Issued, Abstract!vars
    <3> QED BY <3>2, <3>3
  <2>2. ASSUME NEW f \in inFlight, Deliver(f) PROVE [Abstract!Next]_(Abstract!vars)
    <3> DEFINE s == sent[f.id]
    <3>1. sent' = sent /\ Issued' = Issued
      BY <2>2 DEF Deliver, Issued
    <3>2. s \in Sequence /\ s \in Issued
      BY FrameSequence DEF Inv
    <3>3. CASE executed' = executed
      BY <3>1, <3>3 DEF Abstract!vars
    <3>4. CASE executed' # executed
      <4>1. ~IsReplay(guard, s) /\ executed' = Append(executed, s)
        BY <2>2, <3>4 DEF Deliver, RejectCorrupt, RejectReplay, RejectUnauthorized, Execute,
                          ExecuteRaises, boardVars
      <4>2. \A i \in 1 .. Len(executed) : executed[i] < s
        BY <3>2, <4>1, NoReplayIsLarger
      <4>3. Abstract!Execute(s)
        BY <3>1, <3>2, <4>1, <4>2 DEF Abstract!Execute
      <4> QED BY <3>2, <4>3 DEF Abstract!Next
    <3> QED BY <3>3, <3>4
  <2>3. CASE UNCHANGED vars
    BY <2>3 DEF vars, linkVars, boardVars, Issued, Abstract!vars
  <2> QED BY <2>1, <2>2, <2>3 DEF Next
<1> QED BY <1>1, <1>2, Invariance, PTL DEF Spec, KeepsPromise, Abstract!Spec

-------------------------------------------------------------------------------
(* Requests that do not overlap *)

\* The numbers a request under way has put into the ground guard, or will.
Noting(t) ==
  IF At(t, "remembered") \/ At(t, "maximum") \/ At(t, "recorded") THEN {thread[t].seq} ELSE {}

\* The numbers the ground guard may know besides 0, the watermark at start
Noted == {0} \union Issued \union UNION {Noting(t) : t \in ApiThreads}

\* While no two requests have overlapped, the guard knows what was sent, and
\* what the one request under way is about to send; the station's next number
\* counts the frames sent, but for a frame whose request has still to count it,
\* as long as no transmit has raised.
OneAtATime ==
  alone =>
    /\ \A t, u \in ApiThreads : ~At(t, "idle") /\ ~At(u, "idle") => t = u
    /\ \A i \in 1 .. Len(groundGuard.bucket) : groundGuard.bucket[i] \in Noted
    /\ groundGuard.watermark \in Noted
    /\ \A t \in ApiThreads :
         /\ At(t, "maximum") => thread[t].read \in Noted
         /\ At(t, "counted") => thread[t].read = commandSeq
    /\ ~raised =>
         commandSeq = FirstSequence + Len(sent)
           - (IF \E t \in ApiThreads : At(t, "transmitted") \/ At(t, "counted") THEN 1 ELSE 0)

\* And its watermark is at least every number sent.
AboveIssued ==
  alone =>
    /\ \A x \in Issued : x <= groundGuard.watermark
    /\ \A t \in ApiThreads :
         /\ At(t, "maximum") => /\ groundGuard.watermark <= thread[t].read
                                /\ thread[t].seq <= thread[t].read
         /\ At(t, "recorded") => thread[t].seq <= groundGuard.watermark

(***************************************************************************)
(* What deque.append leaves in a bucket was there before, or is new.       *)
(***************************************************************************)
LEMMA RememberKnows ==
  ASSUME NEW b \in Seq(Sequence), NEW s \in Sequence,
         NEW i \in 1 .. Len(Remember(b, s))
  PROVE  Remember(b, s)[i] = s \/ \E j \in 1 .. Len(b) : Remember(b, s)[i] = b[j]
<1>1. CASE Len(b) < Window
  BY <1>1 DEF Remember
<1>2. CASE ~(Len(b) < Window)
  <2>1. b # << >> /\ Len(b) \in Nat
    BY <1>2, WindowAssumption
  <2>2. PICK c \in Seq(Sequence) : c = Tail(b)
    <3>1. Tail(b) \in Seq(Sequence)
      BY <2>1
    <3> QED BY <3>1
  <2>3. Len(c) = Len(b) - 1 /\ \A j \in 1 .. Len(c) : c[j] = b[j + 1]
    BY <2>1, <2>2
  <2>4. Remember(b, s) = Append(c, s)
    BY <1>2, <2>2 DEF Remember
  <2>5. CASE i \in 1 .. Len(c)
    <3>1. Remember(b, s)[i] = b[i + 1] /\ i + 1 \in 1 .. Len(b)
      BY <2>1, <2>3, <2>4, <2>5
    <3> QED BY <3>1
  <2>6. CASE i = Len(c) + 1
    BY <2>2, <2>4, <2>6
  <2>7. i \in 1 .. Len(c) \/ i = Len(c) + 1
    BY <2>2, <2>4
  <2> QED BY <2>5, <2>6, <2>7
<1> QED BY <1>1, <1>2

(***************************************************************************)
(* A step of a request that overlaps no other keeps OneAtATime.            *)
(***************************************************************************)
LEMMA GroundKeepsOneAtATime ==
  ASSUME TypeOK, TypeOK', OneAtATime, NEW t \in ApiThreads, GroundStep(t)
  PROVE  OneAtATime'
<1> SUFFICES ASSUME alone' PROVE OneAtATime'
  BY DEF OneAtATime
<1> DEFINE place == thread[t].pc
           s == thread[t].seq
<1>1. /\ alone
      /\ \A u \in ApiThreads : u # t => At(u, "idle")
  <2>1. CASE SendCommand(t)
    BY <2>1 DEF SendCommand, TypeOK
  <2>2. CASE ~SendCommand(t)
    <3>1. ~At(t, "idle") /\ alone' = alone
      BY <2>2 DEF GroundStep, CheckReplay, RememberSequence, ReadWatermark, WriteWatermark,
                  Transmit, ReadCommandSeq, WriteCommandSeq, At
    <3> QED BY <3>1 DEF OneAtATime
  <2> QED BY <2>1, <2>2
<1>2. \A u \in ApiThreads : u # t => thread'[u] = thread[u]
  BY DEF GroundStep, SendCommand, CheckReplay, RememberSequence, ReadWatermark, WriteWatermark,
         Transmit, ReadCommandSeq, WriteCommandSeq, Goto, TypeOK
<1>3. \A u \in ApiThreads : u # t => At(u, "idle")' /\ Noting(u) = {} /\ Noting(u)' = {}
  BY <1>1, <1>2 DEF At, Noting
<1>4. /\ Noted = {0} \union Issued \union Noting(t)
      /\ Noted' = {0} \union Issued' \union Noting(t)'
  BY <1>3 DEF Noted
<1>5. /\ thread[t] \in Worker /\ thread'[t] \in Worker
      /\ commandSeq \in Int /\ sent \in Seq(Sequence) /\ Len(sent) \in Nat
      /\ groundGuard.bucket \in Seq(Sequence)
      /\ groundGuard = [bucket |-> groundGuard.bucket, watermark |-> groundGuard.watermark]
      /\ thread \in [ApiThreads -> Worker] /\ FirstSequence \in Int
  BY FirstSequenceAssumption DEF TypeOK, Guard
<1>6. (\E u \in ApiThreads : At(u, "transmitted") \/ At(u, "counted"))
        <=> place \in {"transmitted", "counted"}
  BY <1>1 DEF At
<1>7. (\E u \in ApiThreads : At(u, "transmitted") \/ At(u, "counted"))'
        <=> thread'[t].pc \in {"transmitted", "counted"}
  BY <1>3 DEF At
<1>8. /\ \A i \in 1 .. Len(groundGuard.bucket) : groundGuard.bucket[i] \in Noted
      /\ groundGuard.watermark \in Noted
      /\ place = "maximum" => thread[t].read \in Noted
      /\ place = "counted" => thread[t].read = commandSeq
      /\ ~raised => commandSeq = FirstSequence + Len(sent)
           - (IF place \in {"transmitted", "counted"} THEN 1 ELSE 0)
      /\ raised => raised'
  <2>1. raised => raised'
    BY DEF GroundStep, SendCommand, CheckReplay, RememberSequence, ReadWatermark, WriteWatermark,
           Transmit, ReadCommandSeq, WriteCommandSeq
  <2> QED BY <1>1, <1>6, <2>1 DEF OneAtATime, At
<1>9. SUFFICES /\ \A i \in 1 .. Len(groundGuard'.bucket) : groundGuard'.bucket[i] \in Noted'
               /\ groundGuard'.watermark \in Noted'
               /\ thread'[t].pc = "maximum" => thread'[t].read \in Noted'
               /\ thread'[t].pc = "counted" => thread'[t].read = commandSeq'
               /\ ~raised' => commandSeq' = FirstSequence + Len(sent')
                    - (IF thread'[t].pc \in {"transmitted", "counted"} THEN 1 ELSE 0)
  BY <1>3, <1>7 DEF OneAtATime, At
<1> USE DEF Worker
<1>10. CASE SendCommand(t)
  <2>1. /\ place = "idle" /\ thread'[t].pc = "chosen"
        /\ UNCHANGED <<commandSeq, groundGuard, sent>>
    BY <1>5, <1>10 DEF SendCommand, At, linkVars
  <2>2. Issued' = Issued /\ Noting(t) = {} /\ Noting(t)' = {}
    BY <2>1 DEF Issued, Noting, At
  <2> QED BY <1>4, <1>5, <1>8, <2>1, <2>2
<1>11. CASE CheckReplay(t)
  <2>1. /\ place = "chosen" /\ thread'[t].pc \in {"idle", "checked"}
        /\ UNCHANGED <<commandSeq, groundGuard, sent>>
    BY <1>5, <1>11 DEF CheckReplay, At, Goto, linkVars
  <2>2. Issued' = Issued /\ Noting(t) = {} /\ Noting(t)' = {}
    BY <2>1 DEF Issued, Noting, At
  <2> QED BY <1>4, <1>5, <1>8, <2>1, <2>2
<1>12. CASE RememberSequence(t)
  <2>1. /\ place = "checked" /\ thread'[t].pc = "remembered" /\ thread'[t].seq = s
        /\ UNCHANGED <<commandSeq, sent>>
        /\ groundGuard'.bucket = Remember(groundGuard.bucket, s)
        /\ groundGuard'.watermark = groundGuard.watermark
    BY <1>5, <1>12 DEF RememberSequence, At, Goto, linkVars
  <2>2. Issued' = Issued /\ Noting(t) = {} /\ Noting(t)' = {s}
    BY <2>1 DEF Issued, Noting, At
  <2>3. s \in Sequence
    BY <2>1 DEF TypeOK, At
  <2>4. \A i \in 1 .. Len(groundGuard'.bucket) : groundGuard'.bucket[i] \in Noted'
    <3>1. Noted \subseteq Noted' /\ s \in Noted'
      BY <1>4, <2>2
    <3>2. \A i \in 1 .. Len(groundGuard'.bucket) :
            groundGuard'.bucket[i] = s
              \/ \E j \in 1 .. Len(groundGuard.bucket) :
                   groundGuard'.bucket[i] = groundGuard.bucket[j]
      BY <1>5, <2>1, <2>3, RememberKnows
    <3>3. \A j \in 1 .. Len(groundGuard.bucket) : groundGuard.bucket[j] \in Noted
      BY <1>8
    <3> QED BY <3>1, <3>2, <3>3
  <2> QED BY <1>4, <1>5, <1>8, <2>1, <2>2, <2>4
<1>13. CASE ReadWatermark(t)
  <2>1. /\ place = "remembered" /\ thread'[t].pc = "maximum" /\ thread'[t].seq = s
        /\ thread'[t].read = Larger(groundGuard.watermark, s)
        /\ UNCHANGED <<commandSeq, groundGuard, sent>>
    BY <1>5, <1>13 DEF ReadWatermark, At, linkVars
  <2>2. Issued' = Issued /\ Noting(t) = {s} /\ Noting(t)' = {s}
    BY <2>1 DEF Issued, Noting, At
  <2>3. thread'[t].read \in Noted'
    BY <1>4, <1>8, <2>1, <2>2 DEF Larger
  <2> QED BY <1>4, <1>5, <1>8, <2>1, <2>2, <2>3
<1>14. CASE WriteWatermark(t)
  <2>1. /\ place = "maximum" /\ thread'[t].pc = "recorded" /\ thread'[t].seq = s
        /\ UNCHANGED <<commandSeq, sent>>
        /\ groundGuard'.bucket = groundGuard.bucket
        /\ groundGuard'.watermark = thread[t].read
    BY <1>5, <1>14 DEF WriteWatermark, At, Goto, linkVars
  <2>2. Issued' = Issued /\ Noting(t) = {s} /\ Noting(t)' = {s}
    BY <2>1 DEF Issued, Noting, At
  <2> QED BY <1>4, <1>5, <1>8, <2>1, <2>2
<1>15. CASE Transmit(t)
  <2>1. /\ place = "recorded" /\ thread'[t].seq = s
        /\ thread'[t].pc = "transmitted" \/ (thread'[t].pc = "idle" /\ raised')
        /\ UNCHANGED <<commandSeq, groundGuard>>
        /\ sent' = Append(sent, s)
    BY <1>5, <1>15 DEF Transmit, At, Goto
  <2>2. Len(sent') = Len(sent) + 1
    BY <1>5, <2>1
  <2>3. Issued' = Issued \union {s}
    <3>1. s \in Sequence
      BY <2>1 DEF TypeOK, At
    <3> QED BY <1>5, <2>1, <3>1, IssuedGrows
  <2>4. Noting(t) = {s} /\ Noting(t)' = {}
    BY <2>1 DEF Noting, At
  <2>5. Noted' = Noted
    BY <1>4, <2>3, <2>4
  <2> QED BY <1>5, <1>8, <2>1, <2>2, <2>5
<1>16. CASE ReadCommandSeq(t)
  <2>1. /\ place = "transmitted" /\ thread'[t].pc = "counted" /\ thread'[t].read = commandSeq
        /\ UNCHANGED <<commandSeq, groundGuard, sent>>
    BY <1>5, <1>16 DEF ReadCommandSeq, At, linkVars
  <2>2. Issued' = Issued /\ Noting(t) = {} /\ Noting(t)' = {}
    BY <2>1 DEF Issued, Noting, At
  <2> QED BY <1>4, <1>5, <1>8, <2>1, <2>2
<1>17. CASE WriteCommandSeq(t)
  <2>1. /\ place = "counted" /\ thread'[t].pc = "idle" /\ commandSeq' = thread[t].read + 1
        /\ UNCHANGED <<groundGuard, sent>>
    BY <1>5, <1>17 DEF WriteCommandSeq, At, Goto, linkVars
  <2>2. Issued' = Issued /\ Noting(t) = {} /\ Noting(t)' = {}
    BY <2>1 DEF Issued, Noting, At
  <2> QED BY <1>4, <1>5, <1>8, <2>1, <2>2
<1> QED BY <1>10, <1>11, <1>12, <1>13, <1>14, <1>15, <1>16, <1>17 DEF GroundStep

\* Station and spacecraft as they are built, and steps that are not the ground's.
LEMMA OneAtATimeElse ==
  /\ Init => OneAtATime
  /\ OneAtATime /\ UNCHANGED <<groundVars, sent>> => OneAtATime'
<1>1. ASSUME Init PROVE OneAtATime
  BY <1>1, FirstSequenceAssumption DEF Init, OneAtATime, NewGuard, Noted, At
<1>2. ASSUME OneAtATime, UNCHANGED <<groundVars, sent>> PROVE OneAtATime'
  BY <1>2 DEF groundVars, OneAtATime, Noted, Noting, Issued, At
<1> QED BY <1>1, <1>2

(***************************************************************************)
(* A step of the ground keeps the watermark above what was sent.           *)
(***************************************************************************)
LEMMA GroundKeepsAboveIssued ==
  ASSUME TypeOK, OneAtATime, AboveIssued, NEW t \in ApiThreads, GroundStep(t)
  PROVE  AboveIssued'
<1> SUFFICES ASSUME alone' PROVE AboveIssued'
  BY DEF AboveIssued
<1> DEFINE place == thread[t].pc
           s == thread[t].seq
<1>1. /\ alone
      /\ \A u \in ApiThreads : u # t => At(u, "idle")
  <2>1. CASE SendCommand(t)
    BY <2>1 DEF SendCommand, TypeOK
  <2>2. CASE ~SendCommand(t)
    <3>1. ~At(t, "idle") /\ alone' = alone
      BY <2>2 DEF GroundStep, CheckReplay, RememberSequence, ReadWatermark, WriteWatermark,
                  Transmit, ReadCommandSeq, WriteCommandSeq, At
    <3> QED BY <3>1 DEF OneAtATime
  <2> QED BY <2>1, <2>2
<1>2. \A u \in ApiThreads : u # t => thread'[u] = thread[u]
  BY DEF GroundStep, SendCommand, CheckReplay, RememberSequence, ReadWatermark, WriteWatermark,
         Transmit, ReadCommandSeq, WriteCommandSeq, Goto, TypeOK
<1>3. /\ thread \in [ApiThreads -> Worker] /\ thread[t] \in Worker
      /\ s \in Int /\ thread[t].read \in Int
      /\ groundGuard = [bucket |-> groundGuard.bucket, watermark |-> groundGuard.watermark]
      /\ groundGuard.watermark \in Int
      /\ sent \in Seq(Sequence)
      /\ \A x \in Issued : x \in Int
  <2>1. \A x \in Issued : x \in Sequence
    BY DEF TypeOK, Issued
  <2> QED BY <2>1, SequenceAssumption DEF TypeOK, Guard, Worker
<1>4. SUFFICES /\ \A x \in Issued' : x <= groundGuard'.watermark
               /\ thread'[t].pc = "maximum" => /\ groundGuard'.watermark <= thread'[t].read
                                               /\ thread'[t].seq <= thread'[t].read
               /\ thread'[t].pc = "recorded" => thread'[t].seq <= groundGuard'.watermark
  BY <1>1, <1>2 DEF AboveIssued, At
<1>5. /\ \A x \in Issued : x <= groundGuard.watermark
      /\ place = "maximum" => groundGuard.watermark <= thread[t].read /\ s <= thread[t].read
      /\ place = "recorded" => s <= groundGuard.watermark
  BY <1>1 DEF AboveIssued, At
<1> USE DEF Worker
<1>6. CASE SendCommand(t) \/ CheckReplay(t) \/ ReadCommandSeq(t) \/ WriteCommandSeq(t)
  <2>1. /\ thread'[t].pc \notin {"maximum", "recorded"}
        /\ UNCHANGED <<groundGuard, sent>>
    <3>1. CASE SendCommand(t)
      BY <1>3, <3>1 DEF SendCommand, linkVars
    <3>2. CASE CheckReplay(t)
      BY <1>3, <3>2 DEF CheckReplay, Goto, linkVars
    <3>3. CASE ReadCommandSeq(t)
      BY <1>3, <3>3 DEF ReadCommandSeq, linkVars
    <3>4. CASE WriteCommandSeq(t)
      BY <1>3, <3>4 DEF WriteCommandSeq, Goto, linkVars
    <3> QED BY <1>6, <3>1, <3>2, <3>3, <3>4
  <2> QED BY <1>5, <2>1 DEF Issued
<1>7. CASE RememberSequence(t)
  <2>1. /\ thread'[t].pc = "remembered" /\ UNCHANGED sent
        /\ groundGuard'.watermark = groundGuard.watermark
    BY <1>3, <1>7 DEF RememberSequence, Goto, linkVars
  <2> QED BY <1>5, <2>1 DEF Issued
<1>8. CASE ReadWatermark(t)
  <2>1. /\ thread'[t].pc = "maximum" /\ thread'[t].seq = s
        /\ thread'[t].read = Larger(groundGuard.watermark, s)
        /\ UNCHANGED <<groundGuard, sent>>
    BY <1>3, <1>8 DEF ReadWatermark, linkVars
  <2> QED BY <1>3, <1>5, <2>1 DEF Issued, Larger
<1>9. CASE WriteWatermark(t)
  <2>1. /\ place = "maximum" /\ thread'[t].pc = "recorded" /\ thread'[t].seq = s
        /\ groundGuard'.watermark = thread[t].read
        /\ UNCHANGED sent
    BY <1>3, <1>9 DEF WriteWatermark, At, Goto, linkVars
  <2>2. Issued' = Issued
    BY <2>1 DEF Issued
  <2>3. \A x \in Issued : x <= thread[t].read
    BY <1>3, <1>5, <2>1
  <2> QED BY <1>5, <2>1, <2>2, <2>3
<1>10. CASE Transmit(t)
  <2>1. /\ place = "recorded" /\ thread'[t].pc \in {"transmitted", "idle"}
        /\ UNCHANGED groundGuard
        /\ sent' = Append(sent, s)
    BY <1>3, <1>10 DEF Transmit, At, Goto
  <2>2. s \in Sequence
    BY <2>1 DEF TypeOK, At
  <2>3. Issued' = Issued \union {s}
    BY <1>3, <2>1, <2>2, IssuedGrows
  <2> QED BY <1>5, <2>1, <2>3
<1> QED BY <1>6, <1>7, <1>8, <1>9, <1>10 DEF GroundStep

\* Station and spacecraft as they are built, and steps that are not the ground's.
LEMMA AboveIssuedElse ==
  /\ Init => AboveIssued
  /\ AboveIssued /\ UNCHANGED <<groundVars, sent>> => AboveIssued'
<1>1. ASSUME Init PROVE AboveIssued
  BY <1>1 DEF Init, AboveIssued, Issued, At
<1>2. ASSUME AboveIssued, UNCHANGED <<groundVars, sent>> PROVE AboveIssued'
  BY <1>2 DEF groundVars, AboveIssued, Issued, At
<1> QED BY <1>1, <1>2

\* What one test of the ground guard may answer.
GuardAnswers(t) ==
  /\ thread'[t].pc = "idle" => \E s \in Issued \union {0} : thread[t].seq <= s
  /\ thread'[t].pc = "checked" => \A s \in Issued : s < thread[t].seq
  /\ (thread'[t].pc = "idle" /\ thread[t].seq = commandSeq) =>
       \/ raised
       \/ Issued # FirstSequence .. FirstSequence + Len(sent) - 1

(***************************************************************************)
(* While no two requests overlap, the test of the guard answers as the     *)
(* numbers sent demand.                                                    *)
(***************************************************************************)
LEMMA CheckAnswers ==
  ASSUME TypeOK, OneAtATime, AboveIssued, alone, NEW t \in ApiThreads, CheckReplay(t)
  PROVE  GuardAnswers(t)
<1>1. /\ thread \in [ApiThreads -> Worker] /\ thread[t].pc = "chosen"
      /\ thread[t].seq \in Int
      /\ thread'[t].pc = IF IsReplay(groundGuard, thread[t].seq) THEN "idle" ELSE "checked"
  BY DEF TypeOK, At, CheckReplay, Goto, Worker
<1>2. \A u \in ApiThreads : u # t => At(u, "idle")
  BY <1>1 DEF OneAtATime, At
<1>3. Noted = {0} \union Issued
  BY <1>1, <1>2 DEF Noted, Noting, At
<1>4. /\ groundGuard.watermark \in Noted
      /\ \A i \in 1 .. Len(groundGuard.bucket) : groundGuard.bucket[i] \in Noted
      /\ \A x \in Issued : x <= groundGuard.watermark
      /\ groundGuard.watermark \in Int
  BY DEF OneAtATime, AboveIssued, TypeOK, Guard
<1>5. \A x \in Issued : x \in Int
  <2>1. \A x \in Issued : x \in Sequence
    BY DEF TypeOK, Issued
  <2> QED BY <2>1, SequenceAssumption
<1>6. CASE IsReplay(groundGuard, thread[t].seq)
  <2>1. PICK s \in Issued \union {0} : thread[t].seq <= s
    <3>1. CASE thread[t].seq <= groundGuard.watermark
      BY <1>3, <1>4, <3>1
    <3>2. CASE InBucket(groundGuard, thread[t].seq)
      BY <1>1, <1>3, <1>4, <3>2 DEF InBucket
    <3> QED BY <1>6, <3>1, <3>2 DEF IsReplay
  <2>2. ASSUME thread[t].seq = commandSeq, ~raised,
               Issued = FirstSequence .. FirstSequence + Len(sent) - 1
        PROVE  FALSE
    <3>1. ~ \E u \in ApiThreads : At(u, "transmitted") \/ At(u, "counted")
      BY <1>1, <1>2 DEF At
    <3>2. commandSeq = FirstSequence + Len(sent) /\ Len(sent) \in Nat
      BY <2>2, <3>1, FirstSequenceAssumption DEF OneAtATime, TypeOK
    <3>3. \A x \in Issued \union {0} : x \in Int /\ x < commandSeq
      BY <2>2, <3>2, FirstSequenceAssumption
    <3> QED BY <2>1, <2>2, <3>2, <3>3, FirstSequenceAssumption
  <2> QED BY <1>1, <1>6, <2>1, <2>2 DEF GuardAnswers
<1>7. CASE ~IsReplay(groundGuard, thread[t].seq)
  <2>1. thread[t].seq > groundGuard.watermark
    BY <1>1, <1>4, <1>7 DEF IsReplay
  <2>2. \A x \in Issued : x < thread[t].seq
    BY <1>1, <1>4, <1>5, <2>1
  <2> QED BY <1>1, <1>7, <2>2 DEF GuardAnswers
<1> QED BY <1>6, <1>7

(***************************************************************************)
(* As long as no two requests overlap, the guard of the station refuses a  *)
(* number exactly if it, or a larger one, was given to the link; its own   *)
(* next number only after an operator's number or a transmit that raised.  *)
(***************************************************************************)
THEOREM GroundGuardAnswers == Spec => GroundGuardIsExact
<1> DEFINE Answers == alone => \A t \in ApiThreads : At(t, "chosen") => GuardAnswers(t)
<1>1. Init => OneAtATime /\ AboveIssued
  BY OneAtATimeElse, AboveIssuedElse
<1>2. Inv /\ OneAtATime /\ AboveIssued /\ Inv' /\ [Next]_vars => OneAtATime' /\ AboveIssued'
  <2>1. ASSUME Inv, OneAtATime, AboveIssued, Inv', NEW t \in ApiThreads, GroundStep(t)
        PROVE  OneAtATime' /\ AboveIssued'
    BY <2>1, GroundKeepsOneAtATime, GroundKeepsAboveIssued DEF Inv
  <2>2. ASSUME OneAtATime, AboveIssued, NEW f \in inFlight, Deliver(f)
        PROVE  OneAtATime' /\ AboveIssued'
    BY <2>2, OneAtATimeElse, AboveIssuedElse DEF Deliver
  <2>3. ASSUME OneAtATime, AboveIssued, UNCHANGED vars PROVE OneAtATime' /\ AboveIssued'
    BY <2>3, OneAtATimeElse, AboveIssuedElse DEF vars, linkVars
  <2> QED BY <2>1, <2>2, <2>3 DEF Next
<1>3. ASSUME Inv, OneAtATime, AboveIssued, Next PROVE Answers
  <2>1. SUFFICES ASSUME alone, NEW t \in ApiThreads, At(t, "chosen") PROVE GuardAnswers(t)
    OBVIOUS
  <2>2. thread \in [ApiThreads -> Worker] /\ thread[t].pc = "chosen"
    BY <1>3, <2>1 DEF Inv, TypeOK, At
  <2>3. ASSUME GroundStep(t) PROVE GuardAnswers(t)
    <3>1. CheckReplay(t)
      BY <2>2, <2>3 DEF GroundStep, SendCommand, RememberSequence, ReadWatermark, WriteWatermark,
                        Transmit, ReadCommandSeq, WriteCommandSeq, At
    <3> QED BY <1>3, <2>1, <3>1, CheckAnswers DEF Inv
  <2>4. ASSUME NEW u \in ApiThreads, u # t, GroundStep(u) PROVE thread'[t] = thread[t]
    BY <2>2, <2>4 DEF GroundStep, SendCommand, CheckReplay, RememberSequence, ReadWatermark,
                      WriteWatermark, Transmit, ReadCommandSeq, WriteCommandSeq, Goto
  <2>5. ASSUME NEW f \in inFlight, Deliver(f) PROVE thread' = thread
    BY <2>5 DEF Deliver, groundVars
  <2>6. CASE thread'[t] = thread[t]
    BY <2>2, <2>6 DEF GuardAnswers
  <2> QED BY <1>3, <2>3, <2>4, <2>5, <2>6 DEF Next
<1>4. Inv /\ OneAtATime /\ AboveIssued /\ [Next]_vars => [Answers]_vars
  BY <1>3
<1> QED BY <1>1, <1>2, <1>4, Invariance, PTL DEF Spec, GroundGuardIsExact, GuardAnswers
===============================================================================
