--------------------------- MODULE ChatChannelProofs ---------------------------
(***************************************************************************)
(* Theorems about the message tester, for any number of worker threads,    *)
(* calls of send and chunks.  What a chunk shows as received was sent,     *)
(* however the calls race for message ids, although send and receive share *)
(* the chunks; and the report of a message whose id no other call has      *)
(* taken is exact while noise spares the headers.                          *)
(***************************************************************************)
EXTENDS ChatChannel, FiniteSetTheorems, TLAPS

-------------------------------------------------------------------------------
(* The invariant *)

Busy(t) == worker[t].pc # "idle"

\* The calls that were made.
Called == 1 .. calls

\* A thread in send works for a call of its own that has chunks left, and transmits
\* when the call's id is in the table.
Senders ==
  \A t \in ApiThreads : Busy(t) =>
    /\ worker[t].call \in Called
    /\ worker[t].id = idOf[worker[t].call]
    /\ worker[t].count \in ChunkCounts
    /\ Len(chunks[worker[t].call]) = worker[t].count
    /\ worker[t].next < worker[t].count
    /\ At(t, "sending") => messages[worker[t].id] # NoMessage
    /\ \A u \in ApiThreads : (Busy(u) /\ worker[u].call = worker[t].call) => u = t

\* The threads that have not written the counter yet.
Unwritten == {t \in ApiThreads : worker[t].pc \in {"named", "counted"}}

\* Lost updates leave the counter behind the calls, and never ahead of them.
CounterIsBehind ==
  /\ IsFiniteSet(Unwritten)
  /\ nextId + Cardinality(Unwritten) <= calls + 1
  /\ \A t \in ApiThreads : At(t, "counted") =>
       worker[t].read + Cardinality(Unwritten) <= calls + 1

\* The calls that were made have ids, and no others.
Named == \A c \in Call : IF c \in Called THEN idOf[c] \in Id ELSE idOf[c] = 0

\* A message that was not built has no chunks.
Built == \A c \in Call : c \notin Called => chunks[c] = << >>

\* The id of an object's message
IdAt(o) == IF o \in Call THEN idOf[o] ELSE -o

\* The table names for an id an object with this id.
Table == \A m \in Id : messages[m] # NoMessage => IdAt(messages[m]) = m

\* An intact frame says where the piece it was built for belongs.
IntactTell ==
  \A f \in inFlight \union unknown : f.kind = "intact" =>
    f.of[1] \in Called /\ f.id = idOf[f.of[1]] /\ f.index = f.of[2]

\* A chunk was delivered by an intact frame for its id and index.
Deliveries ==
  \A o \in Object : \A i \in 1 .. Len(chunks[o]) : chunks[o][i].status = "DELIVERED" =>
    \E c \in Call : idOf[c] = IdAt(o) /\ <<c, i - 1>> \in arrived

\* Calls that follow one another get the ids 1, 2, 3 ...
Sequential ==
  /\ \A t, u \in ApiThreads : Busy(t) /\ Busy(u) => t = u
  /\ \A c \in 1 .. calls : idOf[c] = c
  /\ (\A t \in ApiThreads : ~Busy(t)) => nextId = calls + 1
  /\ \A t \in ApiThreads : Busy(t) =>
       /\ worker[t].call = calls
       /\ nextId = IF worker[t].pc \in {"named", "counted"} THEN calls ELSE calls + 1
       /\ At(t, "counted") => worker[t].read = calls

\* The pieces whose frames have arrived, and those that are out.
Over == arrived \union damaged
Out == Over \union {f.of : f \in inFlight}

\* While noise spares the headers, every frame finds a message send has built ...
Known == unknown = {} /\ \A m \in Id : messages[m] \in Called \union {NoMessage}

\* ... it is the only one for its piece, and says which it is; and it holds this
\* piece if no other call has taken the id ...
FramesTell ==
  \A f \in inFlight :
    /\ f.id = idOf[f.of[1]] /\ f.index = f.of[2] /\ f.of \notin Over
    /\ (HasOwnId(f.of[1]) /\ f.kind = "intact") => f.text = f.of
    /\ \A g \in inFlight : f.of = g.of => f = g

\* ... nothing is out that was not sent ...
Sent ==
  /\ \A p \in Out : p[1] \in Called /\ messages[idOf[p[1]]] # NoMessage
                    /\ p[2] < Len(chunks[p[1]])
  /\ \A t \in ApiThreads : Busy(t) =>
       \A i \in Index : i >= worker[t].next => <<worker[t].call, i>> \notin Out

\* ... and the chunks of such a call say what has become of its frames.
Exact ==
  \A c \in Call : HasOwnId(c) => \A i \in 1 .. Len(chunks[c]) :
    /\ chunks[c][i].status = "DELIVERED" <=> <<c, i - 1>> \in arrived
    /\ chunks[c][i].status = "CORRUPTED" <=> <<c, i - 1>> \in damaged
    /\ chunks[c][i].status = "CORRUPTED" \/ chunks[c][i].text = <<c, i - 1>>

Clean == Known /\ FramesTell /\ Sent /\ Exact

BaseInv ==
  /\ TypeOK /\ Senders /\ CounterIsBehind /\ Named /\ Built
  /\ Table /\ IntactTell /\ Deliveries

Inv ==
  /\ BaseInv
  /\ alone => Sequential
  /\ headerHits = 0 => Clean

-------------------------------------------------------------------------------
(* Types *)

WorkerType ==
  [pc : {"idle", "named", "counted", "numbered", "sending"}, call : Nat,
   id : Nat, count : Nat, read : Nat, next : Nat]

\* A thread outside of send.
LEMMA IdleType == Idle \in WorkerType /\ Idle.pc = "idle" /\ Idle.next = 0
  BY DEF Idle, WorkerType

\* The bounds as numbers.
LEMMA Bounds ==
  /\ MaxSends \in Nat /\ MaxChunks \in Nat /\ MaxHeaderHits \in Nat
  /\ Id \subseteq Nat /\ Call \subseteq Nat /\ Index \subseteq Nat /\ ChunkCounts \subseteq Nat
  BY MaxSendsAssumption, MaxChunksAssumption, MaxHeaderHitsAssumption
     DEF Id, Call, Index, ChunkCounts

\* Placeholders are no objects of calls, and no object is the absence of one.
LEMMA Objects ==
  /\ Call \subseteq Object /\ NoMessage \notin Object
  /\ \A m \in Id : Placeholder(m) \in Object /\ Placeholder(m) \notin Call
                   /\ -Placeholder(m) = m /\ Placeholder(m) # NoMessage
<1>1. \A m \in Id : m \in Nat /\ m # 0 /\ -m \notin Call /\ -m # 0 /\ -(-m) = m
  BY Bounds DEF Id, Call
<1>2. 0 \notin Call
  BY DEF Call
<1> QED BY <1>1, <1>2 DEF Object, Placeholder, NoMessage

\* The chunks of a new message hold the pieces of its text.
LEMMA SplitType ==
  ASSUME NEW c \in Call, NEW n \in ChunkCounts
  PROVE  /\ Split(c, n) \in Seq(Chunk) /\ Len(Split(c, n)) = n
         /\ \A i \in 1 .. n : /\ i - 1 \in Index
                              /\ Split(c, n)[i].status = "SENT"
                              /\ Split(c, n)[i].text = <<c, i - 1>>
<1>1. n \in Nat /\ \A i \in 1 .. n : i - 1 \in Index
  BY Bounds DEF ChunkCounts, Index
<1>2. \A i \in 1 .. n : [status |-> "SENT", text |-> <<c, i - 1>>] \in Chunk
  BY <1>1 DEF Chunk, Piece
<1>3. Split(c, n) \in [1 .. n -> Chunk]
  BY <1>2 DEF Split
<1>4. Split(c, n) \in Seq(Chunk) /\ Len(Split(c, n)) = n
  BY <1>1, <1>3 DEF Split
<1> QED BY <1>1, <1>4 DEF Split

\* The chunks of a placeholder hold nothing.
LEMMA BlankType ==
  ASSUME NEW n \in ChunkCounts
  PROVE  /\ Blank(n) \in Seq(Chunk)
         /\ \A i \in 1 .. Len(Blank(n)) : Blank(n)[i].status = "SENT"
<1>1. n \in Nat /\ [status |-> "SENT", text |-> Noise] \in Chunk
  BY Bounds DEF Chunk
<1>2. Blank(n) \in [1 .. n -> Chunk]
  BY <1>1 DEF Blank
<1>3. Blank(n) \in Seq(Chunk) /\ Len(Blank(n)) = n
  BY <1>1, <1>2 DEF Blank
<1> QED BY <1>3 DEF Blank

\* Receiving a frame changes at most the chunk it names.
LEMMA FilledType ==
  ASSUME NEW s \in Seq(Chunk), NEW f \in Frame
  PROVE  /\ Filled(s, f) \in Seq(Chunk) /\ Len(Filled(s, f)) = Len(s) /\ Len(s) \in Nat
         /\ \A i \in 1 .. Len(s) :
              Filled(s, f)[i] = IF i = f.index + 1 THEN Arrival(f) ELSE s[i]
<1>1. Arrival(f) \in Chunk
  BY DEF Arrival, Chunk, Frame
<1>2. PICK c \in Chunk : c = Arrival(f)
  BY <1>1
<1>3. PICK k \in Nat : k = f.index
  BY Bounds DEF Frame
<1>4. CASE k < Len(s)
  <2>1. k + 1 \in 1 .. Len(s) /\ Filled(s, f) = [s EXCEPT ![k + 1] = c]
    BY <1>2, <1>3, <1>4 DEF Filled
  <2> QED BY <1>2, <1>3, <2>1
<1>5. CASE ~(k < Len(s))
  <2>1. Filled(s, f) = s
    BY <1>3, <1>5 DEF Filled
  <2>2. \A i \in 1 .. Len(s) : i # k + 1
    BY <1>5
  <2> QED BY <1>3, <2>1, <2>2
<1> QED BY <1>4, <1>5

\* Whatever noise does, a frame stays one; an intact one stays what it was, and one
\* whose header it spares keeps it.
LEMMA NoiseType ==
  ASSUME NEW frame \in Frame, frame.kind = "intact"
  PROVE  /\ \A f \in Spared(frame) \union Hit(frame) :
              f \in Frame /\ f.of = frame.of /\ (f.kind = "intact" => f = frame)
         /\ \A f \in Spared(frame) : f.id = frame.id /\ f.index = frame.index
<1>1. ASSUME NEW f \in Spared(frame)
      PROVE  /\ f \in Frame /\ f.of = frame.of /\ (f.kind = "intact" => f = frame)
             /\ f.id = frame.id /\ f.index = frame.index
  <2>1. CASE f = frame
    BY <2>1
  <2>2. CASE f = [frame EXCEPT !.kind = "unreadable"]
    BY <2>2 DEF Frame
  <2>3. ASSUME NEW text \in {frame.text, Noise},
               f = [frame EXCEPT !.kind = "noisy", !.text = text]
        PROVE  /\ f \in Frame /\ f.of = frame.of /\ (f.kind = "intact" => f = frame)
               /\ f.id = frame.id /\ f.index = frame.index
    <3>1. text \in Piece \union {Noise}
      BY DEF Frame
    <3> QED BY <2>3, <3>1 DEF Frame
  <2> QED BY <2>1, <2>2, <2>3 DEF Spared
<1>2. ASSUME NEW f \in Hit(frame)
      PROVE  f \in Frame /\ f.of = frame.of /\ f.kind # "intact"
  BY DEF Hit
<1> QED BY <1>1, <1>2

\* The frame of the chunk whose turn it is.
LEMMA NextFrameType ==
  ASSUME TypeOK, Senders, Named, NEW t \in ApiThreads, Busy(t)
  PROVE  /\ NextFrame(worker[t]) \in Frame /\ NextFrame(worker[t]).kind = "intact"
         /\ NextFrame(worker[t]).of = <<worker[t].call, worker[t].next>>
         /\ NextFrame(worker[t]).of[1] = worker[t].call
         /\ NextFrame(worker[t]).of[2] = worker[t].next
         /\ NextFrame(worker[t]).id = worker[t].id
         /\ NextFrame(worker[t]).index = worker[t].next
         /\ NextFrame(worker[t]).text = chunks[worker[t].call][worker[t].next + 1].text
         /\ worker[t].call \in Call /\ worker[t].call \in Called /\ worker[t].id \in Id
         /\ worker[t].next \in Index
         /\ worker[t].next + 1 \in 1 .. Len(chunks[worker[t].call])
<1>1. /\ worker[t].call \in Called /\ worker[t].call \in Call /\ worker[t].id \in Id
      /\ worker[t].count \in ChunkCounts
  BY Bounds DEF TypeOK, Senders, Call, Called, Named
<1>2. /\ worker[t].next \in Nat /\ worker[t].next < worker[t].count
      /\ Len(chunks[worker[t].call]) = worker[t].count
  BY DEF TypeOK, Senders
<1>3. worker[t].next \in Index /\ worker[t].next + 1 \in 1 .. Len(chunks[worker[t].call])
  BY <1>1, <1>2, Bounds DEF Index, ChunkCounts
<1>4. chunks[worker[t].call] \in Seq(Chunk)
  BY <1>1, Objects DEF TypeOK
<1>5. chunks[worker[t].call][worker[t].next + 1] \in Chunk
  BY <1>3, <1>4
<1>6. chunks[worker[t].call][worker[t].next + 1].text \in Piece \union {Noise}
  BY <1>5 DEF Chunk
<1> QED BY <1>1, <1>3, <1>6 DEF NextFrame, Frame, Piece

-------------------------------------------------------------------------------
(* What a step does to the record of its thread *)

\* The other threads' records stay.
Others(t) ==
  /\ worker' \in [ApiThreads -> WorkerType]
  /\ \A u \in ApiThreads : u # t => worker'[u] = worker[u]

\* The call a thread works for stays the same.
SameCall(t) ==
  /\ worker'[t].call = worker[t].call /\ worker'[t].id = worker[t].id
  /\ worker'[t].count = worker[t].count

\* A function changed at one place.
LEMMA Changed ==
  ASSUME NEW S, NEW T, NEW f \in [S -> T], NEW x \in S, NEW v \in T
  PROVE  /\ [f EXCEPT ![x] = v] \in [S -> T]
         /\ [f EXCEPT ![x] = v][x] = v
         /\ \A y \in S : y # x => [f EXCEPT ![x] = v][y] = f[y]
  OBVIOUS

\* send begins.
LEMMA SendDoes ==
  ASSUME TypeOK, NEW t \in ApiThreads, NEW n \in ChunkCounts, Send(t, n)
  PROVE  /\ Others(t)
         /\ worker[t].pc = "idle" /\ worker'[t].pc = "named"
         /\ worker'[t].call = calls + 1 /\ worker'[t].id = nextId
         /\ worker'[t].count = n /\ worker'[t].next = 0
<1>1. calls + 1 \in Nat /\ nextId \in Nat /\ n \in Nat
  BY Bounds DEF TypeOK
<1>2. PICK w \in WorkerType : w = Idle
  BY IdleType
<1>3. PICK v : v = [w EXCEPT !.pc = "named", !.call = calls + 1, !.id = nextId, !.count = n]
  OBVIOUS
<1>4. /\ v \in WorkerType /\ v.pc = "named" /\ v.call = calls + 1 /\ v.id = nextId
      /\ v.count = n /\ v.next = 0
  BY <1>1, <1>2, <1>3, IdleType DEF WorkerType
<1>5. worker \in [ApiThreads -> WorkerType] /\ worker' = [worker EXCEPT ![t] = v]
  BY <1>2, <1>3 DEF Send, TypeOK, WorkerType
<1>6. worker[t].pc = "idle"
  BY DEF Send, At
<1> QED
  BY <1>4, <1>5, <1>6, Changed DEF Others

\* The counter is read.
LEMMA ReadNextIdDoes ==
  ASSUME TypeOK, NEW t \in ApiThreads, ReadNextId(t)
  PROVE  /\ Others(t) /\ SameCall(t) /\ worker'[t].next = worker[t].next
         /\ worker[t].pc = "named" /\ worker'[t].pc = "counted"
         /\ worker'[t].read = nextId
<1>1. nextId \in Nat /\ worker \in [ApiThreads -> WorkerType] /\ worker[t] \in WorkerType
  BY DEF TypeOK, WorkerType
<1>2. PICK w \in WorkerType : w = worker[t]
  BY <1>1
<1>3. PICK v : v = [w EXCEPT !.pc = "counted", !.read = nextId]
  OBVIOUS
<1>4. /\ v \in WorkerType /\ v.pc = "counted" /\ v.read = nextId /\ v.next = w.next
      /\ v.call = w.call /\ v.id = w.id /\ v.count = w.count
  BY <1>1, <1>3 DEF WorkerType
<1>5. worker' = [worker EXCEPT ![t] = v] /\ worker[t].pc = "named"
  BY <1>1, <1>2, <1>3 DEF ReadNextId, At
<1> QED
  BY <1>1, <1>2, <1>4, <1>5, Changed DEF Others, SameCall

\* A step that only changes the place.
LEMMA PlaceDoes ==
  ASSUME TypeOK, NEW t \in ApiThreads,
         NEW place \in {"numbered", "sending"}, worker' = [worker EXCEPT ![t].pc = place]
  PROVE  /\ Others(t) /\ SameCall(t) /\ worker'[t].next = worker[t].next
         /\ worker'[t].pc = place
<1>1. worker \in [ApiThreads -> WorkerType] /\ worker[t] \in WorkerType
  BY DEF TypeOK, WorkerType
<1>2. PICK w \in WorkerType : w = worker[t]
  BY <1>1
<1>3. PICK v : v = [w EXCEPT !.pc = place]
  OBVIOUS
<1>4. /\ v \in WorkerType /\ v.pc = place /\ v.next = w.next
      /\ v.call = w.call /\ v.id = w.id /\ v.count = w.count
  BY <1>1, <1>3 DEF WorkerType
<1>5. worker' = [worker EXCEPT ![t] = v]
  BY <1>1, <1>2, <1>3
<1> QED
  BY <1>1, <1>2, <1>4, <1>5, Changed DEF Others, SameCall

\* A chunk is transmitted: the thread goes on to the next, or leaves send.
LEMMA TransmitDoes ==
  ASSUME TypeOK, NEW t \in ApiThreads, TransmitChunk(t) \/ TransmitRaises(t)
  PROVE  /\ Transmit(t) /\ Others(t) /\ worker[t].pc = "sending" /\ worker[t].next \in Nat
         /\ \/ worker'[t].pc = "idle"
            \/ /\ SameCall(t) /\ worker'[t].pc = "sending"
               /\ worker[t].next + 1 # worker[t].count
               /\ worker'[t].next = worker[t].next + 1
<1>1. worker \in [ApiThreads -> WorkerType] /\ worker[t] \in WorkerType
  BY DEF TypeOK, WorkerType
<1>2. PICK w \in WorkerType : w = worker[t]
  BY <1>1
<1>3. Transmit(t) /\ worker[t].pc = "sending" /\ w.next \in Nat
  BY <1>2 DEF TransmitChunk, TransmitRaises, Transmit, At, WorkerType
<1>4. CASE worker' = [worker EXCEPT ![t] = Idle]
  BY <1>1, <1>2, <1>3, <1>4, Changed, IdleType DEF Others
<1>5. CASE w.next + 1 # w.count /\ TransmitChunk(t)
  <2>1. PICK v : v = [w EXCEPT !.next = w.next + 1]
    OBVIOUS
  <2>2. /\ v \in WorkerType /\ v.pc = w.pc /\ v.next = w.next + 1
        /\ v.call = w.call /\ v.id = w.id /\ v.count = w.count
    BY <1>3, <2>1 DEF WorkerType
  <2>3. worker' = [worker EXCEPT ![t] = v]
    <3>1. worker' = [worker EXCEPT ![t] = IF worker[t].next + 1 = worker[t].count THEN Idle
                                          ELSE [worker[t] EXCEPT !.next = worker[t].next + 1]]
      BY <1>1, <1>5 DEF TransmitChunk
    <3> QED BY <1>2, <1>5, <2>1, <3>1
  <2>4. Others(t) /\ worker'[t] = v
    BY <1>1, <2>2, <2>3, Changed DEF Others
  <2> QED
    BY <1>2, <1>3, <1>5, <2>2, <2>4 DEF SameCall
<1>6. (TransmitChunk(t) /\ w.next + 1 = w.count) => worker' = [worker EXCEPT ![t] = Idle]
  BY <1>1, <1>2 DEF TransmitChunk
<1> QED
  BY <1>4, <1>5, <1>6 DEF TransmitRaises

\* At most one frame is added, of the piece whose turn it was; it is what send has
\* built, or it is damaged, in its header at the price of a hit.
LEMMA FrameDoes ==
  ASSUME TypeOK, Senders, Named, NEW t \in ApiThreads, Busy(t), Transmit(t)
  PROVE  \/ UNCHANGED <<inFlight, headerHits>>
         \/ \E f \in Frame :
              /\ inFlight' = inFlight \union {f}
              /\ f.of = <<worker[t].call, worker[t].next>>
              /\ f.kind = "intact" => f = NextFrame(worker[t])
              /\ \/ headerHits' = headerHits + 1 /\ headerHits < MaxHeaderHits
                 \/ UNCHANGED headerHits /\ f.id = worker[t].id /\ f.index = worker[t].next
<1> DEFINE frame == NextFrame(worker[t])
<1>1. /\ frame \in Frame /\ frame.kind = "intact" /\ frame.id = worker[t].id
      /\ frame.index = worker[t].next /\ frame.of = <<worker[t].call, worker[t].next>>
  BY NextFrameType
<1>2. \/ UNCHANGED <<inFlight, headerHits>>
      \/ /\ \E f \in Spared(frame) : inFlight' = inFlight \union {f}
         /\ UNCHANGED headerHits
      \/ /\ headerHits < MaxHeaderHits
         /\ headerHits' = headerHits + 1
         /\ \E f \in Hit(frame) : inFlight' = inFlight \union {f}
  BY DEF Transmit
<1> HIDE DEF frame
<1>3. ASSUME NEW f \in Spared(frame) \union Hit(frame)
      PROVE  f \in Frame /\ f.of = frame.of /\ (f.kind = "intact" => f = frame)
  BY <1>1, NoiseType
<1>4. ASSUME NEW f \in Spared(frame)
      PROVE  f.id = frame.id /\ f.index = frame.index
  BY <1>1, NoiseType
<1>5. ASSUME NEW f \in Spared(frame), inFlight' = inFlight \union {f}, UNCHANGED headerHits
      PROVE  \E g \in Frame :
              /\ inFlight' = inFlight \union {g}
              /\ g.of = <<worker[t].call, worker[t].next>>
              /\ g.kind = "intact" => g = frame
              /\ UNCHANGED headerHits /\ g.id = worker[t].id /\ g.index = worker[t].next
  BY <1>1, <1>3, <1>4, <1>5
<1>6. ASSUME NEW f \in Hit(frame), inFlight' = inFlight \union {f}
      PROVE  \E g \in Frame :
              /\ inFlight' = inFlight \union {g}
              /\ g.of = <<worker[t].call, worker[t].next>>
              /\ g.kind = "intact" => g = frame
  BY <1>1, <1>3, <1>6
<1> QED BY <1>2, <1>5, <1>6 DEF frame

-------------------------------------------------------------------------------
(* Every call of send, in any interleaving *)

\* Lost updates leave the counter behind the calls.
LEMMA NextCounter ==
  ASSUME TypeOK, Senders, CounterIsBehind, [Next]_vars
  PROVE  /\ CounterIsBehind' /\ nextId' \in 1 .. calls' + 1
         /\ calls' \in 0 .. MaxSends
<1> DEFINE N == Cardinality(Unwritten)
<1>0. /\ N \in Nat /\ nextId \in Nat \ {0} /\ calls \in Nat /\ calls <= MaxSends
      /\ MaxSends \in Nat /\ nextId + N <= calls + 1
      /\ \A u \in ApiThreads : worker[u].read \in Nat
  BY FS_CardinalityType, Bounds DEF CounterIsBehind, TypeOK
<1>1. ASSUME NEW t \in ApiThreads, NEW n \in ChunkCounts, Send(t, n)
      PROVE  CounterIsBehind' /\ nextId' \in 1 .. calls' + 1 /\ calls' \in 0 .. MaxSends
  <2>1. Unwritten' = Unwritten \union {t} /\ t \notin Unwritten
    BY <1>1, SendDoes DEF Unwritten, Others
  <2>2. IsFiniteSet(Unwritten') /\ Cardinality(Unwritten') = N + 1
    BY <2>1, FS_AddElement DEF CounterIsBehind
  <2>3. calls' = calls + 1 /\ nextId' = nextId /\ calls < MaxSends
    BY <1>1 DEF Send
  <2>4. \A u \in ApiThreads : At(u, "counted")' => At(u, "counted") /\ worker'[u] = worker[u]
    BY <1>1, SendDoes DEF Others, At
  <2>5. \A u \in ApiThreads : At(u, "counted")' => worker'[u].read + N <= calls + 1
    BY <2>4 DEF CounterIsBehind
  <2>6. \A u \in ApiThreads : At(u, "counted")' => worker'[u].read \in Nat
    BY <1>0, <2>4
  <2>7. \A u \in ApiThreads : At(u, "counted")' => worker'[u].read + (N + 1) <= (calls + 1) + 1
    BY <1>0, <2>5, <2>6
  <2>8. nextId + (N + 1) <= (calls + 1) + 1 /\ nextId \in 1 .. (calls + 1) + 1
        /\ calls + 1 \in 0 .. MaxSends
    BY <1>0, <2>3
  <2> HIDE DEF N
  <2> QED
    BY <2>2, <2>3, <2>7, <2>8 DEF CounterIsBehind
<1>2. ASSUME NEW t \in ApiThreads, ReadNextId(t)
      PROVE  CounterIsBehind' /\ nextId' \in 1 .. calls' + 1 /\ calls' \in 0 .. MaxSends
  <2>1. Unwritten' = Unwritten
    BY <1>2, ReadNextIdDoes DEF Unwritten, Others
  <2>2. calls' = calls /\ nextId' = nextId /\ worker'[t].read = nextId
    BY <1>2, ReadNextIdDoes DEF ReadNextId
  <2>3. \A u \in ApiThreads \ {t} : At(u, "counted")' => worker'[u].read + N <= calls + 1
    BY <1>2, ReadNextIdDoes DEF Others, CounterIsBehind, At
  <2>4. \A u \in ApiThreads : At(u, "counted")' => worker'[u].read + N <= calls + 1
    BY <1>0, <2>2, <2>3
  <2> QED
    BY <1>0, <2>1, <2>2, <2>4 DEF CounterIsBehind
<1>3. ASSUME NEW t \in ApiThreads, WriteNextId(t)
      PROVE  CounterIsBehind' /\ nextId' \in 1 .. calls' + 1 /\ calls' \in 0 .. MaxSends
  <2>0. Others(t) /\ worker'[t].pc = "numbered" /\ At(t, "counted")
    BY <1>3, PlaceDoes DEF WriteNextId
  <2>1. Unwritten' = Unwritten \ {t} /\ t \in Unwritten
    BY <2>0 DEF Unwritten, Others, At
  <2>2. IsFiniteSet(Unwritten') /\ Cardinality(Unwritten') = N - 1
    BY <2>1, FS_RemoveElement DEF CounterIsBehind
  <2>3. calls' = calls /\ nextId' = worker[t].read + 1
    BY <1>3 DEF WriteNextId
  <2>4. worker[t].read \in Nat /\ worker[t].read + N <= calls + 1
    BY <1>0, <2>0 DEF CounterIsBehind
  <2>5. \A u \in ApiThreads : At(u, "counted")' =>
          worker'[u].read \in Nat /\ worker'[u].read + N <= calls + 1
    BY <1>0, <2>0 DEF Others, CounterIsBehind, At
  <2>6. \A u \in ApiThreads : At(u, "counted")' => worker'[u].read + (N - 1) <= calls + 1
    BY <1>0, <2>5
  <2>7. N \in Nat \ {0}
    BY <2>1, <1>0, FS_EmptySet DEF CounterIsBehind
  <2>8. (worker[t].read + 1) + (N - 1) <= calls + 1 /\ worker[t].read + 1 \in 1 .. calls + 1
    BY <1>0, <2>4, <2>7
  <2> HIDE DEF N
  <2> QED
    BY <1>0, <2>2, <2>3, <2>6, <2>8 DEF CounterIsBehind
<1>4. ASSUME NEW t \in ApiThreads, Others(t), UNCHANGED <<nextId, calls>>,
             worker[t].pc \notin {"named", "counted"}, worker'[t].pc \notin {"named", "counted"}
      PROVE  CounterIsBehind' /\ nextId' \in 1 .. calls' + 1 /\ calls' \in 0 .. MaxSends
  <2>1. Unwritten' = Unwritten
    BY <1>4 DEF Unwritten, Others
  <2>2. \A u \in ApiThreads : At(u, "counted")' => worker'[u].read + N <= calls + 1
    BY <1>4 DEF Others, CounterIsBehind, At
  <2> QED
    BY <1>0, <1>4, <2>1, <2>2 DEF CounterIsBehind
<1>5. ASSUME NEW t \in ApiThreads, Store(t) \/ TransmitChunk(t) \/ TransmitRaises(t)
      PROVE  CounterIsBehind' /\ nextId' \in 1 .. calls' + 1 /\ calls' \in 0 .. MaxSends
  <2>1. CASE Store(t)
    BY <1>4, <2>1, PlaceDoes DEF Store, At
  <2>2. CASE TransmitChunk(t) \/ TransmitRaises(t)
    BY <1>4, <2>2, TransmitDoes DEF Transmit
  <2> QED
    BY <1>5, <2>1, <2>2
<1>6. ASSUME UNCHANGED <<worker, nextId, calls>>
      PROVE  CounterIsBehind' /\ nextId' \in 1 .. calls' + 1 /\ calls' \in 0 .. MaxSends
  BY <1>0, <1>6 DEF CounterIsBehind, Unwritten, At
<1> QED
  BY <1>1, <1>2, <1>3, <1>5, <1>6
     DEF Next, SendStep, DeliverAny, Deliver, EnterPlaceholder, vars

\* The pieces a frame's arrival is told of, and the object it is written into
LEMMA ArrivalDoes ==
  ASSUME TypeOK, NEW f \in Frame, Account(f)
  PROVE  /\ arrived' \subseteq Piece /\ damaged' \subseteq Piece /\ arrived \subseteq arrived'
         /\ f.kind = "intact" => arrived' = arrived \union {f.of} /\ damaged' = damaged
         /\ f.kind # "intact" => damaged' = damaged \union {f.of} /\ arrived' = arrived
<1>1. f.of \in Piece
  BY DEF Frame
<1> QED BY <1>1 DEF Account, TypeOK

\* A frame is written into one chunk of the message the table has.
LEMMA ReceiveDoes ==
  ASSUME TypeOK, NEW f \in Frame, messages[f.id] # NoMessage,
         chunks' = [chunks EXCEPT ![messages[f.id]] = Filled(@, f)]
  PROVE  /\ f.id \in Id /\ messages[f.id] \in Object
         /\ chunks' \in [Object -> Seq(Chunk)]
         /\ \A o \in Object :
              /\ Len(chunks'[o]) = Len(chunks[o])
              /\ \A i \in 1 .. Len(chunks[o]) :
                   chunks'[o][i] = IF o = messages[f.id] /\ i = f.index + 1 THEN Arrival(f)
                                   ELSE chunks[o][i]
<1>1. f.id \in Id /\ messages[f.id] \in Object /\ chunks \in [Object -> Seq(Chunk)]
  BY DEF Frame, TypeOK
<1>2. PICK s \in Seq(Chunk) : s = Filled(chunks[messages[f.id]], f)
  BY <1>1, FilledType
<1>3. /\ Len(s) = Len(chunks[messages[f.id]])
      /\ \A i \in 1 .. Len(chunks[messages[f.id]]) :
           s[i] = IF i = f.index + 1 THEN Arrival(f) ELSE chunks[messages[f.id]][i]
  BY <1>1, <1>2, FilledType
<1>4. chunks' = [chunks EXCEPT ![messages[f.id]] = s]
  BY <1>2
<1> QED BY <1>1, <1>3, <1>4

\* A placeholder gets the frame, and the entry of the table.
LEMMA EnterDoes ==
  ASSUME TypeOK, NEW f \in Frame, EnterPlaceholder(f)
  PROVE  /\ f.id \in Id /\ Placeholder(f.id) \in Object
         /\ chunks' \in [Object -> Seq(Chunk)]
         /\ messages' \in [Id -> Object \union {NoMessage}]
         /\ messages'[f.id] = Placeholder(f.id)
         /\ \A m \in Id : m # f.id => messages'[m] = messages[m]
         /\ \A o \in Object : o # Placeholder(f.id) => chunks'[o] = chunks[o]
         /\ \A i \in 1 .. Len(chunks'[Placeholder(f.id)]) :
              chunks'[Placeholder(f.id)][i].status = "DELIVERED" =>
                i = f.index + 1 /\ f.kind = "intact"
<1>1. /\ f.id \in Id /\ f.count \in ChunkCounts /\ Placeholder(f.id) \in Object
      /\ chunks \in [Object -> Seq(Chunk)] /\ messages \in [Id -> Object \union {NoMessage}]
  BY Objects DEF Frame, TypeOK
<1>2. PICK s \in Seq(Chunk) : s = Filled(Blank(f.count), f)
  BY <1>1, BlankType, FilledType
<1>3. /\ Len(s) = Len(Blank(f.count))
      /\ \A i \in 1 .. Len(s) :
           s[i] = IF i = f.index + 1 THEN Arrival(f) ELSE Blank(f.count)[i]
  BY <1>1, <1>2, BlankType, FilledType
<1>4. \A i \in 1 .. Len(s) : s[i].status = "DELIVERED" => i = f.index + 1 /\ f.kind = "intact"
  BY <1>1, <1>3, BlankType DEF Arrival
<1>5. /\ chunks' = [chunks EXCEPT ![Placeholder(f.id)] = s]
      /\ messages' = [messages EXCEPT ![f.id] = Placeholder(f.id)]
  BY <1>2 DEF EnterPlaceholder
<1> QED BY <1>1, <1>4, <1>5

\* Every step keeps the types.
LEMMA NextTypes ==
  ASSUME TypeOK, Senders, Named, CounterIsBehind, [Next]_vars
  PROVE  TypeOK'
<1>0. nextId' \in 1 .. calls' + 1 /\ calls' \in 0 .. MaxSends
  BY NextCounter
<1> USE DEF report
<1>a. ASSUME NEW t \in ApiThreads, Others(t)
      PROVE  worker' \in [ApiThreads ->
               [pc : {"idle", "named", "counted", "numbered", "sending"}, call : Nat,
                id : Nat, count : Nat, read : Nat, next : Nat]]
  BY <1>a DEF Others, WorkerType
<1>1. ASSUME NEW t \in ApiThreads, NEW n \in ChunkCounts, Send(t, n)
      PROVE  TypeOK'
  <2>1. idOf' \in [Call -> 0 .. MaxSends] /\ alone' \in BOOLEAN
    <3>1. nextId \in 0 .. MaxSends
      BY <1>1, Bounds DEF Send, TypeOK
    <3> QED
      BY <1>1, <3>1 DEF Send, TypeOK
  <2>2. chunks' \in [Object -> Seq(Chunk)]
    <3>1. calls + 1 \in Call
      BY <1>1, Bounds DEF Send, TypeOK, Call
    <3>2. Split(calls + 1, n) \in Seq(Chunk)
      BY <3>1, SplitType
    <3> QED
      BY <1>1, <3>2 DEF Send, TypeOK
  <2> QED
    BY <1>0, <1>1, <1>a, <2>1, <2>2, SendDoes DEF Send, TypeOK
<1>2. ASSUME NEW t \in ApiThreads, ReadNextId(t)
      PROVE  TypeOK'
  BY <1>0, <1>2, <1>a, ReadNextIdDoes DEF ReadNextId, TypeOK
<1>3. ASSUME NEW t \in ApiThreads, WriteNextId(t)
      PROVE  TypeOK'
  <2>1. Others(t)
    BY <1>3, PlaceDoes DEF WriteNextId
  <2> QED
    BY <1>0, <1>3, <1>a, <2>1 DEF WriteNextId, TypeOK
<1>4. ASSUME NEW t \in ApiThreads, Store(t)
      PROVE  TypeOK'
  <2>1. Others(t)
    BY <1>4, PlaceDoes DEF Store
  <2>2. worker[t].call \in Object
    BY <1>4, NextFrameType, Objects DEF Store, At, Busy
  <2>3. messages' \in [Id -> Object \union {NoMessage}]
    BY <1>4, <2>2 DEF Store, TypeOK
  <2> QED
    BY <1>0, <1>4, <1>a, <2>1, <2>3 DEF Store, TypeOK
<1>5. ASSUME NEW t \in ApiThreads, TransmitChunk(t) \/ TransmitRaises(t)
      PROVE  TypeOK'
  <2>1. Transmit(t) /\ Others(t) /\ Busy(t)
    BY <1>5, TransmitDoes DEF Busy
  <2>2. inFlight' \subseteq Frame /\ headerHits' \in 0 .. MaxHeaderHits
    <3>1. headerHits \in Nat /\ headerHits <= MaxHeaderHits
      BY Bounds DEF TypeOK
    <3>2. CASE UNCHANGED <<inFlight, headerHits>>
      BY <3>2 DEF TypeOK
    <3>3. ASSUME NEW f \in Frame, inFlight' = inFlight \union {f},
                 \/ headerHits' = headerHits + 1 /\ headerHits < MaxHeaderHits
                 \/ UNCHANGED headerHits
          PROVE  inFlight' \subseteq Frame /\ headerHits' \in 0 .. MaxHeaderHits
      BY <3>1, <3>3, Bounds DEF TypeOK
    <3> QED
      BY <2>1, <3>2, <3>3, FrameDoes
  <2> QED
    BY <1>0, <1>a, <2>1, <2>2 DEF Transmit, TypeOK
<1>6. ASSUME NEW f \in inFlight, Deliver(f)
      PROVE  TypeOK'
  <2>0. f \in Frame
    BY DEF TypeOK
  <2>1. CASE Receive(f)
    <3>1. chunks' \in [Object -> Seq(Chunk)]
      BY <2>0, <2>1, ReceiveDoes DEF Receive
    <3>2. arrived' \subseteq Piece /\ damaged' \subseteq Piece
      BY <2>0, <2>1, ArrivalDoes DEF Receive
    <3> QED
      BY <1>0, <1>6, <2>1, <3>1, <3>2 DEF Deliver, Receive, TypeOK
  <2>2. CASE NotFound(f) \/ Miss(f)
    BY <1>0, <1>6, <2>0, <2>2 DEF Deliver, NotFound, Miss, TypeOK
  <2> QED
    BY <1>6, <2>1, <2>2 DEF Deliver
<1>7. ASSUME NEW f \in unknown, EnterPlaceholder(f)
      PROVE  TypeOK'
  <2>1. f \in Frame
    BY DEF TypeOK
  <2>2. chunks' \in [Object -> Seq(Chunk)] /\ messages' \in [Id -> Object \union {NoMessage}]
    BY <1>7, <2>1, EnterDoes
  <2>3. arrived' \subseteq Piece /\ damaged' \subseteq Piece
    BY <1>7, <2>1, ArrivalDoes DEF EnterPlaceholder
  <2> QED
    BY <1>0, <1>7, <2>2, <2>3 DEF EnterPlaceholder, TypeOK
<1>8. CASE UNCHANGED vars
  BY <1>8 DEF vars, TypeOK
<1> QED
  BY <1>1, <1>2, <1>3, <1>4, <1>5, <1>6, <1>7, <1>8 DEF Next, SendStep, DeliverAny

\* An id a call has taken stays its id, and may cease to be its own.
LEMMA IdsStay ==
  ASSUME TypeOK, Named, [Next]_vars
  PROVE  /\ Called \subseteq Called' /\ Called \subseteq Call
         /\ \A c \in Called : idOf'[c] = idOf[c] /\ idOf[c] \in Id
         /\ \A c \in Call : c \notin Called => idOf[c] = 0
         /\ \A c \in Called : HasOwnId(c)' => HasOwnId(c)
         /\ Named'
<1>0. /\ calls \in Nat /\ calls <= MaxSends /\ nextId \in Nat \ {0} /\ nextId <= calls + 1
      /\ MaxSends \in Nat
  BY Bounds DEF TypeOK
<1>1. Called \subseteq Call
  BY <1>0 DEF Called, Call
<1>2. ASSUME NEW t \in ApiThreads, NEW n \in ChunkCounts, Send(t, n)
      PROVE  /\ Called \subseteq Called' /\ (\A c \in Called : idOf'[c] = idOf[c]) /\ Named'
  <2>1. /\ calls' = calls + 1 /\ calls + 1 \in Call /\ calls + 1 \notin Called
        /\ \A c \in Call : idOf'[c] = IF c = calls + 1 THEN nextId ELSE idOf[c]
    BY <1>0, <1>2 DEF Send, TypeOK, Call, Called
  <2>2. nextId \in Id
    BY <1>0, <1>2 DEF Send, Id
  <2>3. Called' = Called \union {calls + 1}
    BY <1>0, <2>1 DEF Called
  <2> QED
    BY <1>1, <2>1, <2>2, <2>3 DEF Named
<1>3. ASSUME UNCHANGED <<calls, idOf>>
      PROVE  /\ Called \subseteq Called' /\ (\A c \in Called : idOf'[c] = idOf[c]) /\ Named'
  BY <1>3 DEF Named, Called
<1>4. Called \subseteq Called' /\ (\A c \in Called : idOf'[c] = idOf[c]) /\ Named'
  BY <1>2, <1>3 DEF Next, SendStep, DeliverAny, Deliver, EnterPlaceholder, ReadNextId, WriteNextId,
     Store, TransmitChunk, TransmitRaises, Transmit, vars, Named
<1>5. (\A c \in Called : idOf[c] \in Id) /\ \A c \in Call : c \notin Called => idOf[c] = 0
  BY <1>1 DEF Named
<1>6. 0 \notin Id
  BY DEF Id
<1>7. ASSUME NEW c \in Called, HasOwnId(c)'
      PROVE  HasOwnId(c)
  <2>1. ASSUME NEW d \in Call, idOf[d] = idOf[c]
        PROVE  d = c
    <3>1. d \in Called
      BY <1>5, <1>6, <2>1
    <3> QED
      BY <1>4, <1>7, <2>1, <3>1 DEF HasOwnId
  <2> QED
    BY <1>5, <1>6, <2>1 DEF HasOwnId
<1> QED
  BY <1>1, <1>4, <1>5, <1>7

\* What the table and the chunks keep: no entry is removed, no chunk is added to a
\* message that was built, and what has arrived stays.
LEMMA TableGrows ==
  ASSUME TypeOK, Senders, Named, [Next]_vars
  PROVE  /\ \A m \in Id : messages[m] # NoMessage => messages'[m] # NoMessage
         /\ \A c \in Called : Len(chunks'[c]) = Len(chunks[c])
         /\ arrived \subseteq arrived'
<1>1. Called \subseteq Call /\ calls + 1 \notin Called
  BY IdsStay DEF Called, TypeOK
<1>2. ASSUME NEW t \in ApiThreads, NEW n \in ChunkCounts, Send(t, n)
      PROVE  /\ UNCHANGED <<messages, arrived>>
             /\ \A c \in Called : Len(chunks'[c]) = Len(chunks[c])
  BY <1>1, <1>2 DEF Send, TypeOK
<1>3. ASSUME NEW t \in ApiThreads, Store(t)
      PROVE  /\ UNCHANGED <<chunks, arrived>>
             /\ \A m \in Id : messages[m] # NoMessage => messages'[m] # NoMessage
  <2>1. worker[t].call \in Object
    BY <1>3, NextFrameType, Objects DEF Store, At, Busy
  <2> QED
    BY <1>3, <2>1, Objects DEF Store, TypeOK
<1>4. ASSUME NEW f \in inFlight, Deliver(f)
      PROVE  /\ UNCHANGED messages /\ arrived \subseteq arrived'
             /\ \A c \in Called : Len(chunks'[c]) = Len(chunks[c])
  <2>1. f \in Frame /\ Called \subseteq Object
    BY <1>1, Objects DEF TypeOK
  <2>2. CASE Receive(f)
    BY <2>1, <2>2, ReceiveDoes, ArrivalDoes DEF Receive
  <2>3. CASE NotFound(f) \/ Miss(f)
    BY <2>3 DEF NotFound, Miss, report
  <2> QED
    BY <1>4, <2>2, <2>3 DEF Deliver
<1>5. ASSUME NEW f \in unknown, EnterPlaceholder(f)
      PROVE  /\ \A m \in Id : messages[m] # NoMessage => messages'[m] # NoMessage
             /\ arrived \subseteq arrived'
             /\ \A c \in Called : Len(chunks'[c]) = Len(chunks[c])
  <2>1. f \in Frame /\ f.id \in Id
    BY DEF TypeOK, Frame
  <2>2. Placeholder(f.id) \notin Call /\ Placeholder(f.id) # NoMessage /\ Call \subseteq Object
    BY <2>1, Objects
  <2>3. arrived \subseteq arrived'
    BY <1>5, <2>1, ArrivalDoes DEF EnterPlaceholder
  <2> QED
    BY <1>1, <1>5, <2>1, <2>2, <2>3, EnterDoes
<1>6. CASE UNCHANGED report
  BY <1>6 DEF report
<1> QED
  BY <1>2, <1>3, <1>4, <1>5, <1>6
     DEF Next, SendStep, DeliverAny, ReadNextId, WriteNextId, TransmitChunk, TransmitRaises, Transmit,
         vars

\* A thread in send goes on working for its call.
LEMMA NextSenders ==
  ASSUME TypeOK, Senders, Named, CounterIsBehind, [Next]_vars
  PROVE  Senders'
<1>0. /\ calls \in Nat /\ Called \subseteq Called' /\ Called \subseteq Call
      /\ (\A c \in Called : idOf'[c] = idOf[c] /\ idOf[c] \in Id)
      /\ (\A m \in Id : messages[m] # NoMessage => messages'[m] # NoMessage)
      /\ \A c \in Called : Len(chunks'[c]) = Len(chunks[c])
  BY IdsStay, TableGrows DEF TypeOK
<1> DEFINE
  Works(t) ==
    /\ worker[t].call \in Called
    /\ worker[t].id = idOf[worker[t].call]
    /\ worker[t].count \in ChunkCounts
    /\ Len(chunks[worker[t].call]) = worker[t].count
    /\ worker[t].next < worker[t].count
    /\ At(t, "sending") => messages[worker[t].id] # NoMessage
<1>1. \A t \in ApiThreads : Busy(t) => Works(t)
  BY DEF Senders
<1>2. \A t, u \in ApiThreads : (Busy(t) /\ Busy(u) /\ worker[u].call = worker[t].call) => u = t
  BY DEF Senders
<1>3. ASSUME NEW u \in ApiThreads, Busy(u), worker'[u] = worker[u]
      PROVE  Works(u)'
  BY <1>0, <1>1, <1>3 DEF At
<1>4. ASSUME NEW t \in ApiThreads, Others(t), Busy(t)' => Works(t)',
             \A u \in ApiThreads : (u # t /\ Busy(u) /\ Busy(t)') => worker'[t].call # worker[u].call
      PROVE  Senders'
  <2>1. \A u \in ApiThreads : u # t => worker'[u] = worker[u]
    BY <1>4 DEF Others
  <2>2. \A u \in ApiThreads : Busy(u)' => Works(u)'
    BY <1>3, <1>4, <2>1 DEF Busy
  <2>3. \A u, v \in ApiThreads : (Busy(u)' /\ Busy(v)' /\ worker'[v].call = worker'[u].call) => v = u
    BY <1>2, <1>4, <2>1 DEF Busy
  <2> QED
    BY <2>2, <2>3 DEF Senders
<1>5. ASSUME NEW t \in ApiThreads, NEW n \in ChunkCounts, Send(t, n)
      PROVE  Senders'
  <2>1. /\ calls' = calls + 1 /\ calls < MaxSends /\ calls + 1 \in Call /\ calls + 1 \in Called'
        /\ idOf' = [idOf EXCEPT ![calls + 1] = nextId]
        /\ chunks' = [chunks EXCEPT ![calls + 1] = Split(calls + 1, n)]
    BY <1>0, <1>5, Bounds DEF Send, Call, Called
  <2>2. idOf'[calls + 1] = nextId /\ Len(chunks'[calls + 1]) = n
    BY <2>1, SplitType, Objects DEF TypeOK
  <2>3. 0 < n
    BY Bounds DEF ChunkCounts
  <2>4. /\ Others(t) /\ worker'[t].call = calls + 1 /\ worker'[t].id = nextId
        /\ worker'[t].count = n /\ worker'[t].next = 0 /\ worker'[t].pc = "named"
    BY <1>5, SendDoes
  <2>5. Works(t)'
    BY <2>1, <2>2, <2>3, <2>4 DEF At
  <2>6. \A u \in ApiThreads : Busy(u) => worker[u].call # calls + 1
    BY <1>0, <1>1 DEF Called
  <2> QED
    BY <1>4, <2>4, <2>5, <2>6
<1>6. ASSUME NEW t \in ApiThreads, Others(t), SameCall(t), Busy(t),
             worker'[t].next < worker[t].count,
             At(t, "sending")' => messages'[worker[t].id] # NoMessage
      PROVE  Senders'
  <2>1. Works(t)'
    BY <1>0, <1>1, <1>6 DEF SameCall, At
  <2> QED
    BY <1>2, <1>4, <1>6, <2>1 DEF SameCall
<1>7. ASSUME NEW t \in ApiThreads, ReadNextId(t) \/ WriteNextId(t) \/ Store(t)
      PROVE  Senders'
  <2>1. Busy(t) /\ Others(t) /\ SameCall(t) /\ worker'[t].next = worker[t].next
    <3>1. CASE ReadNextId(t)
      BY <3>1, ReadNextIdDoes DEF Busy
    <3>2. CASE WriteNextId(t)
      BY <3>2, PlaceDoes DEF WriteNextId, Busy, At
    <3>3. CASE Store(t)
      BY <3>3, PlaceDoes DEF Store, Busy, At
    <3> QED
      BY <1>7, <3>1, <3>2, <3>3
  <2>2. worker[t].next < worker[t].count
    BY <1>1, <2>1
  <2>3. At(t, "sending")' => messages'[worker[t].id] # NoMessage
    <3>1. CASE ReadNextId(t)
      BY <3>1, ReadNextIdDoes DEF At
    <3>2. CASE WriteNextId(t)
      BY <3>2, PlaceDoes DEF WriteNextId, At
    <3>3. CASE Store(t)
      <4>1. worker[t].id \in Id /\ worker[t].call \in Object
        BY <2>1, NextFrameType, Objects
      <4> QED
        BY <3>3, <4>1, Objects DEF Store, TypeOK
    <3> QED
      BY <1>7, <3>1, <3>2, <3>3
  <2> QED
    BY <1>6, <2>1, <2>2, <2>3
<1>8. ASSUME NEW t \in ApiThreads, TransmitChunk(t) \/ TransmitRaises(t)
      PROVE  Senders'
  <2>1. Busy(t) /\ Others(t) /\ worker[t].next \in Nat /\ worker[t].pc = "sending"
    BY <1>8, TransmitDoes DEF Busy
  <2>2. CASE worker'[t].pc = "idle"
    BY <1>4, <2>1, <2>2 DEF Busy
  <2>3. CASE /\ SameCall(t) /\ worker[t].next + 1 # worker[t].count
             /\ worker'[t].next = worker[t].next + 1
    <3>1. worker[t].next < worker[t].count /\ worker[t].count \in Nat
      BY <1>1, <2>1, Bounds
    <3>2. worker'[t].next < worker[t].count
      BY <2>1, <2>3, <3>1
    <3>3. messages'[worker[t].id] # NoMessage
      BY <1>0, <1>1, <2>1 DEF At
    <3> QED
      BY <1>6, <2>1, <2>3, <3>2, <3>3
  <2> QED
    BY <1>8, <2>2, <2>3, TransmitDoes
<1>9. ASSUME UNCHANGED worker
      PROVE  Senders'
  <2>1. \A u \in ApiThreads : Busy(u)' => Works(u)'
    BY <1>3, <1>9 DEF Busy
  <2>2. \A u, v \in ApiThreads : (Busy(u)' /\ Busy(v)' /\ worker'[v].call = worker'[u].call) => v = u
    BY <1>2, <1>9 DEF Busy
  <2> QED
    BY <2>1, <2>2 DEF Senders
<1> QED
  BY <1>5, <1>7, <1>8, <1>9 DEF Next, SendStep, DeliverAny, Deliver, EnterPlaceholder, vars

\* The table goes on naming objects with the right ids.
LEMMA NextTable ==
  ASSUME TypeOK, Senders, Named, Table, [Next]_vars
  PROVE  /\ Table'
         /\ \A o \in Object : (o \in Call => o \in Called) => (IdAt(o)' = IdAt(o))
<1>0. /\ Called \subseteq Call /\ (\A c \in Called : idOf'[c] = idOf[c] /\ idOf[c] \in Id)
      /\ \A c \in Call : c \notin Called => idOf[c] = 0
  BY IdsStay
<1>1. ASSUME NEW o \in Object, o \in Call => o \in Called
      PROVE  IdAt(o)' = IdAt(o)
  BY <1>0, <1>1 DEF IdAt
<1>2. \A m \in Id : messages[m] \in Object \union {NoMessage}
  BY DEF TypeOK
<1>3. ASSUME NEW m \in Id, NEW o, messages[m] = o, o # NoMessage
      PROVE  IdAt(o)' = m
  <2>1. IdAt(o) = m /\ o \in Object /\ m # 0
    BY <1>2, <1>3 DEF Table, Id
  <2>2. o \in Call => o \in Called
    BY <1>0, <2>1 DEF IdAt
  <2> QED
    BY <1>1, <2>1, <2>2
<1>4. ASSUME NEW t \in ApiThreads, Store(t)
      PROVE  Table'
  <2>1. /\ worker[t].call \in Called /\ worker[t].id = idOf[worker[t].call]
        /\ worker[t].id \in Id /\ worker[t].call \in Call
    BY <1>4, NextFrameType DEF Store, At, Busy, Senders
  <2>2. PICK c \in Called : c = worker[t].call /\ c \in Call
    BY <2>1
  <2>3. IdAt(c)' = worker[t].id
    BY <1>0, <2>1, <2>2 DEF IdAt
  <2>4. \A m \in Id : messages'[m] = IF m = worker[t].id THEN c ELSE messages[m]
    BY <1>4, <2>1, <2>2 DEF Store, TypeOK
  <2> QED
    BY <1>3, <2>3, <2>4 DEF Table
<1>5. ASSUME NEW f \in unknown, EnterPlaceholder(f)
      PROVE  Table'
  <2>1. f \in Frame /\ f.id \in Id
    BY DEF TypeOK, Frame
  <2>2. IdAt(Placeholder(f.id))' = f.id
    BY <2>1, Objects DEF IdAt
  <2>3. messages'[f.id] = Placeholder(f.id) /\ \A m \in Id : m # f.id => messages'[m] = messages[m]
    BY <1>5, <2>1, EnterDoes
  <2> QED
    BY <1>3, <2>2, <2>3 DEF Table
<1>6. ASSUME UNCHANGED messages
      PROVE  Table'
  BY <1>3, <1>6 DEF Table
<1> QED
  BY <1>1, <1>4, <1>5, <1>6
     DEF Next, SendStep, DeliverAny, Deliver, Receive, NotFound, Miss, Send, ReadNextId, WriteNextId,
         TransmitChunk, TransmitRaises, Transmit, report, vars

\* An intact frame goes on telling where its piece belongs.
LEMMA NextIntact ==
  ASSUME TypeOK, Senders, Named, IntactTell, [Next]_vars
  PROVE  IntactTell'
<1>0. Called \subseteq Called' /\ \A c \in Called : idOf'[c] = idOf[c]
  BY IdsStay
<1>1. \A f \in inFlight \union unknown : f.kind = "intact" =>
        f.of[1] \in Called' /\ f.id = idOf'[f.of[1]] /\ f.index = f.of[2]
  BY <1>0 DEF IntactTell
<1>2. ASSUME NEW t \in ApiThreads, TransmitChunk(t) \/ TransmitRaises(t)
      PROVE  IntactTell'
  <2>1. Transmit(t) /\ Busy(t) /\ UNCHANGED unknown
    BY <1>2, TransmitDoes DEF Busy, Transmit
  <2>2. \A f \in Frame : f = NextFrame(worker[t]) =>
          f.of[1] \in Called' /\ f.id = idOf'[f.of[1]] /\ f.index = f.of[2]
    BY <1>0, <2>1, NextFrameType DEF Senders
  <2>3. ASSUME NEW f \in Frame, inFlight' = inFlight \union {f},
               f.kind = "intact" => f = NextFrame(worker[t])
        PROVE  IntactTell'
    BY <1>1, <2>1, <2>2, <2>3 DEF IntactTell
  <2>4. CASE UNCHANGED inFlight
    BY <1>1, <2>1, <2>4 DEF IntactTell
  <2> QED
    BY <2>1, <2>3, <2>4, FrameDoes
<1>3. CASE (inFlight \union unknown)' \subseteq inFlight \union unknown
  BY <1>1, <1>3 DEF IntactTell
<1> QED
  BY <1>2, <1>3
     DEF Next, SendStep, DeliverAny, Deliver, Receive, NotFound, Miss, EnterPlaceholder, Send,
         ReadNextId, WriteNextId, Store, report, vars

\* Only send builds a message.
LEMMA NextBuilt ==
  ASSUME TypeOK, Senders, Named, Built, [Next]_vars
  PROVE  Built'
<1>0. Called \subseteq Called' /\ Called \subseteq Call /\ calls \in Nat
  BY IdsStay DEF TypeOK
<1>1. ASSUME NEW t \in ApiThreads, NEW n \in ChunkCounts, Send(t, n), NEW c \in Call, c \notin Called'
      PROVE  chunks'[c] = << >>
  <2>1. c # calls + 1 /\ c \notin Called
    BY <1>0, <1>1 DEF Send, Called
  <2> QED
    BY <1>1, <2>1 DEF Send, TypeOK, Built
<1>2. ASSUME NEW f \in Frame, messages[f.id] # NoMessage, NEW c \in Call, c \notin Called',
             chunks' = [chunks EXCEPT ![messages[f.id]] = Filled(@, f)]
      PROVE  chunks'[c] = << >>
  <2>1. c \in Object /\ chunks[c] = << >> /\ Len(chunks'[c]) = Len(chunks[c])
        /\ chunks'[c] \in Seq(Chunk)
    BY <1>0, <1>2, ReceiveDoes, Objects DEF Built
  <2> QED
    BY <2>1
<1>3. ASSUME NEW f \in unknown, EnterPlaceholder(f), NEW c \in Call, c \notin Called'
      PROVE  chunks'[c] = << >>
  <2>1. f \in Frame /\ f.id \in Id
    BY DEF TypeOK, Frame
  <2>2. c # Placeholder(f.id) /\ c \in Object
    BY <2>1, Objects
  <2> QED
    BY <1>0, <1>3, <2>1, <2>2, EnterDoes DEF Built
<1>4. CASE UNCHANGED chunks
  BY <1>0, <1>4 DEF Built
<1>5. ASSUME NEW f \in inFlight, Deliver(f)
      PROVE  Built'
  <2>1. f \in Frame
    BY DEF TypeOK
  <2> QED
    BY <1>2, <1>4, <1>5, <2>1 DEF Deliver, Receive, NotFound, Miss, report, Built
<1> QED
  BY <1>1, <1>3, <1>4, <1>5
     DEF Next, SendStep, DeliverAny, ReadNextId, WriteNextId, Store, TransmitChunk, TransmitRaises,
         Transmit, report, vars, Built

\* A chunk is delivered by an intact frame for its id and index.
LEMMA NextDeliveries ==
  ASSUME TypeOK, Senders, Named, Built, Table, IntactTell, Deliveries, [Next]_vars
  PROVE  Deliveries'
<1>0. /\ Called \subseteq Call /\ (\A c \in Called : idOf'[c] = idOf[c] /\ idOf[c] \in Id)
      /\ (\A c \in Call : c \notin Called => idOf[c] = 0) /\ arrived \subseteq arrived'
  BY IdsStay, TableGrows
<1>1. ASSUME NEW o \in Object, NEW i \in 1 .. Len(chunks[o]), chunks[o][i].status = "DELIVERED"
      PROVE  \E c \in Call : idOf'[c] = IdAt(o)' /\ <<c, i - 1>> \in arrived'
  <2>1. PICK c \in Call : idOf[c] = IdAt(o) /\ <<c, i - 1>> \in arrived
    BY <1>1 DEF Deliveries
  <2>2. CASE o \in Call => o \in Called
    <3>1. IdAt(o)' = IdAt(o)
      BY <2>2, NextTable
    <3>2. IdAt(o) # 0
      BY <1>0, <2>2, Objects DEF IdAt, Object, Id, Placeholder
    <3>3. c \in Called
      BY <1>0, <2>1, <3>2
    <3> QED
      BY <1>0, <2>1, <3>1, <3>3
  <2>3. CASE o \in Call /\ o \notin Called
    <3>1. chunks[o] = << >>
      BY <2>3 DEF Built
    <3> QED BY <3>1
  <2> QED BY <2>2, <2>3
<1>2. ASSUME NEW o \in Object, chunks'[o] = chunks[o], NEW i \in 1 .. Len(chunks'[o]),
             chunks'[o][i].status = "DELIVERED"
      PROVE  \E c \in Call : idOf'[c] = IdAt(o)' /\ <<c, i - 1>> \in arrived'
  BY <1>1, <1>2
<1>3. ASSUME NEW t \in ApiThreads, NEW n \in ChunkCounts, Send(t, n)
      PROVE  Deliveries'
  <2>1. calls + 1 \in Call /\ chunks' = [chunks EXCEPT ![calls + 1] = Split(calls + 1, n)]
    BY <1>3, Bounds DEF Send, TypeOK, Call
  <2>2. /\ chunks'[calls + 1] = Split(calls + 1, n)
        /\ \A o \in Object : o # calls + 1 => chunks'[o] = chunks[o]
    BY <2>1, Objects DEF TypeOK
  <2>3. \A i \in 1 .. Len(Split(calls + 1, n)) : Split(calls + 1, n)[i].status = "SENT"
    BY <2>1, SplitType
  <2> QED
    BY <1>2, <2>2, <2>3 DEF Deliveries
<1>4. ASSUME NEW f \in inFlight, Deliver(f), Receive(f)
      PROVE  Deliveries'
  <2>1. f \in Frame /\ f.of \in Piece
    BY DEF TypeOK, Frame
  <2>2. /\ f.id \in Id /\ messages[f.id] \in Object /\ messages[f.id] # NoMessage
        /\ \A o \in Object :
              /\ Len(chunks'[o]) = Len(chunks[o])
              /\ \A i \in 1 .. Len(chunks[o]) :
                   chunks'[o][i] = IF o = messages[f.id] /\ i = f.index + 1 THEN Arrival(f)
                                   ELSE chunks[o][i]
    BY <1>4, <2>1, ReceiveDoes DEF Receive
  <2>3. ASSUME NEW o \in Object, o = messages[f.id], NEW i \in 1 .. Len(chunks[o]), i = f.index + 1,
               f.kind = "intact"
        PROVE  \E c \in Call : idOf'[c] = IdAt(o)' /\ <<c, i - 1>> \in arrived'
    <3>1. PICK c \in Call, k \in Index : f.of = <<c, k>>
      BY <2>1 DEF Piece
    <3>2. c \in Called /\ f.id = idOf[c] /\ f.index = k
      BY <2>3, <3>1 DEF IntactTell
    <3>3. k \in Nat /\ i - 1 = k
      BY <2>3, <3>2, Bounds
    <3>4. f.of \in arrived'
      BY <1>4, <2>1, <2>3, ArrivalDoes DEF Receive
    <3>5. IdAt(o) = f.id /\ f.id # 0
      BY <2>2, <2>3 DEF Table, Id
    <3>6. o \in Call => o \in Called
      BY <1>0, <3>5 DEF IdAt
    <3>7. IdAt(o)' = f.id
      BY <3>5, <3>6, NextTable
    <3> QED
      BY <1>0, <3>1, <3>2, <3>3, <3>4, <3>7
  <2>4. ASSUME NEW o \in Object, NEW i \in 1 .. Len(chunks'[o]), chunks'[o][i].status = "DELIVERED"
        PROVE  \E c \in Call : idOf'[c] = IdAt(o)' /\ <<c, i - 1>> \in arrived'
    <3>1. i \in 1 .. Len(chunks[o])
      BY <2>2
    <3>2. CASE o = messages[f.id] /\ i = f.index + 1
      <4>1. chunks'[o][i] = Arrival(f)
        BY <2>2, <3>1, <3>2
      <4>2. f.kind = "intact"
        BY <2>4, <4>1 DEF Arrival
      <4> QED
        BY <2>3, <3>1, <3>2, <4>2
    <3>3. CASE ~(o = messages[f.id] /\ i = f.index + 1)
      <4>1. chunks'[o][i] = chunks[o][i]
        BY <2>2, <3>1, <3>3
      <4> QED
        BY <1>1, <2>4, <3>1, <4>1
    <3> QED
      BY <3>2, <3>3
  <2> QED
    BY <2>4 DEF Deliveries
<1>5. ASSUME NEW f \in unknown, EnterPlaceholder(f)
      PROVE  Deliveries'
  <2>1. f \in Frame /\ f.of \in Piece /\ f.index \in Nat
    BY Bounds DEF TypeOK, Frame
  <2>2. /\ f.id \in Id /\ Placeholder(f.id) \in Object
        /\ \A o \in Object : o # Placeholder(f.id) => chunks'[o] = chunks[o]
        /\ \A i \in 1 .. Len(chunks'[Placeholder(f.id)]) :
              chunks'[Placeholder(f.id)][i].status = "DELIVERED" =>
                i = f.index + 1 /\ f.kind = "intact"
    BY <1>5, <2>1, EnterDoes
  <2>3. ASSUME NEW i \in 1 .. Len(chunks'[Placeholder(f.id)]),
               chunks'[Placeholder(f.id)][i].status = "DELIVERED"
        PROVE  \E c \in Call : idOf'[c] = IdAt(Placeholder(f.id))' /\ <<c, i - 1>> \in arrived'
    <3>1. PICK c \in Call, k \in Index : f.of = <<c, k>>
      BY <2>1 DEF Piece
    <3>2. f.kind = "intact" /\ i = f.index + 1
      BY <2>2, <2>3
    <3>3. c \in Called /\ f.id = idOf[c] /\ f.index = k
      BY <3>1, <3>2 DEF IntactTell
    <3>4. i - 1 = k
      BY <2>1, <3>2, <3>3
    <3>5. f.of \in arrived'
      BY <1>5, <2>1, <3>2, ArrivalDoes DEF EnterPlaceholder
    <3>6. IdAt(Placeholder(f.id))' = f.id
      BY <2>2, Objects DEF IdAt
    <3> QED
      BY <1>0, <3>1, <3>3, <3>4, <3>5, <3>6
  <2> QED
    BY <1>2, <2>2, <2>3 DEF Deliveries
<1>6. CASE UNCHANGED chunks
  BY <1>2, <1>6 DEF Deliveries
<1> QED
  BY <1>3, <1>4, <1>5, <1>6
     DEF Next, SendStep, DeliverAny, Deliver, NotFound, Miss, ReadNextId, WriteNextId, Store,
         TransmitChunk, TransmitRaises, Transmit, report, vars

\* The invariant of every interleaving.
LEMMA NextBase == BaseInv /\ [Next]_vars => BaseInv'
  BY NextCounter, NextTypes, IdsStay, NextSenders, NextBuilt, NextTable, NextIntact, NextDeliveries
     DEF BaseInv


-------------------------------------------------------------------------------
(* Calls of send that do not overlap *)

\* Calls that do not overlap get the ids 1, 2, 3 ...
LEMMA NextSequential ==
  ASSUME BaseInv, alone => Sequential, [Next]_vars, alone'
  PROVE  alone /\ Sequential /\ Sequential'
<1>0. TypeOK /\ Senders
  BY DEF BaseInv
<1>a. alone /\ Sequential
  BY DEF Next, SendStep, DeliverAny, Deliver, EnterPlaceholder, Send, ReadNextId, WriteNextId, Store,
         TransmitChunk, TransmitRaises, Transmit, vars
<1>b. calls \in Nat /\ nextId \in Nat
  BY <1>0 DEF TypeOK
<1>1. ASSUME NEW t \in ApiThreads, NEW n \in ChunkCounts, Send(t, n)
      PROVE  Sequential'
  <2>1. \A u \in ApiThreads : ~Busy(u)
    BY <1>1 DEF Send, Busy, At
  <2>2. nextId = calls + 1 /\ calls' = calls + 1 /\ nextId' = nextId
    BY <1>1, <1>a, <2>1 DEF Sequential, Send
  <2>3. \A u \in ApiThreads : Busy(u)' => u = t
    BY <1>0, <1>1, <2>1, SendDoes DEF Others, Busy
  <2>4. /\ Busy(t)' /\ worker'[t].pc = "named"
        /\ worker'[t].call = calls' /\ nextId' = calls'
    BY <1>0, <1>1, <2>2, SendDoes DEF Busy
  <2>5. \A c \in 1 .. calls' : idOf'[c] = c
    <3>1. idOf' = [idOf EXCEPT ![calls + 1] = calls + 1] /\ calls + 1 \in Call
      BY <1>1, <1>b, <2>2, Bounds DEF Send, Call
    <3>2. \A c \in 1 .. calls : c \in Call /\ c # calls + 1 /\ idOf[c] = c
      BY <1>0, <1>a, <1>b, Bounds DEF Sequential, TypeOK, Call
    <3>3. \A c \in 1 .. calls + 1 : c \in 1 .. calls \/ c = calls + 1
      BY <1>b
    <3> QED
      BY <1>0, <2>2, <3>1, <3>2, <3>3 DEF TypeOK
  <2> QED
    BY <2>3, <2>4, <2>5 DEF Sequential, At
<1>2. ASSUME NEW t \in ApiThreads, Others(t), Busy(t), UNCHANGED <<calls, idOf>>,
             Busy(t)' => /\ SameCall(t)
                         /\ nextId' = IF worker'[t].pc \in {"named", "counted"} THEN calls
                                      ELSE calls + 1
                         /\ At(t, "counted")' => worker'[t].read = calls,
             ~Busy(t)' => nextId' = calls + 1
      PROVE  Sequential'
  <2>1. \A u \in ApiThreads : Busy(u)' => u = t
    BY <1>2, <1>a DEF Sequential, Others, Busy
  <2>2. worker[t].call = calls
    BY <1>2, <1>a DEF Sequential
  <2> QED
    BY <1>2, <1>a, <2>1, <2>2 DEF Sequential, SameCall
<1>3. ASSUME NEW t \in ApiThreads, ReadNextId(t)
      PROVE  Sequential'
  <2>1. /\ Busy(t) /\ Others(t) /\ SameCall(t) /\ worker'[t].pc = "counted" /\ Busy(t)'
        /\ worker'[t].read = nextId /\ worker[t].pc = "named"
    BY <1>0, <1>3, ReadNextIdDoes DEF Busy
  <2>2. nextId = calls /\ nextId' = nextId /\ UNCHANGED <<calls, idOf>>
    BY <1>3, <1>a, <2>1 DEF ReadNextId, Sequential
  <2> QED
    BY <1>2, <2>1, <2>2
<1>4. ASSUME NEW t \in ApiThreads, WriteNextId(t)
      PROVE  Sequential'
  <2>1. /\ Busy(t) /\ Others(t) /\ SameCall(t) /\ worker'[t].pc = "numbered" /\ Busy(t)'
        /\ At(t, "counted")
    BY <1>0, <1>4, PlaceDoes DEF WriteNextId, Busy, At
  <2>2. nextId' = calls + 1 /\ UNCHANGED <<calls, idOf>>
    BY <1>4, <1>a, <2>1 DEF WriteNextId, Sequential
  <2> QED
    BY <1>2, <2>1, <2>2 DEF At
<1>5. ASSUME NEW t \in ApiThreads, Store(t)
      PROVE  Sequential'
  <2>1. /\ Busy(t) /\ Others(t) /\ SameCall(t) /\ worker'[t].pc = "sending" /\ Busy(t)'
        /\ worker[t].pc = "numbered"
    BY <1>0, <1>5, PlaceDoes DEF Store, Busy, At
  <2>2. nextId' = calls + 1 /\ UNCHANGED <<calls, idOf>>
    BY <1>5, <1>a, <2>1 DEF Store, Sequential
  <2> QED
    BY <1>2, <2>1, <2>2 DEF At
<1>6. ASSUME NEW t \in ApiThreads, TransmitChunk(t) \/ TransmitRaises(t)
      PROVE  Sequential'
  <2>1. /\ Busy(t) /\ Others(t) /\ worker[t].pc = "sending" /\ Transmit(t)
        /\ Busy(t)' => SameCall(t) /\ worker'[t].pc = "sending"
    BY <1>0, <1>6, TransmitDoes DEF Busy
  <2>2. nextId' = calls + 1 /\ UNCHANGED <<calls, idOf>>
    BY <1>a, <2>1 DEF Transmit, Sequential
  <2> QED
    BY <1>2, <2>1, <2>2 DEF At
<1>7. CASE UNCHANGED <<worker, nextId, calls, idOf>>
  BY <1>7, <1>a DEF Sequential, Busy, At
<1> QED
  BY <1>a, <1>1, <1>3, <1>4, <1>5, <1>6, <1>7
     DEF Next, SendStep, DeliverAny, Deliver, EnterPlaceholder, vars

-------------------------------------------------------------------------------
(* While noise spares the headers *)

\* Pieces that are out are pieces, of calls that were made.
LEMMA OutType ==
  ASSUME TypeOK, Sent
  PROVE  /\ Out \subseteq Piece
         /\ \A p \in Out : p[1] \in Called
         /\ \A f \in inFlight : f \in Frame /\ f.of \in Out /\ f.of[1] \in Called
<1>1. Out \subseteq Piece
  BY DEF Out, Over, TypeOK, Frame
<1> QED
  BY <1>1 DEF Out, TypeOK, Sent

\* send begins: nothing of the new call is out yet.
LEMMA SendKeepsClean ==
  ASSUME BaseInv, Clean, NEW t \in ApiThreads, NEW n \in ChunkCounts, Send(t, n)
  PROVE  Clean'
<1>0. TypeOK /\ Senders /\ Named /\ calls \in Nat /\ [Next]_vars
  BY DEF BaseInv, TypeOK, Next, SendStep
<1>1. /\ Known /\ FramesTell /\ Sent /\ Exact
      /\ Called \subseteq Called' /\ Called \subseteq Call
      /\ (\A c \in Called : idOf'[c] = idOf[c] /\ idOf[c] \in Id)
      /\ (\A c \in Called : HasOwnId(c)' => HasOwnId(c))
  BY <1>0, IdsStay DEF Clean
<1>2. /\ calls' = calls + 1 /\ calls + 1 \in Call /\ calls + 1 \notin Called
      /\ UNCHANGED <<messages, inFlight, unknown, arrived, damaged>>
      /\ chunks'[calls + 1] = Split(calls + 1, n)
      /\ \A c \in Call : c # calls + 1 => chunks'[c] = chunks[c] /\ idOf'[c] = idOf[c]
  BY <1>0, Bounds, Objects DEF Send, TypeOK, Call, Called
<1>3. Out' = Out /\ Over' = Over
  BY <1>2 DEF Out, Over
<1>4. \A i : <<calls + 1, i>> \notin Out
  BY <1>0, <1>1, <1>2, OutType
<1>5. Known'
  BY <1>1, <1>2 DEF Known
<1>6. FramesTell'
  <2>1. \A f \in inFlight : f.of[1] \in Called
    BY <1>0, <1>1, OutType
  <2> QED
    BY <1>1, <1>2, <1>3, <2>1 DEF FramesTell
<1>7. Sent'
  <2>1. \A p \in Out : p[1] \in Called' /\ messages'[idOf'[p[1]]] # NoMessage
                       /\ p[2] < Len(chunks'[p[1]])
    BY <1>1, <1>2 DEF Sent
  <2>2. ASSUME NEW u \in ApiThreads, Busy(u)', NEW i \in Index, i >= worker'[u].next
        PROVE  <<worker'[u].call, i>> \notin Out
    <3>1. CASE u = t
      BY <1>0, <1>4, <3>1, SendDoes
    <3>2. CASE u # t
      <4>1. worker'[u] = worker[u]
        BY <1>0, <3>2, SendDoes DEF Others
      <4> QED
        BY <1>1, <2>2, <4>1 DEF Sent, Busy
    <3> QED
      BY <3>1, <3>2
  <2> QED
    BY <1>3, <2>1, <2>2 DEF Sent
<1>8. Exact'
  <2>1. ASSUME NEW c \in Call, HasOwnId(c)', NEW i \in 1 .. Len(chunks'[c])
        PROVE  /\ chunks'[c][i].status = "DELIVERED" <=> <<c, i - 1>> \in arrived
               /\ chunks'[c][i].status = "CORRUPTED" <=> <<c, i - 1>> \in damaged
               /\ chunks'[c][i].status = "CORRUPTED" \/ chunks'[c][i].text = <<c, i - 1>>
    <3>1. CASE c = calls + 1
      <4>1. chunks'[c][i].status = "SENT" /\ chunks'[c][i].text = <<c, i - 1>>
        BY <1>2, <2>1, <3>1, SplitType
      <4>2. <<c, i - 1>> \notin arrived /\ <<c, i - 1>> \notin damaged
        BY <1>4, <3>1 DEF Out, Over
      <4> QED
        BY <4>1, <4>2
    <3>2. CASE c # calls + 1
      <4>1. c \in Called
        BY <1>0, <1>2, <2>1, <3>2 DEF HasOwnId, Named
      <4>2. chunks'[c] = chunks[c] /\ HasOwnId(c)
        BY <1>1, <1>2, <2>1, <3>2, <4>1
      <4> QED
        BY <1>1, <2>1, <4>2 DEF Exact
    <3> QED
      BY <3>1, <3>2
  <2> QED
    BY <1>2, <2>1 DEF Exact
<1> QED
  BY <1>5, <1>6, <1>7, <1>8 DEF Clean

\* A step within send that transmits nothing.
LEMMA StoreKeepsClean ==
  ASSUME BaseInv, Clean, NEW t \in ApiThreads, ReadNextId(t) \/ WriteNextId(t) \/ Store(t)
  PROVE  Clean'
<1>0. TypeOK /\ Senders /\ Named /\ [Next]_vars
  BY DEF BaseInv, Next, SendStep
<1>1. Known /\ FramesTell /\ Sent /\ Exact
  BY DEF Clean
<1>2. /\ UNCHANGED <<chunks, inFlight, unknown, calls, idOf, arrived, damaged>>
      /\ Busy(t) /\ Others(t) /\ SameCall(t) /\ worker'[t].next = worker[t].next
  <2>1. CASE ReadNextId(t)
    BY <1>0, <2>1, ReadNextIdDoes DEF ReadNextId, report, Busy
  <2>2. CASE WriteNextId(t)
    BY <1>0, <2>2, PlaceDoes DEF WriteNextId, report, Busy, At
  <2>3. CASE Store(t)
    BY <1>0, <2>3, PlaceDoes DEF Store, Busy, At
  <2> QED
    BY <2>1, <2>2, <2>3
<1>3. Out' = Out /\ Over' = Over /\ Called' = Called /\ \A c : HasOwnId(c)' = HasOwnId(c)
  BY <1>2 DEF Out, Over, Called, HasOwnId
<1>4. Known'
  <2>1. UNCHANGED messages \/ messages' = [messages EXCEPT ![worker[t].id] = worker[t].call]
    BY DEF ReadNextId, WriteNextId, Store, report
  <2>2. worker[t].call \in Called
    BY <1>0, <1>2 DEF Senders
  <2> QED
    BY <1>0, <1>1, <1>2, <1>3, <2>1, <2>2 DEF Known, TypeOK
<1>5. FramesTell'
  BY <1>1, <1>2, <1>3 DEF FramesTell
<1>6. Sent'
  <2>1. \A p \in Out : p[1] \in Called' /\ messages'[idOf'[p[1]]] # NoMessage
                       /\ p[2] < Len(chunks'[p[1]])
    BY <1>0, <1>1, <1>2, <1>3, TableGrows, IdsStay DEF Sent
  <2>2. \A u \in ApiThreads : Busy(u)' => Busy(u) /\ worker'[u].call = worker[u].call
                                          /\ worker'[u].next = worker[u].next
    BY <1>2 DEF Others, SameCall, Busy
  <2> QED
    BY <1>1, <1>3, <2>1, <2>2 DEF Sent
<1>7. Exact'
  BY <1>1, <1>2, <1>3 DEF Exact
<1> QED
  BY <1>4, <1>5, <1>6, <1>7 DEF Clean

\* A piece goes out for the first time, with the text that was split.
LEMMA TransmitKeepsClean ==
  ASSUME BaseInv, Clean, headerHits = 0, headerHits' = 0,
         NEW t \in ApiThreads, TransmitChunk(t) \/ TransmitRaises(t)
  PROVE  Clean'
<1>0. TypeOK /\ Senders /\ Named
  BY DEF BaseInv
<1>1. Known /\ FramesTell /\ Sent /\ Exact
  BY DEF Clean
<1>2. /\ Transmit(t) /\ Others(t) /\ worker[t].pc = "sending" /\ worker[t].next \in Nat /\ Busy(t)
      /\ \/ worker'[t].pc = "idle"
         \/ SameCall(t) /\ worker'[t].pc = "sending" /\ worker'[t].next = worker[t].next + 1
  BY <1>0, TransmitDoes DEF Busy
<1>3. UNCHANGED <<messages, chunks, unknown, calls, idOf, arrived, damaged>>
  BY <1>2 DEF Transmit, report
<1>4. PICK c \in Call, k \in Nat : c = worker[t].call /\ k = worker[t].next
  BY <1>0, <1>2, NextFrameType
<1>5. /\ c \in Called /\ idOf[c] = worker[t].id /\ k \in Index /\ k + 1 \in 1 .. Len(chunks[c])
      /\ k < Len(chunks[c]) /\ messages[idOf[c]] # NoMessage
      /\ NextFrame(worker[t]).text = chunks[c][k + 1].text
  BY <1>0, <1>2, <1>4, NextFrameType DEF Senders, At
<1>6. <<c, k>> \notin Out /\ <<c, k>> \notin Over
  BY <1>1, <1>2, <1>4, <1>5 DEF Sent, Out
<1>7. HasOwnId(c) => NextFrame(worker[t]).text = <<c, k>>
  <2>1. (k + 1) - 1 = k
    OBVIOUS
  <2>2. HasOwnId(c) => /\ chunks[c][k + 1].status = "CORRUPTED" <=> <<c, k>> \in damaged
                       /\ chunks[c][k + 1].status = "CORRUPTED" \/ chunks[c][k + 1].text = <<c, k>>
    BY <1>1, <1>5, <2>1 DEF Exact
  <2> QED
    BY <1>5, <1>6, <2>2 DEF Over
<1>8. \/ UNCHANGED inFlight
      \/ \E f \in Frame :
           /\ inFlight' = inFlight \union {f} /\ f.of = <<c, k>> /\ f.id = idOf[c] /\ f.index = k
           /\ (HasOwnId(c) /\ f.kind = "intact") => f.text = f.of
  <2>1. headerHits' # headerHits + 1
    OBVIOUS
  <2> QED
    BY <1>0, <1>2, <1>4, <1>5, <1>7, <2>1, FrameDoes
<1>9. Over' = Over /\ Called' = Called /\ (\A d : HasOwnId(d)' = HasOwnId(d))
      /\ (Out' = Out \/ Out' = Out \union {<<c, k>>})
  BY <1>3, <1>8 DEF Out, Over, Called, HasOwnId
<1>10. Known'
  BY <1>1, <1>3, <1>9 DEF Known
<1>11. FramesTell'
  <2>1. CASE UNCHANGED inFlight
    BY <1>1, <1>3, <1>9, <2>1 DEF FramesTell
  <2>2. ASSUME NEW f \in Frame, inFlight' = inFlight \union {f}, f.of = <<c, k>>, f.id = idOf[c],
               f.index = k, (HasOwnId(c) /\ f.kind = "intact") => f.text = f.of
        PROVE  FramesTell'
    <3>1. \A g \in inFlight : g.of \in Out /\ g.of # f.of
      BY <1>6, <2>2 DEF Out
    <3>2. /\ f.id = idOf[f.of[1]] /\ f.index = f.of[2] /\ f.of \notin Over
          /\ (HasOwnId(f.of[1]) /\ f.kind = "intact") => f.text = f.of
      BY <1>6, <2>2
    <3>3. \A g, h \in inFlight' : g.of = h.of => g = h
      BY <1>1, <2>2, <3>1 DEF FramesTell
    <3> QED
      BY <1>1, <1>3, <1>9, <2>2, <3>2, <3>3 DEF FramesTell
  <2> QED
    BY <1>8, <2>1, <2>2
<1>12. Sent'
  <2>1. \A p \in Out' : p[1] \in Called' /\ messages'[idOf'[p[1]]] # NoMessage
                        /\ p[2] < Len(chunks'[p[1]])
    BY <1>1, <1>3, <1>5, <1>9 DEF Sent
  <2>2. ASSUME NEW u \in ApiThreads, Busy(u)', NEW i \in Index, i >= worker'[u].next
        PROVE  <<worker'[u].call, i>> \notin Out'
    <3>1. CASE u = t
      <4>1. worker'[t].call = c /\ worker'[t].next = k + 1
        BY <1>2, <1>4, <2>2, <3>1 DEF SameCall, Busy
      <4>2. i \in Nat /\ i >= k + 1
        BY <2>2, <3>1, <4>1, Bounds
      <4>3. i # k /\ i >= k
        BY <4>2
      <4>4. <<c, i>> \notin Out
        BY <1>1, <1>2, <1>4, <4>3 DEF Sent
      <4> QED
        BY <1>9, <3>1, <4>1, <4>3, <4>4
    <3>2. CASE u # t
      <4>1. worker'[u] = worker[u] /\ Busy(u)
        BY <1>2, <2>2, <3>2 DEF Others, Busy
      <4>2. worker[u].call # c
        BY <1>0, <1>2, <1>4, <3>2, <4>1 DEF Senders
      <4>3. <<worker[u].call, i>> \notin Out
        BY <1>1, <2>2, <4>1 DEF Sent
      <4> QED
        BY <1>9, <4>1, <4>2, <4>3
    <3> QED
      BY <3>1, <3>2
  <2> QED
    BY <2>1, <2>2 DEF Sent
<1>13. Exact'
  BY <1>1, <1>3, <1>9 DEF Exact
<1> QED
  BY <1>10, <1>11, <1>12, <1>13 DEF Clean

\* A frame arrives, or is missed: its piece was not counted before.
LEMMA DeliverKeepsClean ==
  ASSUME BaseInv, Clean, NEW f \in inFlight, Deliver(f)
  PROVE  Clean'
<1>0. TypeOK /\ Table /\ f \in Frame /\ f.of \in Out /\ Known /\ FramesTell /\ Sent /\ Exact
  BY DEF BaseInv, Clean, TypeOK, Out
<1>1. UNCHANGED <<worker, calls, idOf>> /\ inFlight' = inFlight \ {f}
  BY DEF Deliver
<1>2. Called' = Called /\ (\A c : HasOwnId(c)' = HasOwnId(c)) /\ Called \subseteq Call
  BY <1>0, <1>1, Bounds DEF Called, HasOwnId, TypeOK, Call
<1>3. CASE Miss(f)
  <2>1. UNCHANGED <<messages, chunks, arrived, damaged, unknown>>
    BY <1>3 DEF Miss, report
  <2>2. Out' \subseteq Out /\ Over' = Over
    BY <1>1, <2>1 DEF Out, Over
  <2>3. Known' /\ Exact'
    BY <1>0, <1>2, <2>1 DEF Known, Exact
  <2>4. FramesTell'
    BY <1>0, <1>1, <1>2, <2>2 DEF FramesTell
  <2>5. Sent'
    BY <1>0, <1>1, <1>2, <2>1, <2>2 DEF Sent, Busy
  <2> QED
    BY <2>3, <2>4, <2>5 DEF Clean
<1>4. ~NotFound(f)
  <2>1. f.id = idOf[f.of[1]] /\ messages[idOf[f.of[1]]] # NoMessage
    BY <1>0 DEF FramesTell, Sent
  <2> QED
    BY <2>1 DEF NotFound
<1>5. CASE Receive(f)
  <2>1. PICK c \in Call, k \in Index : f.of = <<c, k>>
    BY <1>0 DEF Frame, Piece
  <2>2. /\ c \in Called /\ f.id = idOf[c] /\ f.index = k /\ <<c, k>> \notin Over /\ k \in Nat
        /\ k < Len(chunks[c]) /\ (HasOwnId(c) /\ f.kind = "intact") => f.text = <<c, k>>
    BY <1>0, <2>1, Bounds DEF FramesTell, Sent
  <2>3. /\ UNCHANGED <<messages, unknown>> /\ messages[f.id] # NoMessage /\ Account(f)
        /\ f.id \in Id
    BY <1>0, <1>5 DEF Receive, Frame
  <2>4. PICK o \in Called : o = messages[f.id] /\ o \in Call /\ idOf[o] = idOf[c]
    <3>1. messages[f.id] \in Called /\ IdAt(messages[f.id]) = f.id
      BY <1>0, <2>3 DEF Known, Table
    <3> QED
      BY <1>2, <2>2, <3>1 DEF IdAt
  <2>5. \A d \in Object :
          /\ Len(chunks'[d]) = Len(chunks[d])
          /\ \A i \in 1 .. Len(chunks[d]) :
               chunks'[d][i] = IF d = o /\ i = k + 1 THEN Arrival(f) ELSE chunks[d][i]
    BY <1>0, <1>5, <2>2, <2>4, ReceiveDoes DEF Receive
  <2>6. /\ f.kind = "intact" => arrived' = arrived \union {<<c, k>>} /\ damaged' = damaged
        /\ f.kind # "intact" => damaged' = damaged \union {<<c, k>>} /\ arrived' = arrived
    BY <1>0, <2>1, <2>3, ArrivalDoes
  <2>7. Over' = Over \union {<<c, k>>} /\ Out' \subseteq Out
    <3>1. Over' = Over \union {<<c, k>>}
      BY <2>6 DEF Over
    <3> QED
      BY <1>0, <1>1, <2>1, <3>1 DEF Out
  <2>8. Known'
    BY <1>0, <1>2, <2>3 DEF Known
  <2>9. FramesTell'
    <3>1. \A g \in inFlight' : g \in inFlight /\ g.of # <<c, k>>
      BY <1>0, <1>1, <2>1 DEF FramesTell
    <3> QED
      BY <1>0, <1>1, <1>2, <2>7, <3>1 DEF FramesTell
  <2>10. Sent'
    <3>1. \A p \in Out' : p[1] \in Called' /\ messages'[idOf'[p[1]]] # NoMessage
                          /\ p[2] < Len(chunks'[p[1]])
      BY <1>0, <1>1, <1>2, <2>3, <2>5, <2>7, Objects DEF Sent
    <3> QED
      BY <1>0, <1>1, <2>7, <3>1 DEF Sent, Busy
  <2>11. Exact'
    <3>1. ASSUME NEW d \in Call, HasOwnId(d), NEW i \in 1 .. Len(chunks[d])
          PROVE  /\ chunks'[d][i].status = "DELIVERED" <=> <<d, i - 1>> \in arrived'
                 /\ chunks'[d][i].status = "CORRUPTED" <=> <<d, i - 1>> \in damaged'
                 /\ chunks'[d][i].status = "CORRUPTED" \/ chunks'[d][i].text = <<d, i - 1>>
      <4>0. /\ d \in Object /\ i \in Nat
            /\ chunks[d][i].status = "DELIVERED" <=> <<d, i - 1>> \in arrived
            /\ chunks[d][i].status = "CORRUPTED" <=> <<d, i - 1>> \in damaged
            /\ chunks[d][i].status = "CORRUPTED" \/ chunks[d][i].text = <<d, i - 1>>
        BY <1>0, <3>1, Objects DEF Exact
      <4>1. CASE d = c /\ i = k + 1
        <5>1. d = o /\ i - 1 = k
          BY <2>2, <2>4, <3>1, <4>1 DEF HasOwnId
        <5>2. chunks'[d][i] = Arrival(f)
          BY <2>5, <3>1, <4>0, <4>1, <5>1
        <5>3. <<d, i - 1>> = <<c, k>>
          BY <4>1, <5>1
        <5> QED
          BY <2>2, <2>6, <3>1, <4>1, <5>2, <5>3 DEF Arrival, Over
      <4>2. CASE ~(d = c /\ i = k + 1)
        <5>1. ~(d = o /\ i = k + 1)
          BY <2>4, <3>1, <4>2 DEF HasOwnId
        <5>2. chunks'[d][i] = chunks[d][i]
          BY <2>5, <3>1, <4>0, <5>1
        <5>3. <<d, i - 1>> # <<c, k>>
          BY <2>2, <4>0, <4>2
        <5> QED
          BY <2>6, <4>0, <5>2, <5>3
      <4> QED
        BY <4>1, <4>2
    <3> QED
      BY <1>2, <2>5, <3>1, Objects DEF Exact
  <2> QED
    BY <2>8, <2>9, <2>10, <2>11 DEF Clean
<1> QED
  BY <1>3, <1>4, <1>5 DEF Deliver

\* As long as noise spares the headers.
LEMMA NextClean ==
  ASSUME BaseInv, headerHits = 0 => Clean, [Next]_vars, headerHits' = 0
  PROVE  Clean'
<1>1. headerHits = 0 /\ Clean
  <2>1. headerHits \in Nat
    BY DEF BaseInv, TypeOK
  <2>2. UNCHANGED headerHits \/ headerHits' = headerHits + 1
    BY DEF Next, SendStep, DeliverAny, Deliver, EnterPlaceholder, Send, ReadNextId, WriteNextId,
           Store, TransmitChunk, TransmitRaises, Transmit, vars
  <2> QED
    BY <2>1, <2>2
<1>2. \A f \in unknown : ~EnterPlaceholder(f)
  BY <1>1 DEF Clean, Known
<1>3. ASSUME UNCHANGED vars
      PROVE  Clean'
  <2>1. Known' /\ Exact' /\ FramesTell'
    BY <1>1, <1>3 DEF vars, report, Clean, Known, Exact, FramesTell, Over, Called, HasOwnId
  <2>2. Sent'
    BY <1>1, <1>3 DEF vars, report, Clean, Sent, Out, Over, Called, Busy
  <2> QED
    BY <2>1, <2>2 DEF Clean
<1> QED
  BY <1>1, <1>2, <1>3, SendKeepsClean, StoreKeepsClean, TransmitKeepsClean, DeliverKeepsClean
     DEF Next, SendStep, DeliverAny

-------------------------------------------------------------------------------
(* Theorems *)

\* The invariant holds before the first call.
LEMMA InitInv == Init => Inv
<1> SUFFICES ASSUME Init PROVE Inv
  OBVIOUS
<1>0. /\ worker = [t \in ApiThreads |-> Idle] /\ messages = [m \in Id |-> NoMessage]
      /\ chunks = [o \in Object |-> << >>]
      /\ nextId = 1 /\ calls = 0 /\ idOf = [c \in Call |-> 0] /\ headerHits = 0
      /\ inFlight = {} /\ unknown = {} /\ arrived = {} /\ damaged = {}
  BY DEF Init
<1>1. \A t \in ApiThreads : ~Busy(t) /\ worker[t].pc = "idle"
  BY <1>0, IdleType DEF Busy
<1>2. TypeOK
  <2>1. worker \in [ApiThreads -> WorkerType]
    BY <1>0, IdleType
  <2>2. messages \in [Id -> Object \union {NoMessage}] /\ chunks \in [Object -> Seq(Chunk)]
    BY <1>0
  <2>3. calls \in 0 .. MaxSends /\ idOf \in [Call -> 0 .. MaxSends] /\ headerHits \in 0 .. MaxHeaderHits
    BY <1>0, Bounds
  <2>4. nextId \in 1 .. calls + 1 /\ inFlight \subseteq Frame /\ unknown \subseteq Frame
        /\ arrived \subseteq Piece /\ damaged \subseteq Piece
    BY <1>0
  <2>5. alone \in BOOLEAN
    BY DEF Init
  <2> QED
    BY <2>1, <2>2, <2>3, <2>4, <2>5 DEF TypeOK, WorkerType
<1>3. Senders
  BY <1>1 DEF Senders
<1>4. CounterIsBehind
  <2>1. Unwritten = {}
    BY <1>1 DEF Unwritten
  <2>2. IsFiniteSet(Unwritten) /\ Cardinality(Unwritten) = 0
    BY <2>1, FS_EmptySet
  <2> QED
    BY <1>0, <1>1, <2>2 DEF CounterIsBehind, At
<1>5. Called = {} /\ \A c \in Call : ~HasOwnId(c)
  BY <1>0 DEF Called, HasOwnId
<1>6. Named /\ Built
  BY <1>0, <1>5, Objects DEF Named, Built
<1>7. Table /\ IntactTell /\ Deliveries
  BY <1>0 DEF Table, IntactTell, Deliveries
<1>8. Sequential
  BY <1>0, <1>1 DEF Sequential
<1>9. Clean
  BY <1>0, <1>1, <1>5 DEF Clean, Known, FramesTell, Sent, Exact, Out, Over
<1> QED
  BY <1>2, <1>3, <1>4, <1>6, <1>7, <1>8, <1>9 DEF Inv, BaseInv

\* Every step keeps the invariant.
LEMMA NextInv == Inv /\ [Next]_vars => Inv'
  BY NextBase, NextSequential, NextClean DEF Inv

\* The invariant holds in every state of every behaviour.
THEOREM Invariance == Spec => []Inv
  BY InitInv, NextInv, PTL DEF Spec

(***************************************************************************)
(* Type correctness: in particular the counter, whose updates may be lost, *)
(* never runs ahead of the calls.                                          *)
(***************************************************************************)
THEOREM TypeCorrectness == Spec => []TypeOK
<1>1. Inv => TypeOK
  BY DEF Inv, BaseInv
<1> QED
  BY Invariance, <1>1, PTL

\* While noise spares the headers, the table has nothing but its own message for the
\* id of a call that has it alone.
LEMMA OwnMessage ==
  ASSUME Inv, headerHits = 0, NEW c \in Call, HasOwnId(c)
  PROVE  idOf[c] \in Id /\ c \in Called /\ messages[idOf[c]] \in {c, NoMessage}
<1>0. TypeOK /\ Named /\ Table /\ Known
  BY DEF Inv, BaseInv, Clean
<1>1. c \in Called /\ idOf[c] \in Id
  BY <1>0 DEF Named, HasOwnId
<1>2. ASSUME NEW o, o = messages[idOf[c]], o # NoMessage
      PROVE  o = c
  <2>1. o \in Called /\ o \in Call
    BY <1>0, <1>1, <1>2, Bounds DEF Known, TypeOK, Called, Call
  <2>2. idOf[o] = idOf[c]
    BY <1>0, <1>1, <1>2, <2>1 DEF Table, IdAt
  <2> QED
    BY <2>1, <2>2 DEF HasOwnId
<1> QED
  BY <1>1, <1>2

(***************************************************************************)
(* A chunk shown as delivered was delivered: an intact frame of a call     *)
(* with this id and for this place has arrived, for any number of racing   *)
(* calls and with headers hit by noise; and while noise spares the         *)
(* headers, it holds the text of the call whose id no other has taken.     *)
(***************************************************************************)
THEOREM DeliveredTextWasSent == Spec => []DeliveredIsSent
<1>1. ASSUME Inv, NEW m \in Id, NEW i \in Delivered(m)
      PROVE  \E c \in Call : idOf[c] = m /\ <<c, i - 1>> \in arrived
  <2>1. PICK o : o = messages[m]
    OBVIOUS
  <2>2. /\ o # NoMessage /\ i \in 1 .. Len(chunks[o]) /\ chunks[o][i].status = "DELIVERED"
    BY <1>1, <2>1 DEF Delivered, Reported
  <2>3. o \in Object /\ IdAt(o) = m
    BY <1>1, <2>1, <2>2 DEF Inv, BaseInv, TypeOK, Table
  <2> QED
    BY <1>1, <2>2, <2>3 DEF Inv, BaseInv, Deliveries
<1>2. ASSUME Inv, headerHits = 0, NEW c \in Call, HasOwnId(c), NEW i \in Delivered(idOf[c])
      PROVE  chunks[messages[idOf[c]]][i].text = <<c, i - 1>>
  <2>1. messages[idOf[c]] = c
    BY <1>2, OwnMessage DEF Delivered, Reported
  <2>2. i \in 1 .. Len(chunks[c]) /\ chunks[c][i].status = "DELIVERED"
    BY <1>2, <2>1, Bounds DEF Delivered, Reported
  <2>3. chunks[c][i].status = "CORRUPTED" \/ chunks[c][i].text = <<c, i - 1>>
    BY <1>2, <2>2 DEF Inv, Clean, Exact
  <2> QED
    BY <2>1, <2>2, <2>3
<1>3. Inv => DeliveredIsSent
  BY <1>1, <1>2 DEF DeliveredIsSent
<1> QED
  BY Invariance, <1>3, PTL

\* The places of a call's pieces in a set of pieces
LEMMA Places ==
  ASSUME NEW c \in Call, NEW S, S \subseteq Piece, NEW D, D \subseteq Nat \ {0},
         \A i \in Nat : i + 1 \in D <=> <<c, i>> \in S
  PROVE  D = {p[2] + 1 : p \in {q \in S : q[1] = c}}
<1>1. ASSUME NEW d \in D PROVE d \in {p[2] + 1 : p \in {q \in S : q[1] = c}}
  <2>1. PICK i \in Nat : d = i + 1
    <3>1. d \in Nat \ {0}
      OBVIOUS
    <3> QED
      BY <3>1, d - 1 \in Nat
  <2>2. PICK q : q = <<c, i>>
    OBVIOUS
  <2> QED
    BY <2>1, <2>2
<1>2. ASSUME NEW q \in S, q[1] = c PROVE q[2] + 1 \in D
  <2>1. q = <<q[1], q[2]>> /\ q[2] \in Index
    BY DEF Piece
  <2>2. PICK i \in Nat : i = q[2]
    BY <2>1, Bounds
  <2>3. <<c, i>> \in S
    BY <1>2, <2>1, <2>2
  <2> QED
    BY <2>2, <2>3
<1> QED
  BY <1>1, <1>2

(***************************************************************************)
(* While noise spares the headers, the report of a message is exactly what *)
(* arrived of it, if no other call has taken its id; and this is so as     *)
(* long as calls of send do not overlap.                                   *)
(***************************************************************************)
THEOREM ReportsAreExact == Spec => []ReportIsExact
<1>1. ASSUME Inv, alone, NEW c \in Call, idOf[c] # 0
      PROVE  HasOwnId(c)
  <2>1. Named /\ Sequential /\ 0 \notin Id
    BY <1>1 DEF Inv, BaseInv, Id
  <2>2. \A d \in Call : idOf[d] # 0 => idOf[d] = d
    BY <2>1 DEF Named, Sequential, Called
  <2> QED
    BY <1>1, <2>2 DEF HasOwnId
<1>2. ASSUME Inv, headerHits = 0, NEW c \in Call, HasOwnId(c)
      PROVE  /\ Delivered(idOf[c]) = {p[2] + 1 : p \in {q \in arrived : q[1] = c}}
             /\ Corrupted(idOf[c]) = {p[2] + 1 : p \in {q \in damaged : q[1] = c}}
  <2>0. TypeOK /\ Sent /\ Exact /\ arrived \subseteq Piece /\ damaged \subseteq Piece
    BY <1>2 DEF Inv, BaseInv, Clean, TypeOK
  <2>1. Delivered(idOf[c]) \subseteq Nat \ {0} /\ Corrupted(idOf[c]) \subseteq Nat \ {0}
    BY DEF Delivered, Corrupted, Reported
  <2>2. idOf[c] \in Id /\ messages[idOf[c]] \in {c, NoMessage} /\ c # NoMessage
        /\ chunks[c] \in Seq(Chunk)
    BY <1>2, <2>0, OwnMessage, Objects DEF TypeOK
  <2>3. \A i \in Nat : i + 1 \in Delivered(idOf[c]) <=> <<c, i>> \in arrived
    <3> SUFFICES ASSUME NEW i \in Nat
                 PROVE  i + 1 \in Delivered(idOf[c]) <=> <<c, i>> \in arrived
      OBVIOUS
    <3>0. (i + 1) - 1 = i
      OBVIOUS
    <3>1. ASSUME i + 1 \in Delivered(idOf[c]) PROVE <<c, i>> \in arrived
      <4>1. i + 1 \in 1 .. Len(chunks[c]) /\ chunks[c][i + 1].status = "DELIVERED"
        BY <2>2, <3>1 DEF Delivered, Reported
      <4> QED
        BY <1>2, <2>0, <3>0, <4>1 DEF Exact
    <3>2. ASSUME <<c, i>> \in arrived PROVE i + 1 \in Delivered(idOf[c])
      <4>1. messages[idOf[c]] = c /\ i < Len(chunks[c])
        BY <2>0, <2>2, <3>2 DEF Sent, Out, Over
      <4>2. i + 1 \in 1 .. Len(chunks[c])
        BY <2>2, <4>1
      <4>3. chunks[c][i + 1].status = "DELIVERED"
        BY <1>2, <2>0, <3>0, <3>2, <4>2 DEF Exact
      <4> QED
        BY <2>2, <4>1, <4>2, <4>3 DEF Delivered, Reported
    <3> QED
      BY <3>1, <3>2
  <2>4. \A i \in Nat : i + 1 \in Corrupted(idOf[c]) <=> <<c, i>> \in damaged
    <3> SUFFICES ASSUME NEW i \in Nat
                 PROVE  i + 1 \in Corrupted(idOf[c]) <=> <<c, i>> \in damaged
      OBVIOUS
    <3>0. (i + 1) - 1 = i
      OBVIOUS
    <3>1. ASSUME i + 1 \in Corrupted(idOf[c]) PROVE <<c, i>> \in damaged
      <4>1. i + 1 \in 1 .. Len(chunks[c]) /\ chunks[c][i + 1].status = "CORRUPTED"
        BY <2>2, <3>1 DEF Corrupted, Reported
      <4> QED
        BY <1>2, <2>0, <3>0, <4>1 DEF Exact
    <3>2. ASSUME <<c, i>> \in damaged PROVE i + 1 \in Corrupted(idOf[c])
      <4>1. messages[idOf[c]] = c /\ i < Len(chunks[c])
        BY <2>0, <2>2, <3>2 DEF Sent, Out, Over
      <4>2. i + 1 \in 1 .. Len(chunks[c])
        BY <2>2, <4>1
      <4>3. chunks[c][i + 1].status = "CORRUPTED"
        BY <1>2, <2>0, <3>0, <3>2, <4>2 DEF Exact
      <4> QED
        BY <2>2, <4>1, <4>2, <4>3 DEF Corrupted, Reported
    <3> QED
      BY <3>1, <3>2
  <2>5. /\ Delivered(idOf[c]) = {p[2] + 1 : p \in {q \in arrived : q[1] = c}}
        /\ Corrupted(idOf[c]) = {p[2] + 1 : p \in {q \in damaged : q[1] = c}}
    BY <2>0, <2>1, <2>3, <2>4, Places
  <2> QED
    BY <2>5
<1>3. Inv => ReportIsExact
  BY <1>1, <1>2 DEF ReportIsExact
<1> QED
  BY Invariance, <1>3, PTL
===============================================================================
