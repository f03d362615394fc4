------------------------------ MODULE ChatChannel ------------------------------
(***************************************************************************)
(* The message tester: class ChatChannel of src/communication/chat.py, the *)
(* link it shares with telemetry and telecommands                          *)
(* (src/communication/link.py), and the routing of delivered frames in     *)
(* Simulation._wire (src/simulation/runner.py).                            *)
(*                                                                         *)
(* API requests call send on worker threads without a lock; the simulation *)
(* thread delivers frames.  send is split at every access to what the      *)
(* threads share: the id counter, the table of messages, and the link.     *)
(*                                                                         *)
(* A message is an object both sides share: send frames what its chunks    *)
(* hold at the moment, and what arrives is written into the chunks of the  *)
(* object the table then names.  Objects are numbered like the calls that  *)
(* build them; the placeholder of an unknown message has the negated id.   *)
(*                                                                         *)
(* A piece of text is a pair of the call of send it belongs to and its     *)
(* index in the text.                                                      *)
(***************************************************************************)
EXTENDS Integers, Sequences, FiniteSets

CONSTANTS
  ApiThreads,   \* worker threads that may be inside send
  MaxChunks,    \* MAX_CHUNKS: into how many chunks a text may be split
  MaxSends,     \* bounds the calls of send
  MaxHeaderHits \* bounds the frames whose header noise hits

ASSUME MaxChunksAssumption == MaxChunks \in Nat
ASSUME MaxSendsAssumption == MaxSends \in Nat
ASSUME MaxHeaderHitsAssumption == MaxHeaderHits \in Nat

Call == 1 .. MaxSends
Id == 1 .. MaxSends
ChunkCounts == 1 .. MaxChunks
Index == 0 .. MaxChunks - 1

VARIABLES
  worker,    \* per worker thread, its call of send
  nextId,    \* ChatChannel._next_id
  messages,  \* ChatChannel._messages: the object of each id, or NoMessage
  chunks,    \* per object, its chunks: status and payload
  inFlight,  \* SpaceLink._pending, chat frames only
  unknown,   \* the frame the simulation thread has found no message for, if any
  calls,     \* history: how many calls of send there were
  idOf,      \* history: the message id each call took
  arrived,   \* history: the pieces whose frames arrived intact
  damaged,   \* history: the pieces whose frames arrived with a broken CRC
  alone,     \* history: have no two calls of send overlapped so far?
  headerHits \* history: the frames whose header noise has hit and left parseable

report == <<messages, chunks, arrived, damaged>>
vars == <<worker, nextId, inFlight, unknown, calls, idOf, alone, headerHits, report>>

Piece == Call \X Index
Noise == <<0, 0>>        \* a payload that is no piece of any text

\* of is the piece the frame was built for, text its payload.
Frame == [of : Piece, text : Piece \union {Noise}, id : Id, index : Index,
          count : ChunkCounts, kind : {"intact", "noisy", "unreadable"}]

Chunk == [status : {"SENT", "DELIVERED", "CORRUPTED"}, text : Piece \union {Noise}]

NoMessage == 0
Placeholder(m) == -m
Object == Call \union {Placeholder(m) : m \in Id}

\* The chunks of a message send has split, and of a message nobody knows.
Split(c, count) == [i \in 1 .. count |-> [status |-> "SENT", text |-> <<c, i - 1>>]]
Blank(count) == [i \in 1 .. count |-> [status |-> "SENT", text |-> Noise]]

Idle == [pc |-> "idle", call |-> 0, id |-> 0, count |-> 0, read |-> 0, next |-> 0]

Init ==
  /\ worker = [t \in ApiThreads |-> Idle]
  /\ nextId = 1
  /\ messages = [m \in Id |-> NoMessage]
  /\ chunks = [o \in Object |-> << >>]
  /\ inFlight = {}
  /\ unknown = {}
  /\ calls = 0
  /\ idOf = [c \in Call |-> 0]
  /\ arrived = {}
  /\ damaged = {}
  /\ alone = TRUE
  /\ headerHits = 0

-------------------------------------------------------------------------------
(* send *)

At(t, place) == worker[t].pc = place

\* The text is split and the message object built with the id of the moment.
Send(t, count) ==
  /\ At(t, "idle")
  /\ calls < MaxSends
  /\ calls' = calls + 1
  /\ idOf' = [idOf EXCEPT ![calls + 1] = nextId]
  /\ chunks' = [chunks EXCEPT ![calls + 1] = Split(calls + 1, count)]
  /\ worker' = [worker EXCEPT ![t] = [Idle EXCEPT !.pc = "named", !.call = calls + 1,
                                                  !.id = nextId, !.count = count]]
  /\ alone' = (alone /\ \A u \in ApiThreads : At(u, "idle"))
  /\ UNCHANGED <<nextId, messages, inFlight, unknown, arrived, damaged, headerHits>>

\* self._next_id += 1: the read
ReadNextId(t) ==
  /\ At(t, "named")
  /\ worker' = [worker EXCEPT ![t].pc = "counted", ![t].read = nextId]
  /\ UNCHANGED <<nextId, inFlight, unknown, calls, idOf, alone, headerHits, report>>

\* Advances the counter by the chunks of the message.
MutantCountsChunks(t) ==
  /\ At(t, "counted")
  /\ nextId' = worker[t].read + worker[t].count
  /\ worker' = [worker EXCEPT ![t].pc = "numbered"]
  /\ UNCHANGED <<inFlight, unknown, calls, idOf, alone, headerHits, report>>

\* self._next_id += 1: the write
WriteNextId(t) ==
  /\ At(t, "counted")
  /\ nextId' = worker[t].read + 1
  /\ worker' = [worker EXCEPT ![t].pc = "numbered"]
  /\ UNCHANGED <<inFlight, unknown, calls, idOf, alone, headerHits, report>>

\* self._messages[msg.message_id] = msg
Store(t) ==
  /\ At(t, "numbered")
  /\ messages' = [messages EXCEPT ![worker[t].id] = worker[t].call]
  /\ worker' = [worker EXCEPT ![t].pc = "sending"]
  /\ UNCHANGED <<nextId, chunks, inFlight, unknown, calls, idOf, alone, headerHits,
                 arrived, damaged>>

\* The frame of the next chunk, built from what the chunk holds by now.
NextFrame(w) ==
  [of |-> <<w.call, w.next>>, text |-> chunks[w.call][w.next + 1].text,
   id |-> w.id, index |-> w.next, count |-> w.count, kind |-> "intact"]

\* What a frame may look like at the far end.  Noise breaks the CRC, and the
\* payload with it or not; the frame may be unreadable; or the noise has hit the
\* header and made another of it.
Spared(frame) ==
  {frame, [frame EXCEPT !.kind = "unreadable"]}
    \union {[frame EXCEPT !.kind = "noisy", !.text = text] : text \in {frame.text, Noise}}

Hit(frame) ==
  {f \in Frame : f.of = frame.of /\ f.text \in {frame.text, Noise} /\ f.kind = "noisy"}

\* link.transmit of one more chunk: dropped, or under way.
Transmit(t) ==
  /\ At(t, "sending")
  /\ \/ UNCHANGED <<inFlight, headerHits>>
     \/ /\ \E f \in Spared(NextFrame(worker[t])) : inFlight' = inFlight \union {f}
        /\ UNCHANGED headerHits
     \/ /\ headerHits < MaxHeaderHits
        /\ headerHits' = headerHits + 1
        /\ \E f \in Hit(NextFrame(worker[t])) : inFlight' = inFlight \union {f}
  /\ UNCHANGED <<nextId, unknown, calls, idOf, alone, report>>

TransmitChunk(t) ==
  LET w == worker[t] IN
  /\ Transmit(t)
  /\ worker' = [worker EXCEPT ![t] = IF w.next + 1 = w.count THEN Idle
                                     ELSE [w EXCEPT !.next = @ + 1]]

\* The link raises RuntimeError, before or after the frame is in its list, and
\* send is over.
TransmitRaises(t) ==
  /\ Transmit(t)
  /\ worker' = [worker EXCEPT ![t] = Idle]

-------------------------------------------------------------------------------
(* receive *)

Parsed(f) == f.kind \in {"intact", "noisy"}

\* Takes every chunk for intact.
MutantArrival(f) == [status |-> "DELIVERED", text |-> f.text]

\* What a frame makes of its chunk.
Arrival(f) ==
  [status |-> IF f.kind = "intact" THEN "DELIVERED" ELSE "CORRUPTED", text |-> f.text]

\* Ignores the chunk with index 0.
MutantFilled(s, f) ==
  IF 0 < f.index /\ f.index < Len(s) THEN [s EXCEPT ![f.index + 1] = Arrival(f)] ELSE s

\* A chunk beyond the end of the message is ignored.
Filled(s, f) ==
  IF f.index < Len(s) THEN [s EXCEPT ![f.index + 1] = Arrival(f)] ELSE s

Account(f) ==
  IF f.kind = "intact"
  THEN arrived' = arrived \union {f.of} /\ UNCHANGED damaged
  ELSE damaged' = damaged \union {f.of} /\ UNCHANGED arrived

\* The chunk of the message in the table is overwritten.
Receive(f) ==
  /\ Parsed(f)
  /\ messages[f.id] # NoMessage
  /\ chunks' = [chunks EXCEPT ![messages[f.id]] = Filled(@, f)]
  /\ Account(f)
  /\ UNCHANGED <<messages, unknown>>

\* self._messages.get returns None.
NotFound(f) ==
  /\ Parsed(f)
  /\ messages[f.id] = NoMessage
  /\ unknown' = {f}
  /\ UNCHANGED report

\* parse_chunk_frame raises ChatError; or noise in the sync word hides the frame
\* from sniff, and the station or the spacecraft gets it instead.
Miss(f) ==
  /\ ~Parsed(f)
  /\ UNCHANGED <<unknown, report>>

\* link.fetch_due delivers one frame.
Deliver(f) ==
  /\ unknown = {}
  /\ inFlight' = inFlight \ {f}
  /\ Receive(f) \/ NotFound(f) \/ Miss(f)
  /\ UNCHANGED <<worker, nextId, calls, idOf, alone, headerHits>>

\* A placeholder gets the entry of the table, whatever is there by now.
EnterPlaceholder(f) ==
  /\ messages' = [messages EXCEPT ![f.id] = Placeholder(f.id)]
  /\ chunks' = [chunks EXCEPT ![Placeholder(f.id)] = Filled(Blank(f.count), f)]
  /\ Account(f)
  /\ unknown' = {}
  /\ UNCHANGED <<worker, nextId, inFlight, calls, idOf, alone, headerHits>>

-------------------------------------------------------------------------------

SendStep(t) ==
  \/ \E count \in ChunkCounts : Send(t, count)
  \/ ReadNextId(t) \/ WriteNextId(t) \/ Store(t) \/ TransmitChunk(t) \/ TransmitRaises(t)

DeliverAny == (\E f \in inFlight : Deliver(f)) \/ (\E f \in unknown : EnterPlaceholder(f))

Next == (\E t \in ApiThreads : SendStep(t)) \/ DeliverAny

Spec == Init /\ [][Next]_vars

-------------------------------------------------------------------------------

\* The chunks of message m that are reported as delivered, or as corrupted.
Reported(m, status) ==
  IF messages[m] = NoMessage THEN {}
  ELSE LET s == chunks[messages[m]] IN {i \in 1 .. Len(s) : s[i].status = status}

Delivered(m) == Reported(m, "DELIVERED")
Corrupted(m) == Reported(m, "CORRUPTED")

\* The call was made, and no other has taken its id.
HasOwnId(c) == idOf[c] # 0 /\ \A d \in Call : idOf[d] = idOf[c] => d = c

TypeOK ==
  /\ worker \in [ApiThreads ->
       [pc : {"idle", "named", "counted", "numbered", "sending"}, call : Nat,
        id : Nat, count : Nat, read : Nat, next : Nat]]
  /\ nextId \in 1 .. calls + 1
  /\ messages \in [Id -> Object \union {NoMessage}]
  /\ chunks \in [Object -> Seq(Chunk)]
  /\ inFlight \subseteq Frame
  /\ unknown \subseteq Frame
  /\ calls \in 0 .. MaxSends
  /\ idOf \in [Call -> 0 .. MaxSends]
  /\ arrived \subseteq Piece
  /\ damaged \subseteq Piece
  /\ alone \in BOOLEAN
  /\ headerHits \in 0 .. MaxHeaderHits

(***************************************************************************)
(* The text shown as received is text that was sent.  A chunk is shown as  *)
(* DELIVERED only if an intact frame of a call with its message's id and   *)
(* with its index has arrived, whatever noise did to headers and however   *)
(* calls raced.  And while noise spares the headers, it holds this call's  *)
(* piece: send and receive work on the same chunks, so this is true only   *)
(* of a call whose id no other call has taken in a race.                   *)
(***************************************************************************)
DeliveredIsSent ==
  /\ \A m \in Id : \A i \in Delivered(m) :
       \E c \in Call : idOf[c] = m /\ <<c, i - 1>> \in arrived
  /\ headerHits = 0 =>
       \A c \in Call : HasOwnId(c) =>
         \A i \in Delivered(idOf[c]) : chunks[messages[idOf[c]]][i].text = <<c, i - 1>>

(***************************************************************************)
(* While noise spares the headers, the report of a message says exactly    *)
(* what arrived of it, and what arrived broken: of every message whose id  *)
(* no other call has taken, and of every message as long as no two calls   *)
(* of send have overlapped.                                                *)
(***************************************************************************)
ReportIsExact ==
  headerHits = 0 =>
    \A c \in Call : (HasOwnId(c) \/ (alone /\ idOf[c] # 0)) =>
      /\ Delivered(idOf[c]) = {p[2] + 1 : p \in {q \in arrived : q[1] = c}}
      /\ Corrupted(idOf[c]) = {p[2] + 1 : p \in {q \in damaged : q[1] = c}}

===============================================================================
