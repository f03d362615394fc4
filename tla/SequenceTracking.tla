--------------------------- MODULE SequenceTracking ---------------------------
(***************************************************************************)
(* The sequence accounting of the ground station, class Validator of       *)
(* src/grounf_station/validator.py: what the sequence number of one intact *)
(* frame says about the frames before it.                                  *)
(*                                                                         *)
(* Downlink sequence numbers start at 1001, so 0 stands for an expected    *)
(* sequence of None.                                                       *)
(***************************************************************************)
EXTENDS Integers, Sequences

CONSTANT RecentWindow  \* maxlen of _seen_recent (2048)

Validator == [expected : Nat, recent : Seq(Nat)]

NewValidator == [expected |-> 0, recent |-> << >>]

SeenRecently(v, s) == \E i \in 1 .. Len(v.recent) : v.recent[i] = s

\* sequence_status
Status(v, s) ==
  CASE v.expected = 0                            -> "OK"
    [] v.expected > s /\ SeenRecently(v, s)      -> "DUPLICATE"
    [] v.expected > s /\ ~SeenRecently(v, s)     -> "LATE"
    [] v.expected = s                            -> "OK"
    [] v.expected # 0 /\ v.expected < s          -> "GAP"

\* Also for a late frame.
MutantMissing(v, s) == IF v.expected = 0 THEN 0 ELSE s - v.expected

\* missing_count
Missing(v, s) == IF Status(v, s) = "GAP" THEN s - v.expected ELSE 0

Appended(recent, s) ==
  IF Len(recent) < RecentWindow THEN Append(recent, s) ELSE Append(Tail(recent), s)

\* Takes a late frame for the newest one.
MutantValidated(v, s) ==
  IF v.expected = 0 THEN [v EXCEPT !.expected = s]
  ELSE [expected |-> s + 1, recent |-> Appended(v.recent, s)]

\* The validator after the frame: the first frame is expected again, and only
\* a frame that is neither late nor a duplicate is remembered.
Validated(v, s) ==
  CASE v.expected = 0       -> [v EXCEPT !.expected = s]
    [] v.expected > s       -> v
    [] OTHER                -> [expected |-> s + 1, recent |-> Appended(v.recent, s)]
===============================================================================
