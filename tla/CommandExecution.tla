--------------------------- MODULE CommandExecution ---------------------------
(***************************************************************************)
(* What the telecommand path promises, with no link, no guard and no       *)
(* thread in sight: the spacecraft executes only commands the ground       *)
(* station has issued, and it executes them in the order of their sequence *)
(* numbers, so none of them twice.                                         *)
(***************************************************************************)
EXTENDS Integers, Sequences

CONSTANT Sequence  \* the command sequence numbers

VARIABLES
  issued,   \* the sequence numbers the station has transmitted a frame for
  executed  \* the sequence numbers handed to _execute_command, in order

vars == <<issued, executed>>

Init == issued = {} /\ executed = << >>

Issue(s) ==
  /\ issued' = issued \union {s}
  /\ UNCHANGED executed

Execute(s) ==
  /\ s \in issued
  /\ \A i \in 1 .. Len(executed) : executed[i] < s
  /\ executed' = Append(executed, s)
  /\ UNCHANGED issued

Next == \E s \in Sequence : Issue(s) \/ Execute(s)

Spec == Init /\ [][Next]_vars
===============================================================================
