---------------------------- MODULE MCFaultControl ----------------------------
(***************************************************************************)
(* FaultControl for TLC: one fault that lasts no time or until it is       *)
(* cleared, one that lasts a tick; the workers are interchangeable.        *)
(***************************************************************************)
EXTENDS FaultControl, TLC

CONSTANTS outage, full

MCFault == {outage, full}

MCDurations == outage :> {0, Unlimited} @@ full :> {1}

Symmetry == Permutations(ApiThreads)
===============================================================================
