----------------------------- MODULE MCTelecommand -----------------------------
(***************************************************************************)
(* Telecommand for TLC.  Workers are interchangeable.                      *)
(***************************************************************************)
EXTENDS Telecommand, TLC

WorkerSymmetry == Permutations(ApiThreads)
===============================================================================
