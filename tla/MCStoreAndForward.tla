--------------------------- MODULE MCStoreAndForward ---------------------------
(***************************************************************************)
(* StoreAndForward for TLC, with the loop of OnboardStorage.drain written  *)
(* out as the code runs it, one popleft at a time, as the reference for    *)
(* the closed form the model uses.                                         *)
(***************************************************************************)
EXTENDS StoreAndForward

\* for p in (CRITICAL, NORMAL, LOW): while bucket and remaining > 0: ...
RECURSIVE DrainLoop(_, _, _)
DrainLoop(q, remaining, out) ==
  LET left == {p \in Priority : q[p] # << >>}
      p    == CHOOSE x \in left : \A y \in left : Rank[x] <= Rank[y]
  IN  IF remaining = 0 \/ left = {} THEN [out |-> out, queue |-> q]
      ELSE DrainLoop([q EXCEPT ![p] = Tail(@)], remaining - 1, Append(out, Head(q[p])))

\* Queues with up to two records of each priority, all different.
SmallQueues ==
  {[p \in Priority |-> [n \in 1 .. size[p] |-> 10 * Rank[p] + n]] :
     size \in [Priority -> 0 .. 2]}

\* Drained and AfterDrain are the records the loop returns, in its order, and
\* the queue it leaves.  TLC evaluates the assumption before the run.
ASSUME DrainIsTheLoop ==
  \A q \in SmallQueues, limit \in 0 .. 7 :
    LET n == IF limit <= 0 THEN Used(q) ELSE limit IN
    DrainLoop(q, n, << >>) = [out |-> Drained(q, limit), queue |-> AfterDrain(q, limit)]
===============================================================================
