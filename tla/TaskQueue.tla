----------------------------- MODULE TaskQueue -----------------------------
(***************************************************************************)
(* What the task queues of the SMM worker (src/src/smm/smm.cpp) and of the *)
(* FSS send worker (src/src/fss/fss.cpp) have in common: a queued position *)
(* report is erased when a newer one comes.                                *)
(***************************************************************************)
EXTENDS Naturals, Sequences, FiniteSets

\* What is left of a queue, in order, when every task of a kind is erased.
Without(queue, kind) ==
  LET kept    == {i \in DOMAIN queue : queue[i] # kind}
      rank(i) == Cardinality({j \in kept : j <= i})
  IN  [n \in 1 .. Cardinality(kept) |-> queue[CHOOSE i \in kept : rank(i) = n]]
=============================================================================
