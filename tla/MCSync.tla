------------------------------- MODULE MCSync -------------------------------
(* Instances of Sync.tla for TLC. *)
EXTENDS Sync

CONSTANTS m1, m2, service, cli

\* In the small instances each text fits the budget, and both do not.
MCSize == [m \in Msg |-> IF m = m1 THEN 1 ELSE 2]

\* Nothing tells the messages apart, nor the processes, where no body is
\* wanted and nothing is asked of fairness.
Symmetry == Permutations(Msg) \cup Permutations(Syncer)

=============================================================================
