------------------------------ MODULE MCGrants ------------------------------
(* Small instances of Grants for TLC. *)
EXTENDS Grants, TLC

CONSTANTS c1, c2, r1, r2, a1, a2, d1, d2, k1, agent, person

\* One client calls itself as an agent may, the other what the person is
\* called.  The pipe speaks as either.
Names == [c \in Client |-> IF c = c1 THEN agent ELSE person]

Offers ==
  {[capabilities |-> {"observe"}, accounts |-> {}],
   [capabilities |-> Capability, accounts |-> Account]}

Desks == Permutations(Desk)
=============================================================================
