------------------------------ MODULE MCReview ------------------------------
(* Small instances of Review for TLC. *)
EXTENDS Review, TLC

CONSTANTS m1, m2, l1, l2, b1, b2, t1

OneFolder  == {{l1}}
TwoFolders == {{l1}, {l2}}

NoTargets  == [b \in Bundle |-> {}]
IntoL2     == [b \in Bundle |-> IF b \in Filing THEN {l2} ELSE {}]

Messages == Permutations(Message)
=============================================================================
