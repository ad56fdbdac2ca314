------------------------------ MODULE MCApply ------------------------------
(* Small instances of Apply for TLC. *)
EXTENDS Apply, TLC

CONSTANTS flag, file, a, b

Mails == Permutations(Mail)

=============================================================================
