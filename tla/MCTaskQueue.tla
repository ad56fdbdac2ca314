---------------------------- MODULE MCTaskQueue ----------------------------
(* Small instances of TaskQueue for TLC. *)
EXTENDS TaskQueue, TLC

CONSTANTS p1, p2, work, home, apply, sync, body

\* The bundle and the folders of one account, a message body of another.
Where == [a \in Ask |-> IF a = body THEN home ELSE work]

Processes == Permutations(Process)

=============================================================================
