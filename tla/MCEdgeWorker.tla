----------------------------- MODULE MCEdgeWorker -----------------------------
(* Small instances of EdgeWorker for TLC. *)
EXTENDS EdgeWorker, TLC

MCShapeOf == [c \in Contents |-> [type |-> "png", size |-> 1]]

Symmetry == Permutations(Requests) \cup Permutations(Contents)

=============================================================================
