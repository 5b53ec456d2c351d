---------------------------- MODULE MCMediaSweep ----------------------------
(* Small instances of MediaSweep for TLC. *)
EXTENDS MediaSweep, TLC

CONSTANTS m1, m2, pic

MCShapeOf == [c \in Contents |-> [type |-> "png", size |-> 1]]
MCRank == [m \in MediaIDs |-> IF m = m1 THEN 1 ELSE 2]

Symmetry == Permutations(Sweepers) \cup Permutations(Slots)

=============================================================================
