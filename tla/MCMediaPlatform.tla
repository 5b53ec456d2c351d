--------------------------- MODULE MCMediaPlatform ---------------------------
(* Small instances of MediaPlatform for TLC. *)
EXTENDS MediaPlatform, TLC

MCShapeOf == [c \in Contents |-> [type |-> "png", size |-> 1]]
MCRank == [m \in MediaIDs |-> 1]

=============================================================================
