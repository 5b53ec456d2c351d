--------------------------- MODULE MCMediaService ---------------------------
(* Small instances of MediaService for TLC. *)
EXTENDS MediaService, TLC

CONSTANTS pic, other, junk

\* "other" is a picture of another size; "junk" claims to be like "pic".
MCShapeOf ==
  [c \in Contents |-> [type |-> "png", size |-> IF c = other THEN 2 ELSE 1]]
MCImages == Contents \ {junk}

Symmetry == Permutations(MediaIDs) \cup Permutations(Slots) \cup Permutations(Workers)

=============================================================================
