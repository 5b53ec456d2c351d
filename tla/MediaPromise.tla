---------------------------- MODULE MediaPromise ----------------------------
(* What the media service promises whoever looks at its images, without    *)
(* uploads, transactions, purges or time: an image appears with its bytes  *)
(* and keeps them as long as anything holds it; one that nothing holds may *)
(* be out of sight for a while, and comes back unchanged or never; with    *)
(* MayLose it may also come back without its bytes, and then never gets    *)
(* others.                                                                 *)
CONSTANTS
  MediaIDs, Slots, Images, NoContent,
  MayLose  \* may bytes be lost while their image is out of sight?

VARIABLES
  pictures,  \* the picture of each media, and what a reader finds of it
  holders    \* slots with a link to it, active or recoverable

promiseVars == <<pictures, holders>>

Phases == {"none", "shown", "hidden", "gone"}
Picture == [phase : Phases, content : Images \cup {NoContent}]
NoPicture == [phase |-> "none", content |-> NoContent]
Gone == [phase |-> "gone", content |-> NoContent]

PromiseInit ==
  /\ pictures = [m \in MediaIDs |-> NoPicture]
  /\ holders = [m \in MediaIDs |-> {}]

\* With MayLose the bytes may be gone before the image is first seen.
Pictured == IF MayLose THEN Images \cup {NoContent} ELSE Images

(* An upload is finalized. *)
Show(m, c) ==
  /\ pictures[m].phase = "none"
  /\ pictures' = [pictures EXCEPT ![m] = [phase |-> "shown", content |-> c]]
  /\ UNCHANGED holders

(* A link record appears, or its recovery window is over. *)
Hold(m, s) ==
  /\ pictures[m].phase = "shown"
  /\ holders' = [holders EXCEPT ![m] = @ \cup {s}]
  /\ UNCHANGED pictures

Release(m, s) ==
  /\ holders' = [holders EXCEPT ![m] = @ \ {s}]
  /\ UNCHANGED pictures

(* A purge begins, is undone, or is done. *)
Hide(m) ==
  /\ pictures[m].phase = "shown"
  /\ holders[m] = {}
  /\ pictures' = [pictures EXCEPT ![m].phase = "hidden"]
  /\ UNCHANGED holders

Lose(m) ==
  /\ MayLose
  /\ pictures[m].phase = "hidden"
  /\ pictures' = [pictures EXCEPT ![m].content = NoContent]
  /\ UNCHANGED holders

Reappear(m) ==
  /\ pictures[m].phase = "hidden"
  /\ pictures' = [pictures EXCEPT ![m].phase = "shown"]
  /\ UNCHANGED holders

Vanish(m) ==
  /\ pictures[m].phase \in {"none", "hidden"}
  /\ pictures' = [pictures EXCEPT ![m] = Gone]
  /\ UNCHANGED holders

PromiseNext ==
  \E m \in MediaIDs :
    \/ \E c \in Pictured : Show(m, c)
    \/ \E s \in Slots : Hold(m, s) \/ Release(m, s)
    \/ Hide(m) \/ Lose(m) \/ Reappear(m) \/ Vanish(m)

PromiseSpec == PromiseInit /\ [][PromiseNext]_promiseVars

=============================================================================
