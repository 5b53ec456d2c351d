---------------------------- MODULE MediaService ----------------------------
(***************************************************************************)
(* The media service of backend/facade4media/service.go: the records it    *)
(* keeps in the DALgo database, the originals bucket it shares with the    *)
(* uploading clients, and its calls.                                       *)
(*                                                                         *)
(* A DALgo transaction is one atomic step.  A call made of one transaction *)
(* (Link, Unlink, Restore, PurgeExpiredLink) is one action.  A call that   *)
(* touches the database or the bucket several times (FinalizeUpload,       *)
(* PurgeOrphan, PurgeStaleUpload) is run by a worker, one action for each  *)
(* such touch, and anything may happen between two of them.                *)
(*                                                                         *)
(* A deadline is kept as the time left until it: x.After(Now()) is Left>0. *)
(***************************************************************************)
EXTENDS Naturals, FiniteSets

CONSTANTS
  MediaIDs,        \* dal4media.MediaID: one for each user and request ID
  Slots,           \* a target and a role, which make up a link ID
  NoMedia,         \* the adapter's answer for a slot with no reference
  AccessModes,     \* the accesses an upload may ask for
  ContentTypes, Sizes,
  Contents,        \* what a client may put in the bucket
  NoContent,
  ShapeOf,         \* content type and size of a stored content
  Images,          \* contents that pass InspectImage's own checks
  Workers,         \* concurrent multi-step calls
  Recovery, OrphanGrace, UploadGrace,
  MaxGeneration,   \* bound: versions of one object
  Retries,         \* may the database run a transaction's body again?
  AmbiguousDelete  \* may a bucket delete take effect and still report an error?

Shapes == [type : ContentTypes, size : Sizes]

ASSUME SlotsAssumption == IsFiniteSet(Slots)
ASSUME SentinelAssumption == NoMedia \notin MediaIDs /\ NoContent \notin Contents
ASSUME ContentAssumption == ShapeOf \in [Contents -> Shapes] /\ Images \subseteq Contents
ASSUME NonemptyAssumption == AccessModes # {} /\ ContentTypes # {} /\ Sizes # {}
ASSUME GraceAssumption ==
  Recovery \in Nat \ {0} /\ OrphanGrace \in Nat \ {0} /\ UploadGrace \in Nat \ {0}
ASSUME EnvironmentAssumption ==
  MaxGeneration \in Nat /\ Retries \in BOOLEAN /\ AmbiguousDelete \in BOOLEAN

VARIABLES
  assets,    \* /media/{mediaID}
  links,     \* /media/{mediaID}/links/{linkID}
  refs,      \* the forward reference a target adapter keeps for a slot
  objects,   \* the originals bucket
  promised,  \* accesses asked for by the uploads that were granted
  calls      \* what each worker is doing

vars == <<assets, links, refs, objects, promised, calls>>

-----------------------------------------------------------------------------
(* Records *)

AssetStatus ==
  {"absent", "uploading", "ready", "orphaned", "purging", "deleted", "failed"}
LinkStatus == {"none", "active", "deleted"}
PurgeKinds == {"orphan", "stale"}

Asset ==
  [status : AssetStatus, access : AccessModes, declared : Shapes,
   sha : Contents \cup {NoContent}, generation : Nat,
   refCount : Nat, durableRefCount : Nat, uploadLeft : Nat, purgeLeft : Nat]

Absent ==
  [status |-> "absent", access |-> CHOOSE a \in AccessModes : TRUE,
   declared |-> CHOOSE d \in Shapes : TRUE, sha |-> NoContent, generation |-> 0,
   refCount |-> 0, durableRefCount |-> 0, uploadLeft |-> 0, purgeLeft |-> 0]

NewUpload(access, declared) ==
  [Absent EXCEPT !.status = "uploading", !.access = access, !.declared = declared,
                 !.uploadLeft = UploadGrace]

MediaLink == [status : LinkStatus, left : Nat]
NoLink == [status |-> "none", left |-> 0]
ActiveLink == [status |-> "active", left |-> 0]
\* Mutant: the soft-deleted link gets the orphan's grace period.
DeletedForGrace == [status |-> "deleted", left |-> OrphanGrace]
DeletedLink == [status |-> "deleted", left |-> Recovery]

Object == [live : BOOLEAN, generation : Nat, content : Contents \cup {NoContent}]

(* A worker's call: what was asked, and the values read so far. *)
Call ==
  [pc : {"idle", "attrs", "hash", "decode", "commit",
         "claim", "delete", "rollback", "complete"},
   media : MediaIDs \cup {NoMedia}, kind : PurgeKinds, asset : Asset,
   sha : Contents \cup {NoContent}, shape : Shapes,
   hashed : Contents \cup {NoContent}, generation : Nat]

Idle ==
  [pc |-> "idle", media |-> NoMedia, kind |-> "orphan", asset |-> Absent,
   sha |-> NoContent, shape |-> Absent.declared, hashed |-> NoContent, generation |-> 0]

Less(n) == IF n > 0 THEN n - 1 ELSE 0

Init ==
  /\ assets = [m \in MediaIDs |-> Absent]
  /\ links = [m \in MediaIDs |-> [s \in Slots |-> NoLink]]
  /\ refs = [s \in Slots |-> NoMedia]
  /\ objects = [m \in MediaIDs |-> [live |-> FALSE, generation |-> 0, content |-> NoContent]]
  /\ promised = [m \in MediaIDs |-> {}]
  /\ calls = [w \in Workers |-> Idle]

Active(m) == {s \in Slots : links[m][s].status = "active"}
Recorded(m) == {s \in Slots : links[m][s].status # "none"}

-----------------------------------------------------------------------------
(* Uploading *)

(* Insert the record, or find the one an earlier try inserted; then sign   *)
(* an upload URL, which may fail.                                          *)
BeginUpload(m, access, declared) ==
  /\ \/ /\ assets[m].status = "absent"
        /\ assets' = [assets EXCEPT ![m] = NewUpload(access, declared)]
     \/ /\ assets[m].status = "uploading"
        /\ assets[m].declared = declared
        /\ UNCHANGED assets
  /\ \/ promised' = [promised EXCEPT ![m] = @ \cup {access}]
     \/ UNCHANGED promised
  /\ UNCHANGED <<links, refs, objects, calls>>

(* A client with an upload URL stores bytes, at any later time: the URL    *)
(* only opens the upload.  Its signer may create objects, not replace them.*)
PutObject(m, c) ==
  /\ promised[m] # {}
  /\ ~objects[m].live
  /\ objects[m].generation < MaxGeneration
  /\ objects' = [objects EXCEPT ![m] =
                   [live |-> TRUE, generation |-> @.generation + 1, content |-> c]]
  /\ UNCHANGED <<assets, links, refs, promised, calls>>

Return(w) == calls' = [calls EXCEPT ![w] = Idle]

(* The read outside any transaction and the checks on it. *)
FinalizeUpload(w, m, sha) ==
  /\ calls[w].pc = "idle"
  /\ assets[m].status = "uploading"
  /\ calls' = [calls EXCEPT ![w] =
                 [Idle EXCEPT !.pc = "attrs", !.media = m, !.sha = sha, !.asset = assets[m]]]
  /\ UNCHANGED <<assets, links, refs, objects, promised>>

(* InspectImage reads the object three times, none pinned to a generation; *)
(* a missing object is an error.                                           *)
ReadAttrs(w) ==
  LET o == objects[calls[w].media] IN
  /\ calls[w].pc = "attrs"
  /\ IF o.live
     THEN calls' = [calls EXCEPT ![w] = [@ EXCEPT !.pc = "hash",
                      !.generation = o.generation, !.shape = ShapeOf[o.content]]]
     ELSE Return(w)
  /\ UNCHANGED <<assets, links, refs, objects, promised>>

HashObject(w) ==
  LET o == objects[calls[w].media] IN
  /\ calls[w].pc = "hash"
  /\ IF o.live
     THEN calls' = [calls EXCEPT ![w] = [@ EXCEPT !.pc = "decode", !.hashed = o.content]]
     ELSE Return(w)
  /\ UNCHANGED <<assets, links, refs, objects, promised>>

Accepted(call, o) ==
  /\ o.live /\ o.content \in Images
  /\ ShapeOf[o.content].type = call.shape.type
  /\ call.hashed = call.sha
  /\ call.shape = call.asset.declared

\* Mutant: the generation is that of the last look at the object.
FinalizedLate(call) ==
  [call.asset EXCEPT !.status = "ready", !.sha = call.hashed,
                     !.generation = objects[call.media].generation]

Finalized(call) ==
  [call.asset EXCEPT !.status = "ready", !.sha = call.hashed, !.generation = call.generation]

DecodeObject(w) ==
  /\ calls[w].pc = "decode"
  /\ IF Accepted(calls[w], objects[calls[w].media])
     THEN calls' = [calls EXCEPT ![w] = [@ EXCEPT !.pc = "commit", !.asset = Finalized(calls[w])]]
     ELSE Return(w)
  /\ UNCHANGED <<assets, links, refs, objects, promised>>

\* Mutant: the state is not read again before the record is written back.
CommitUnchecked(w) ==
  /\ calls[w].pc = "commit"
  /\ assets' = [assets EXCEPT ![calls[w].media] = calls[w].asset]
  /\ Return(w)
  /\ UNCHANGED <<links, refs, objects, promised>>

(* The whole record read at the start is written back, if the asset is     *)
(* still being uploaded.                                                   *)
CommitFinalize(w) ==
  LET m == calls[w].media IN
  /\ calls[w].pc = "commit"
  /\ assets' = IF assets[m].status = "uploading"
               THEN [assets EXCEPT ![m] = calls[w].asset] ELSE assets
  /\ Return(w)
  /\ UNCHANGED <<links, refs, objects, promised>>

-----------------------------------------------------------------------------
(* Linking *)

\* Mutant: a purge in progress does not stop a link.
LinkableWhilePurged(a) == a.status \in {"ready", "orphaned", "purging"}

\* Mutant: anything once finalized can be linked again.
LinkableEver(a) == a.status \notin {"absent", "uploading"}

Linkable(a) == a.status \in {"ready", "orphaned"}

\* Mutant: linking what is linked already counts again.
AttachedTwice(a, l) ==
  [a EXCEPT !.status = "ready", !.purgeLeft = 0, !.refCount = @ + 1,
            !.durableRefCount = IF l.status = "none" THEN @ + 1 ELSE @]

(* What Link does to the asset it links, given the link record it found. *)
Attached(a, l) ==
  [a EXCEPT !.status = "ready", !.purgeLeft = 0,
            !.refCount = IF l.status = "active" THEN @ ELSE @ + 1,
            !.durableRefCount = IF l.status = "none" THEN @ + 1 ELSE @]

Detached(a) == [a EXCEPT !.refCount = Less(@)]

(* Link m at s.  Whatever else s referred to is soft-deleted. *)
Link(m, s) ==
  LET Replaced(x) == x = refs[s] /\ x # m
      Removed(x) == Replaced(x) /\ links[x][s].status # "deleted"
  IN
  /\ Linkable(assets[m])
  /\ \A x \in MediaIDs : Replaced(x) => assets[x].status # "absent" /\ links[x][s].status # "none"
  /\ assets' = [x \in MediaIDs |->
                  IF x = m THEN Attached(assets[x], links[x][s])
                  ELSE IF Removed(x) THEN Detached(assets[x]) ELSE assets[x]]
  /\ links' = [x \in MediaIDs |->
                 IF x = m THEN [links[x] EXCEPT ![s] = ActiveLink]
                 ELSE IF Removed(x) THEN [links[x] EXCEPT ![s] = DeletedLink] ELSE links[x]]
  /\ refs' = [refs EXCEPT ![s] = m]
  /\ UNCHANGED <<objects, promised, calls>>

Unlink(s) ==
  LET m == refs[s] IN
  /\ m # NoMedia
  /\ assets[m].status # "absent"
  /\ links[m][s].status # "none"
  /\ IF links[m][s].status # "deleted"
     THEN /\ links' = [links EXCEPT ![m][s] = DeletedLink]
          /\ assets' = [assets EXCEPT ![m] = Detached(@)]
     ELSE UNCHANGED <<links, assets>>
  /\ refs' = [refs EXCEPT ![s] = NoMedia]
  /\ UNCHANGED <<objects, promised, calls>>

Reattached(a) == [a EXCEPT !.refCount = @ + 1]

\* Mutant: what else the slot refers to by now is not looked at.
RestoreOver(m, s) ==
  /\ assets[m].status # "absent"
  /\ links[m][s].status = "deleted"
  /\ links[m][s].left > 0
  /\ refs' = [refs EXCEPT ![s] = m]
  /\ links' = [links EXCEPT ![m][s] = ActiveLink]
  /\ assets' = [assets EXCEPT ![m] = Reattached(@)]
  /\ UNCHANGED <<objects, promised, calls>>

(* Restore does not look at the asset's status and does not change it. *)
Restore(m, s) ==
  /\ assets[m].status # "absent"
  /\ links[m][s].status = "deleted"
  /\ links[m][s].left > 0
  /\ refs[s] \in {NoMedia, m}
  /\ refs' = [refs EXCEPT ![s] = m]
  /\ links' = [links EXCEPT ![m][s] = ActiveLink]
  /\ assets' = [assets EXCEPT ![m] = Reattached(@)]
  /\ UNCHANGED <<objects, promised, calls>>

\* Mutant: recoverable links do not keep the asset.
DroppedAtNoActive(a) ==
  LET n == Less(a.durableRefCount) IN
  IF a.refCount = 0
  THEN [a EXCEPT !.durableRefCount = n, !.status = "orphaned", !.purgeLeft = OrphanGrace]
  ELSE [a EXCEPT !.durableRefCount = n]

\* Mutant: both counters go down, unguarded.
DroppedFromBoth(a) ==
  [a EXCEPT !.durableRefCount = @ - 1, !.refCount = @ - 1]

(* What dropping one expired link record does to its asset. *)
Dropped(a) ==
  LET n == Less(a.durableRefCount) IN
  IF n = 0
  THEN [a EXCEPT !.durableRefCount = n, !.status = "orphaned", !.purgeLeft = OrphanGrace]
  ELSE [a EXCEPT !.durableRefCount = n]

PurgeExpiredLink(m, s) ==
  /\ assets[m].status # "absent"
  /\ links[m][s].status = "deleted"
  /\ links[m][s].left = 0
  /\ links' = [links EXCEPT ![m][s] = NoLink]
  /\ assets' = [assets EXCEPT ![m] = Dropped(@)]
  /\ UNCHANGED <<refs, objects, promised, calls>>

-----------------------------------------------------------------------------
(* Purging: claim the asset, delete its bytes, record the end or undo. *)

\* Mutant: a purge that was left unfinished may be taken over.
StaleOrUnfinished(a) == a.status \in {"uploading", "purging"} /\ a.uploadLeft = 0

\* Mutant: the bytes are deleted first and the asset marked afterwards.
Unmarked(a) == a

OrphanClaimable(a) == a.status = "orphaned" /\ a.durableRefCount = 0 /\ a.purgeLeft = 0
StaleClaimable(a) == a.status = "uploading" /\ a.uploadLeft = 0
Claimable(kind, a) == IF kind = "orphan" THEN OrphanClaimable(a) ELSE StaleClaimable(a)

Claimed(a) == [a EXCEPT !.status = "purging"]

Purging(pc, m, kind, a) ==
  [Idle EXCEPT !.pc = pc, !.media = m, !.kind = kind, !.asset = a]

(* The body of the claiming transaction is on its first run, or is run     *)
(* again after a run that set "claimed" and was not committed.             *)
Claiming(w, m, kind) ==
  \/ calls[w].pc = "idle"
  \/ calls[w].pc = "claim" /\ calls[w].media = m /\ calls[w].kind = kind

Claim(w, m, kind) ==
  /\ Claiming(w, m, kind)
  /\ Claimable(kind, assets[m])
  /\ assets' = [assets EXCEPT ![m] = Claimed(@)]
  /\ calls' = [calls EXCEPT ![w] = Purging("delete", m, kind, Claimed(assets[m]))]
  /\ UNCHANGED <<links, refs, objects, promised>>

(* The body ran and set "claimed", but the commit lost a conflict. *)
ClaimAborted(w, m, kind) ==
  /\ Retries
  /\ Claiming(w, m, kind)
  /\ Claimable(kind, assets[m])
  /\ calls' = [calls EXCEPT ![w] = Purging("claim", m, kind, assets[m])]
  /\ UNCHANGED <<assets, links, refs, objects, promised>>

(* A later run of the body finds nothing to claim; "claimed" is still set. *)
ClaimLeaked(w) ==
  LET m == calls[w].media  kind == calls[w].kind IN
  /\ calls[w].pc = "claim"
  /\ ~Claimable(kind, assets[m])
  /\ calls' = [calls EXCEPT ![w] = Purging("delete", m, kind, assets[m])]
  /\ UNCHANGED <<assets, links, refs, objects, promised>>

PurgeOrphan(w, m) == Claim(w, m, "orphan") \/ ClaimAborted(w, m, "orphan")
PurgeStaleUpload(w, m) == Claim(w, m, "stale") \/ ClaimAborted(w, m, "stale")

(* A generation of 0 deletes whatever is there. *)
Matches(a, o) == a.generation > 0 => o.generation = a.generation

Proceed(w, pc) == calls' = [calls EXCEPT ![w] = [@ EXCEPT !.pc = pc]]

(* An object that is not there counts as deleted. *)
DeleteObject(w) ==
  LET m == calls[w].media IN
  /\ calls[w].pc = "delete"
  /\ objects[m].live => Matches(calls[w].asset, objects[m])
  /\ objects' = [objects EXCEPT ![m] = [@ EXCEPT !.live = FALSE]]
  /\ Proceed(w, "complete")
  /\ UNCHANGED <<assets, links, refs, promised>>

DeleteFails(w) ==
  LET m == calls[w].media IN
  /\ calls[w].pc = "delete"
  /\ \/ UNCHANGED objects
     \/ /\ AmbiguousDelete
        /\ Matches(calls[w].asset, objects[m])
        /\ objects' = [objects EXCEPT ![m] = [@ EXCEPT !.live = FALSE]]
  /\ Proceed(w, "rollback")
  /\ UNCHANGED <<assets, links, refs, promised>>

\* Mutants: the two rollbacks copied from one another.
RestingOrphaned(kind) == "orphaned"
RestingUploading(kind) == "uploading"

Resting(kind) == IF kind = "orphan" THEN "orphaned" ELSE "uploading"
Ended(kind) == IF kind = "orphan" THEN "deleted" ELSE "failed"

Rollback(w) ==
  LET m == calls[w].media IN
  /\ calls[w].pc = "rollback"
  /\ assets' = IF assets[m].status = "purging"
               THEN [assets EXCEPT ![m] = [@ EXCEPT !.status = Resting(calls[w].kind)]]
               ELSE assets
  /\ Return(w)
  /\ UNCHANGED <<links, refs, objects, promised>>

Completable(kind, a) == a.status = "purging" /\ (kind = "orphan" => a.durableRefCount = 0)

Complete(w) ==
  LET m == calls[w].media  kind == calls[w].kind IN
  /\ calls[w].pc = "complete"
  /\ assets' = IF Completable(kind, assets[m])
               THEN [assets EXCEPT ![m] = [@ EXCEPT !.status = Ended(kind)]]
               ELSE assets
  /\ Return(w)
  /\ UNCHANGED <<links, refs, objects, promised>>

-----------------------------------------------------------------------------
(* Environment *)

(* The process dies, its context is cancelled, or a database call fails:   *)
(* the call ends where it is.                                              *)
Crash(w) ==
  /\ calls[w].pc # "idle"
  /\ Return(w)
  /\ UNCHANGED <<assets, links, refs, objects, promised>>

AgedAsset(a) == [a EXCEPT !.uploadLeft = Less(@), !.purgeLeft = Less(@)]
AgedLink(l) == [l EXCEPT !.left = Less(@)]

Tick ==
  /\ assets' = [m \in MediaIDs |-> AgedAsset(assets[m])]
  /\ links' = [m \in MediaIDs |-> [s \in Slots |-> AgedLink(links[m][s])]]
  /\ calls' = [w \in Workers |-> [calls[w] EXCEPT !.asset = AgedAsset(@)]]
  /\ UNCHANGED <<refs, objects, promised>>

UploadStep(w) ==
  \/ \E m \in MediaIDs, sha \in Contents : FinalizeUpload(w, m, sha)
  \/ ReadAttrs(w) \/ HashObject(w) \/ DecodeObject(w) \/ CommitFinalize(w)

PurgeStep(w) ==
  \/ \E m \in MediaIDs : PurgeOrphan(w, m) \/ PurgeStaleUpload(w, m)
  \/ ClaimLeaked(w) \/ DeleteObject(w) \/ DeleteFails(w) \/ Rollback(w) \/ Complete(w)

LinkStep ==
  \/ \E m \in MediaIDs, s \in Slots : Link(m, s) \/ Restore(m, s) \/ PurgeExpiredLink(m, s)
  \/ \E s \in Slots : Unlink(s)

ClientStep ==
  \E m \in MediaIDs :
    \/ \E access \in AccessModes, declared \in Shapes : BeginUpload(m, access, declared)
    \/ \E c \in Contents : PutObject(m, c)

Next ==
  \/ ClientStep
  \/ LinkStep
  \/ \E w \in Workers : UploadStep(w) \/ PurgeStep(w) \/ Crash(w)
  \/ Tick

Spec == Init /\ [][Next]_vars

-----------------------------------------------------------------------------
(* Properties *)

TypeOK ==
  /\ assets \in [MediaIDs -> Asset]
  /\ links \in [MediaIDs -> [Slots -> MediaLink]]
  /\ refs \in [Slots -> MediaIDs \cup {NoMedia}]
  /\ objects \in [MediaIDs -> Object]
  /\ \A m \in MediaIDs : objects[m].live => objects[m].content \in Contents
  /\ promised \in [MediaIDs -> SUBSET AccessModes]
  /\ calls \in [Workers -> Call]
  /\ \A w \in Workers : calls[w].pc # "idle" => calls[w].media \in MediaIDs

(* The two counters are exact: the saturating decrements never hide drift, *)
(* and a stale finalizer never writes old counts over new ones.  Sweep's   *)
(* mismatch count (service.go:619) is about this equality.                 *)
CountsExact ==
  \A m \in MediaIDs :
    /\ assets[m].refCount = Cardinality(Active(m))
    /\ assets[m].durableRefCount = Cardinality(Recorded(m))

(* The forward reference a target keeps and the link records agree, so at  *)
(* most one asset is linked at a slot and no "missing previous link" error *)
(* (service.go:320) can arise.                                             *)
RefsAgree ==
  \A m \in MediaIDs, s \in Slots : refs[s] = m <=> links[m][s].status = "active"

(* An asset with a link record, active or recoverable, is ready: Restore   *)
(* and PurgeExpiredLink do not look at the status and are right not to.    *)
LinkedIsReady == \A m \in MediaIDs : Recorded(m) # {} => assets[m].status = "ready"

(* A reference that goes away, by Unlink or by linking something else,     *)
(* leaves a record that can be restored for the whole recovery window.     *)
RemovalIsRecoverable ==
  [][\A m \in MediaIDs, s \in Slots :
       refs[s] = m /\ refs'[s] # m =>
         links'[m][s].status = "deleted" /\ links'[m][s].left = Recovery]_vars

(* No call brings back an asset that was given up, however long before it  *)
(* read the record that it writes back (service.go:250, 253).              *)
EndIsFinal ==
  [][\A m \in MediaIDs :
       assets[m].status \in {"deleted", "failed"} =>
         assets'[m].status = assets[m].status]_vars

(* The bytes in the bucket are the ones FinalizeUpload inspected, hashed   *)
(* and recorded.                                                           *)
Intact(m) ==
  /\ objects[m].live
  /\ objects[m].generation = assets[m].generation
  /\ objects[m].content = assets[m].sha
  /\ assets[m].sha \in Images
  /\ ShapeOf[assets[m].sha] = assets[m].declared

(* The generation a record pins has the recorded bytes or is gone, also    *)
(* when a delete that worked was reported as failed and other bytes were   *)
(* stored since: a read of it may find nothing, but never something else   *)
(* (gcs.go:42, service.go:533).                                            *)
PinnedIsRecorded ==
  \A m \in MediaIDs :
    LET o == objects[m] IN
    o.live /\ assets[m].generation > 0 /\ o.generation = assets[m].generation =>
      o.content = assets[m].sha

(* What the origin would serve (routes.go:165) is there and was inspected, *)
(* although the three reads of InspectImage and the commit are separate.   *)
ServedIsIntact ==
  \A m \in MediaIDs : assets[m].status \in {"ready", "orphaned"} => Intact(m)

(* Bytes are removed only when no link record and no reference needs them. *)
BytesOutliveLinks ==
  [][\A m \in MediaIDs :
       objects[m].live /\ ~objects'[m].live =>
         Recorded(m) = {} /\ \A s \in Slots : refs[s] # m]_vars

(* One purge at a time works on an asset, and the asset is marked for it.  *)
PurgeIsExclusive ==
  \A w \in Workers :
    calls[w].pc \in {"delete", "rollback", "complete"} =>
      /\ assets[calls[w].media].status = "purging"
      /\ \A v \in Workers \ {w} :
           calls[v].pc \in {"delete", "rollback", "complete"} =>
             calls[v].media # calls[w].media

(* What finalization recorded never changes, whatever finalizers and       *)
(* purges raced.                                                           *)
MetadataIsFrozen ==
  [][\A m \in MediaIDs :
       assets[m].status \notin {"absent", "uploading"} =>
         /\ assets'[m].sha = assets[m].sha
         /\ assets'[m].generation = assets[m].generation]_vars

(* An upload that was granted has the access its request asked for.        *)
AccessAsAsked == \A m \in MediaIDs : promised[m] \subseteq {assets[m].access}

-----------------------------------------------------------------------------
(* The abstract specification *)

(* Readers pin the recorded generation: what is stored under another is    *)
(* not theirs.                                                             *)
Found(a, o) == IF o.live /\ o.generation = a.generation THEN o.content ELSE NoContent

(* What a reader finds: the bytes that are in the bucket while the origin  *)
(* serves the asset; while a purge may still be undone, the recorded ones  *)
(* if it can only be undone when it removed nothing.                       *)
Picture(a, o) ==
  CASE a.status \in {"ready", "orphaned"} -> [phase |-> "shown", content |-> Found(a, o)]
    [] a.status = "purging" /\ a.sha # NoContent ->
         [phase |-> "hidden", content |-> IF AmbiguousDelete THEN Found(a, o) ELSE a.sha]
    [] a.status \in {"deleted", "failed"} -> [phase |-> "gone", content |-> NoContent]
    [] OTHER -> [phase |-> "none", content |-> NoContent]

Promise ==
  INSTANCE MediaPromise WITH pictures <- [m \in MediaIDs |-> Picture(assets[m], objects[m])],
                             holders <- [m \in MediaIDs |-> Recorded(m)],
                             MayLose <- AmbiguousDelete

(* Uploads, links, purges and their failures together keep the promise     *)
(* made to readers: one unchanging picture, present in the bucket while it *)
(* is served, not hidden while a link, active or recoverable, holds it,    *)
(* and gone for good once it is gone (service.go:242, 515, 639).           *)
KeepsPromise == Promise!PromiseSpec

=============================================================================
