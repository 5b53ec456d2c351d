------------------------- MODULE MediaBytes_proofs -------------------------
(* The bytes in the bucket and the records about them: what holds however  *)
(* the database and the bucket behave, what holds when the database runs a *)
(* transaction's body once, and what holds when moreover a bucket delete   *)
(* that fails has deleted nothing.                                         *)
EXTENDS MediaGraph_proofs

RunsOnce == ~Retries
Honest == ~Retries /\ ~AmbiguousDelete

Served == {"ready", "orphaned"}
Unfinished == {"absent", "uploading"}
Reading == {"hash", "decode", "commit"}
Reversible == {"delete", "rollback"}
Ending == {"rollback", "complete"}
Holding == {"delete", "rollback", "complete"}

-----------------------------------------------------------------------------
(* How one asset, one call and one object change in one step *)

(* Two values that the properties of the bytes do not tell apart. *)
SameBytes(a, b) ==
  /\ b.sha = a.sha /\ b.generation = a.generation /\ b.declared = a.declared
  /\ b.status = a.status \/ (a.status \in Served /\ b.status \in Served)

SameRecord(a, b) ==
  /\ b.sha = a.sha /\ b.generation = a.generation /\ b.access = a.access
  /\ a.status # "absent" => b.status # "absent"

Granted(m) ==
  /\ assets[m].status = "absent"
  /\ \E access \in AccessModes, declared \in Shapes : assets'[m] = NewUpload(access, declared)

Committed(m) ==
  \E w \in Workers : /\ calls[w].pc = "commit" /\ calls[w].media = m
                     /\ assets[m].status = "uploading" /\ assets'[m] = calls[w].asset

GivenBack(m) ==
  /\ assets[m].status = "purging"
  /\ \E w \in Workers : /\ calls[w].pc = "rollback" /\ calls[w].media = m
                        /\ calls[w].kind = "stale"

Updated(m) ==
  /\ SameRecord(assets[m], assets'[m])
  /\ assets'[m].status = "uploading" => assets[m].status = "uploading" \/ GivenBack(m)

LEMMA AssetStep ==
  ASSUME TypeOK, [Next]_vars, NEW m \in MediaIDs
  PROVE  Granted(m) \/ Committed(m) \/ Updated(m)
<1> DEFINE Safe(b) == /\ SameRecord(assets[m], b)
                      /\ b.status = "uploading" => assets[m].status = "uploading"
<1>1. assets[m] \in Asset
  BY DEF TypeOK
<1>2. /\ \A l : Safe(Attached(assets[m], l))
      /\ Safe(Detached(assets[m])) /\ Safe(Reattached(assets[m])) /\ Safe(Dropped(assets[m]))
      /\ Safe(Claimed(assets[m])) /\ Safe(AgedAsset(assets[m])) /\ Safe(assets[m])
      /\ \A status : status \notin {"absent", "uploading"} =>
           Safe([assets[m] EXCEPT !.status = status])
  BY <1>1 DEF Attached, Detached, Reattached, Dropped, Claimed, AgedAsset, Asset, SameRecord
<1>3. \A b : assets'[m] = b /\ Safe(b) => Updated(m)
  BY DEF Updated
<1> HIDE DEF Safe
<1>4. CASE LinkStep
  <2>1. ASSUME NEW x \in MediaIDs, NEW s \in Slots, Link(x, s)
        PROVE  Safe(assets'[m])
    <3>1. \/ assets'[m] = Attached(assets[m], links[m][s])
          \/ assets'[m] = Detached(assets[m])
          \/ assets'[m] = assets[m]
      BY <2>1 DEF Link
    <3> QED
      BY <1>2, <3>1
  <2>2. ASSUME NEW s \in Slots, Unlink(s)
        PROVE  Safe(assets'[m])
    BY <1>1, <1>2, <2>2 DEF Unlink, TypeOK
  <2>3. ASSUME NEW x \in MediaIDs, NEW s \in Slots, Restore(x, s) \/ PurgeExpiredLink(x, s)
        PROVE  Safe(assets'[m])
    BY <1>1, <1>2, <2>3 DEF Restore, PurgeExpiredLink, TypeOK
  <2> QED
    BY <1>3, <1>4, <2>1, <2>2, <2>3 DEF LinkStep
<1>5. CASE ClientStep
  <2>1. Granted(m) \/ assets'[m] = assets[m]
    BY <1>1, <1>5 DEF ClientStep, BeginUpload, PutObject, TypeOK, Granted
  <2> QED
    BY <1>2, <1>3, <2>1
<1>6. ASSUME NEW w \in Workers, UploadStep(w) \/ Crash(w)
      PROVE  Committed(m) \/ Updated(m)
  <2>1. Committed(m) \/ assets'[m] = assets[m]
    BY <1>1, <1>6
       DEF UploadStep, FinalizeUpload, ReadAttrs, HashObject, DecodeObject, CommitFinalize,
           Crash, TypeOK, Committed
  <2> QED
    BY <1>2, <1>3, <2>1
<1>7. ASSUME NEW w \in Workers, PurgeStep(w)
      PROVE  Updated(m)
  <2>1. CASE Rollback(w)
    <3>1. \/ assets'[m] = assets[m]
          \/ /\ calls[w].media = m /\ calls[w].pc = "rollback" /\ assets[m].status = "purging"
             /\ assets'[m] = [assets[m] EXCEPT !.status = Resting(calls[w].kind)]
      BY <1>1, <2>1 DEF Rollback, TypeOK
    <3>2. CASE assets'[m] = [assets[m] EXCEPT !.status = "uploading"]
      <4>1. SameRecord(assets[m], assets'[m])
        BY <1>1, <3>2 DEF SameRecord, Asset
      <4>2. \/ assets'[m] = assets[m]
            \/ GivenBack(m)
            \/ assets'[m] = [assets[m] EXCEPT !.status = "orphaned"]
        <5>1. calls[w].kind \in PurgeKinds
          BY DEF TypeOK, Call
        <5> QED
          BY <3>1, <5>1 DEF GivenBack, Resting, PurgeKinds
      <4> QED
        BY <1>2, <1>3, <4>1, <4>2 DEF Updated
    <3>3. CASE assets'[m] # [assets[m] EXCEPT !.status = "uploading"]
      BY <1>2, <1>3, <3>1, <3>3 DEF Resting
    <3> QED
      BY <3>2, <3>3
  <2>2. CASE Complete(w)
    <3>1. \/ assets'[m] = assets[m]
          \/ assets'[m] = [assets[m] EXCEPT !.status = Ended(calls[w].kind)]
      BY <1>1, <2>2 DEF Complete, TypeOK
    <3>2. Ended(calls[w].kind) \notin {"absent", "uploading"}
      BY DEF Ended
    <3> QED
      BY <1>2, <1>3, <3>1, <3>2
  <2>3. CASE ~Rollback(w) /\ ~Complete(w)
    <3>1. assets'[m] = assets[m] \/ assets'[m] = Claimed(assets[m])
      BY <1>1, <1>7, <2>3
         DEF PurgeStep, PurgeOrphan, PurgeStaleUpload, Claim, ClaimAborted, ClaimLeaked,
             DeleteObject, DeleteFails, TypeOK
    <3> QED
      BY <1>2, <1>3, <3>1
  <2> QED
    BY <2>1, <2>2, <2>3
<1>8. CASE Tick
  <2>1. assets'[m] = AgedAsset(assets[m])
    BY <1>8 DEF Tick
  <2> QED
    BY <1>2, <1>3, <2>1
<1>9. CASE UNCHANGED vars
  BY <1>2, <1>3, <1>9 DEF vars
<1> QED
  BY <1>4, <1>5, <1>6, <1>7, <1>8, <1>9 DEF Next

(* Linking changes counters, deadlines, and ready to orphaned and back. *)
LEMMA LinkSameBytes ==
  ASSUME GraphInv, LinkStep, NEW m \in MediaIDs
  PROVE  SameBytes(assets[m], assets'[m])
<1>1. TypeOK /\ LinkedIsReady
  BY GraphInvImplies DEF GraphInv
<1>2. \A a \in Asset : \A l : a.status \in Served => SameBytes(a, Attached(a, l))
  <2> TAKE a \in Asset
  <2> TAKE l
  <2> QED
    BY DEF Attached, SameBytes, Asset, Served
<1>3. \A a \in Asset : /\ SameBytes(a, Detached(a)) /\ SameBytes(a, Reattached(a))
                       /\ SameBytes(a, a)
                       /\ a.status \in Served => SameBytes(a, Dropped(a))
  BY DEF Detached, Reattached, Dropped, SameBytes, Asset, Served
<1>4. ASSUME NEW x \in MediaIDs, NEW s \in Slots, Link(x, s)
      PROVE  SameBytes(assets[m], assets'[m])
  <2>1. assets[m] \in Asset /\ (m = x => assets[m].status \in Served)
    BY <1>1, <1>4 DEF Link, Linkable, TypeOK, Served
  <2>2. \/ m = x /\ assets'[m] = Attached(assets[m], links[m][s])
        \/ assets'[m] = Detached(assets[m])
        \/ assets'[m] = assets[m]
    BY <1>4 DEF Link
  <2> QED
    BY <1>2, <1>3, <2>1, <2>2
<1>5. ASSUME NEW s \in Slots, Unlink(s)
      PROVE  SameBytes(assets[m], assets'[m])
  <2>1. assets'[m] = Detached(assets[m]) \/ assets'[m] = assets[m]
    BY <1>1, <1>5 DEF Unlink, TypeOK
  <2> QED
    BY <1>1, <1>3, <2>1 DEF TypeOK
<1>6. ASSUME NEW x \in MediaIDs, NEW s \in Slots, Restore(x, s)
      PROVE  SameBytes(assets[m], assets'[m])
  <2>1. assets'[m] = Reattached(assets[m]) \/ assets'[m] = assets[m]
    BY <1>1, <1>6 DEF Restore, TypeOK
  <2> QED
    BY <1>1, <1>3, <2>1 DEF TypeOK
<1>7. ASSUME NEW x \in MediaIDs, NEW s \in Slots, PurgeExpiredLink(x, s)
      PROVE  SameBytes(assets[m], assets'[m])
  <2>1. assets[x].status \in Served
    BY <1>1, <1>7 DEF PurgeExpiredLink, LinkedIsReady, Recorded, Served
  <2>2. (m = x /\ assets'[m] = Dropped(assets[m])) \/ assets'[m] = assets[m]
    BY <1>1, <1>7 DEF PurgeExpiredLink, TypeOK
  <2> QED
    BY <1>1, <1>3, <2>1, <2>2 DEF TypeOK
<1> QED
  BY <1>4, <1>5, <1>6, <1>7 DEF LinkStep

(* The life of an asset: which steps change its status, and from what to   *)
(* what.                                                                   *)
ClaimedNow(m) ==
  /\ assets[m].status \in {"orphaned", "uploading"}
  /\ assets'[m].status = "purging"
  /\ \E w \in Workers : calls'[w].pc = "delete" /\ calls'[w].media = m

PurgeEnded(m) ==
  /\ assets[m].status = "purging"
  /\ \E w \in Workers :
       /\ calls[w].pc \in Ending /\ calls[w].media = m /\ calls'[w].pc = "idle"
       /\ assets'[m].status = IF calls[w].pc = "rollback" THEN Resting(calls[w].kind)
                              ELSE Ended(calls[w].kind)

LEMMA StatusStep ==
  ASSUME GraphInv, [Next]_vars, NEW m \in MediaIDs
  PROVE  \/ assets'[m].status = assets[m].status
         \/ assets[m].status \in Served /\ assets'[m].status \in Served
         \/ Granted(m)
         \/ Committed(m)
         \/ ClaimedNow(m)
         \/ PurgeEnded(m)
<1>0. TypeOK /\ assets[m] \in Asset
  BY DEF GraphInv, TypeOK
<1>1. CASE LinkStep
  BY <1>1, LinkSameBytes DEF SameBytes
<1>2. CASE ClientStep
  BY <1>0, <1>2 DEF ClientStep, BeginUpload, PutObject, TypeOK, Granted
<1>3. ASSUME NEW w \in Workers, UploadStep(w) \/ Crash(w)
      PROVE  Committed(m) \/ assets'[m] = assets[m]
  BY <1>0, <1>3
     DEF UploadStep, FinalizeUpload, ReadAttrs, HashObject, DecodeObject, CommitFinalize,
         Crash, TypeOK, Committed
<1>4. ASSUME NEW w \in Workers, Rollback(w) \/ Complete(w)
      PROVE  PurgeEnded(m) \/ assets'[m] = assets[m]
  <2>1. calls'[w].pc = "idle" /\ calls[w].pc \in Ending
    BY <1>0, <1>4 DEF Rollback, Complete, Return, Idle, TypeOK, Ending
  <2>2. \A status : [assets[m] EXCEPT !.status = status].status = status
    BY <1>0 DEF Asset
  <2>3. CASE Rollback(w)
    BY <1>0, <2>1, <2>2, <2>3 DEF Rollback, TypeOK, PurgeEnded
  <2>4. CASE Complete(w)
    BY <1>0, <2>1, <2>2, <2>4 DEF Complete, Completable, TypeOK, PurgeEnded
  <2> QED
    BY <1>4, <2>3, <2>4
<1>5. ASSUME NEW w \in Workers, PurgeStep(w), ~Rollback(w), ~Complete(w)
      PROVE  ClaimedNow(m) \/ assets'[m] = assets[m]
  <2>1. ASSUME NEW x \in MediaIDs, NEW kind \in PurgeKinds, Claim(w, x, kind)
        PROVE  ClaimedNow(m) \/ assets'[m] = assets[m]
    <3>1. Claimed(assets[m]).status = "purging"
      BY <1>0 DEF Claimed, Asset
    <3>2. calls'[w].pc = "delete" /\ calls'[w].media = x
      BY <1>0, <2>1 DEF Claim, Purging, Idle, TypeOK
    <3> QED
      BY <1>0, <2>1, <3>1, <3>2
         DEF Claim, Claimable, OrphanClaimable, StaleClaimable, TypeOK, ClaimedNow
  <2> QED
    BY <1>5, <2>1
       DEF PurgeStep, PurgeOrphan, PurgeStaleUpload, PurgeKinds, ClaimAborted, ClaimLeaked,
           DeleteObject, DeleteFails
<1>6. CASE Tick
  BY <1>0, <1>6 DEF Tick, AgedAsset, Asset
<1> QED
  BY <1>1, <1>2, <1>3, <1>4, <1>5, <1>6 DEF Next, vars

LEMMA WorkersMindThemselves ==
  ASSUME TypeOK, NEW w \in Workers, NEW v \in Workers \ {w},
         UploadStep(v) \/ PurgeStep(v) \/ Crash(v)
  PROVE  calls'[w] = calls[w]
BY DEF UploadStep, FinalizeUpload, ReadAttrs, HashObject, DecodeObject, CommitFinalize,
       PurgeStep, PurgeOrphan, PurgeStaleUpload, Claim, ClaimAborted, ClaimLeaked,
       DeleteObject, DeleteFails, Proceed, Rollback, Complete, Crash, Return, TypeOK

LEMMA PurgersFinalizeNothing ==
  ASSUME TypeOK, NEW w \in Workers, PurgeStep(w) \/ Crash(w)
  PROVE  calls'[w].pc \notin Finalizing
<1>0. calls[w] \in Call
  BY DEF TypeOK
<1>1. ASSUME NEW pc \in {"claim", "delete"}, NEW m, NEW kind, NEW a,
             calls' = [calls EXCEPT ![w] = Purging(pc, m, kind, a)]
      PROVE  calls'[w].pc \notin Finalizing
  BY <1>1 DEF Purging, Idle, TypeOK, Finalizing
<1>2. CASE DeleteObject(w) \/ DeleteFails(w)
  <2>1. calls'[w] = [calls[w] EXCEPT !.pc = "complete"]
        \/ calls'[w] = [calls[w] EXCEPT !.pc = "rollback"]
    BY <1>2 DEF DeleteObject, DeleteFails, Proceed, TypeOK
  <2> QED
    BY <1>0, <2>1 DEF Finalizing, Call
<1>3. CASE Rollback(w) \/ Complete(w) \/ Crash(w)
  BY <1>3 DEF Rollback, Complete, Crash, Return, Idle, TypeOK, Finalizing
<1>4. CASE ClaimLeaked(w)
  BY <1>1, <1>4 DEF ClaimLeaked
<1>5. ASSUME NEW m \in MediaIDs, PurgeOrphan(w, m) \/ PurgeStaleUpload(w, m)
      PROVE  calls'[w].pc \notin Finalizing
  BY <1>1, <1>5 DEF PurgeOrphan, PurgeStaleUpload, Claim, ClaimAborted
<1>6. \/ \E m \in MediaIDs : PurgeOrphan(w, m) \/ PurgeStaleUpload(w, m)
      \/ ClaimLeaked(w) \/ DeleteObject(w) \/ DeleteFails(w) \/ Rollback(w)
      \/ Complete(w) \/ Crash(w)
  BY DEF PurgeStep
<1> QED
  BY <1>2, <1>3, <1>4, <1>5, <1>6

LEMMA ObjectStep ==
  ASSUME TypeOK, [Next]_vars, NEW m \in MediaIDs
  PROVE  \/ /\ objects'[m].generation = objects[m].generation
            /\ objects'[m].content = objects[m].content
            /\ objects'[m].live => objects[m].live
         \/ objects'[m].generation = objects[m].generation + 1
<1>1. objects[m] \in Object /\ objects \in [MediaIDs -> Object]
  BY DEF TypeOK
<1>2. CASE objects' = objects
  BY <1>2
<1>3. ASSUME NEW x \in MediaIDs, NEW c \in Contents, PutObject(x, c)
      PROVE  objects'[m] = objects[m] \/ objects'[m].generation = objects[m].generation + 1
  BY <1>1, <1>3 DEF PutObject
<1>4. ASSUME NEW w \in Workers, DeleteObject(w) \/ DeleteFails(w)
      PROVE  objects'[m] = objects[m] \/ objects'[m] = [objects[m] EXCEPT !.live = FALSE]
  BY <1>1, <1>4 DEF DeleteObject, DeleteFails
<1>5. /\ [objects[m] EXCEPT !.live = FALSE].generation = objects[m].generation
      /\ [objects[m] EXCEPT !.live = FALSE].content = objects[m].content
      /\ ~[objects[m] EXCEPT !.live = FALSE].live
  BY <1>1 DEF Object
<1>6. \/ objects' = objects
      \/ \E x \in MediaIDs, c \in Contents : PutObject(x, c)
      \/ \E w \in Workers : DeleteObject(w) \/ DeleteFails(w)
  BY DEF Next, vars, LinkStep, Link, Unlink, Restore, PurgeExpiredLink, ClientStep,
         BeginUpload, Tick, Crash, UploadStep, FinalizeUpload, ReadAttrs, HashObject,
         DecodeObject, CommitFinalize, PurgeStep, PurgeOrphan, PurgeStaleUpload, Claim,
         ClaimAborted, ClaimLeaked, Rollback, Complete
<1> QED
  BY <1>2, <1>3, <1>4, <1>5, <1>6

NoReruns == \A w \in Workers : calls[w].pc # "claim"

Purgers == {"claim"} \cup Holding

LEMMA UploadersPurgeNothing ==
  ASSUME TypeOK, NEW w \in Workers, UploadStep(w)
  PROVE  calls'[w].pc \notin Purgers
<1>0. calls \in [Workers -> Call] /\ calls[w] \in Call /\ Idle.pc = "idle"
  BY DEF TypeOK, Idle
<1>1. calls'[w].pc \in {"idle", "attrs", "hash", "decode", "commit"} => calls'[w].pc \notin Purgers
  BY DEF Purgers, Holding
<1>2. CASE CommitFinalize(w)
  BY <1>0, <1>1, <1>2 DEF CommitFinalize, Return
<1>3. ASSUME NEW m \in MediaIDs, NEW sha \in Contents, FinalizeUpload(w, m, sha)
      PROVE  calls'[w].pc \notin Purgers
  <2> DEFINE next == [Idle EXCEPT !.pc = "attrs", !.media = m, !.sha = sha, !.asset = assets[m]]
  <2>1. calls' = [calls EXCEPT ![w] = next]
    BY <1>3 DEF FinalizeUpload
  <2>2. next.pc = "attrs"
    BY DEF Idle
  <2> HIDE DEF next
  <2> QED
    BY <1>0, <1>1, <2>1, <2>2
<1>4. CASE ReadAttrs(w)
  <2> DEFINE next == [calls[w] EXCEPT !.pc = "hash",
                     !.generation = objects[calls[w].media].generation,
                     !.shape = ShapeOf[objects[calls[w].media].content]]
  <2>1. calls' \in {[calls EXCEPT ![w] = next], [calls EXCEPT ![w] = Idle]}
    BY <1>4 DEF ReadAttrs, Return
  <2>2. next.pc = "hash"
    BY <1>0 DEF Call
  <2> HIDE DEF next
  <2> QED
    BY <1>0, <1>1, <2>1, <2>2
<1>5. CASE HashObject(w)
  <2> DEFINE next == [calls[w] EXCEPT !.pc = "decode",
                     !.hashed = objects[calls[w].media].content]
  <2>1. calls' \in {[calls EXCEPT ![w] = next], [calls EXCEPT ![w] = Idle]}
    BY <1>5 DEF HashObject, Return
  <2>2. next.pc = "decode"
    BY <1>0 DEF Call
  <2> HIDE DEF next
  <2> QED
    BY <1>0, <1>1, <2>1, <2>2
<1>6. CASE DecodeObject(w)
  <2> DEFINE next == [calls[w] EXCEPT !.pc = "commit", !.asset = Finalized(calls[w])]
  <2>1. calls' \in {[calls EXCEPT ![w] = next], [calls EXCEPT ![w] = Idle]}
    BY <1>6 DEF DecodeObject, Return
  <2>2. next.pc = "commit"
    BY <1>0 DEF Call
  <2> HIDE DEF next
  <2> QED
    BY <1>0, <1>1, <2>1, <2>2
<1> QED
  BY <1>2, <1>3, <1>4, <1>5, <1>6 DEF UploadStep

\* A purge of m goes on, or begins with m as a claim wants it.
LEMMA PurgerStep ==
  ASSUME TypeOK, [Next]_vars, NEW m \in MediaIDs, NEW w \in Workers,
         calls'[w].pc \in Purgers, calls'[w].media = m
  PROVE  \/ calls[w].pc \in Purgers /\ calls[w].media = m
         \/ assets[m].status \in {"orphaned", "uploading"}
<1>1. calls[w] \in Call /\ calls \in [Workers -> Call] /\ Idle.pc = "idle"
  BY DEF TypeOK, Idle
<1>2. CASE calls'[w] = calls[w]
  BY <1>2
<1>3. ASSUME NEW x \in MediaIDs, NEW kind \in PurgeKinds,
             Claim(w, x, kind) \/ ClaimAborted(w, x, kind)
      PROVE  assets[m].status \in {"orphaned", "uploading"}
  <2>1. calls'[w].media = x
    BY <1>1, <1>3 DEF Claim, ClaimAborted, Purging, Idle
  <2> QED
    BY <1>3, <2>1 DEF Claim, ClaimAborted, Claimable, OrphanClaimable, StaleClaimable
<1>4. CASE ClaimLeaked(w)
  <2>1. calls'[w].media = calls[w].media /\ calls[w].pc = "claim"
    BY <1>1, <1>4 DEF ClaimLeaked, Purging, Idle
  <2> QED
    BY <2>1 DEF Purgers
<1>5. CASE DeleteObject(w) \/ DeleteFails(w)
  <2>1. calls'[w].media = calls[w].media /\ calls[w].pc = "delete"
    BY <1>1, <1>5 DEF DeleteObject, DeleteFails, Proceed, Call
  <2> QED
    BY <2>1 DEF Purgers, Holding
<1>6. ~Rollback(w) /\ ~Complete(w) /\ ~Crash(w)
  BY <1>1 DEF Rollback, Complete, Crash, Return, Purgers, Holding
<1>7. ~UploadStep(w)
  BY UploadersPurgeNothing
<1>8. CASE Tick
  <2>1. calls'[w] = [calls[w] EXCEPT !.asset = AgedAsset(calls[w].asset)]
    BY <1>8 DEF Tick
  <2> QED
    BY <1>1, <2>1 DEF Call
<1>9. ASSUME NEW v \in Workers \ {w}, UploadStep(v) \/ PurgeStep(v) \/ Crash(v)
      PROVE  calls'[w] = calls[w]
  BY <1>9, WorkersMindThemselves
<1>10. CASE ClientStep \/ LinkStep \/ UNCHANGED vars
  BY <1>2, <1>10
     DEF ClientStep, BeginUpload, PutObject, LinkStep, Link, Unlink, Restore,
         PurgeExpiredLink, vars
<1>11. CASE PurgeStep(w)
  BY <1>3, <1>4, <1>5, <1>6, <1>11 DEF PurgeStep, PurgeOrphan, PurgeStaleUpload, PurgeKinds
<1> QED
  BY <1>2, <1>6, <1>7, <1>8, <1>9, <1>10, <1>11 DEF Next

(* A purge goes on, or has just claimed its asset.                         *)
LEMMA HolderStep ==
  ASSUME TypeOK, NoReruns, [Next]_vars, NEW w \in Workers, calls'[w].pc \in Holding
  PROVE  \/ /\ calls[w].pc \in Holding
            /\ calls'[w].media = calls[w].media /\ calls'[w].kind = calls[w].kind
         \/ /\ calls'[w].media \in MediaIDs
            /\ Claimable(calls'[w].kind, assets[calls'[w].media])
            /\ assets'[calls'[w].media] = Claimed(assets[calls'[w].media])
            /\ \A v \in Workers \ {w} : calls'[v] = calls[v]
<1>1. calls[w] \in Call /\ calls[w].pc # "claim"
  BY DEF TypeOK, NoReruns
<1>2. CASE calls'[w] = calls[w]
  BY <1>2
<1>3. ASSUME NEW m \in MediaIDs, NEW kind \in PurgeKinds, Claim(w, m, kind)
      PROVE  /\ calls'[w].media = m /\ calls'[w].kind = kind
             /\ Claimable(kind, assets[m]) /\ assets'[m] = Claimed(assets[m])
             /\ \A v \in Workers \ {w} : calls'[v] = calls[v]
  BY <1>3 DEF Claim, Purging, Idle, TypeOK
<1>4. CASE DeleteObject(w) \/ DeleteFails(w)
  <2>1. /\ calls[w].pc = "delete"
        /\ \E pc : calls'[w] = [calls[w] EXCEPT !.pc = pc]
    BY <1>4 DEF DeleteObject, DeleteFails, Proceed, TypeOK
  <2> QED
    BY <1>1, <2>1 DEF Holding, Call
<1>5. ASSUME NEW m \in MediaIDs, NEW kind \in PurgeKinds, ClaimAborted(w, m, kind)
      PROVE  FALSE
  BY <1>5 DEF ClaimAborted, Purging, Idle, TypeOK, Holding
<1>6. ~ClaimLeaked(w)
  BY <1>1 DEF ClaimLeaked
<1>7. Idle.pc \notin Holding
  BY DEF Idle, Holding
<1>8. ~Rollback(w) /\ ~Complete(w) /\ ~Crash(w)
  BY <1>7 DEF Rollback, Complete, Crash, Return, TypeOK
<1>9. ~UploadStep(w)
  BY UploadersPurgeNothing DEF Purgers, Holding
<1>10. CASE Tick
  <2>1. calls'[w] = [calls[w] EXCEPT !.asset = AgedAsset(calls[w].asset)]
    BY <1>10 DEF Tick
  <2> QED
    BY <1>1, <2>1 DEF Call
<1>11. ASSUME NEW v \in Workers \ {w}, UploadStep(v) \/ PurgeStep(v) \/ Crash(v)
       PROVE  calls'[w] = calls[w]
  BY <1>11, WorkersMindThemselves
<1>12. CASE ClientStep \/ LinkStep \/ UNCHANGED vars
  BY <1>2, <1>12
     DEF ClientStep, BeginUpload, PutObject, LinkStep, Link, Unlink, Restore,
         PurgeExpiredLink, vars
<1>13. CASE PurgeStep(w)
  <2>1. "orphan" \in PurgeKinds /\ "stale" \in PurgeKinds
    BY DEF PurgeKinds
  <2>2. PICK m \in MediaIDs : PurgeOrphan(w, m) \/ PurgeStaleUpload(w, m)
                             \/ DeleteObject(w) \/ DeleteFails(w)
    BY <1>6, <1>8, <1>13, <1>4 DEF PurgeStep, DeleteObject, DeleteFails, TypeOK
  <2> QED
    BY <1>3, <1>4, <1>5, <2>1, <2>2 DEF PurgeOrphan, PurgeStaleUpload
<1> QED
  BY <1>2, <1>8, <1>9, <1>10, <1>11, <1>12, <1>13 DEF Next

(* A finalizer goes on with what it has, or has just looked at the object  *)
(* once more.                                                              *)
ReaderGoesOn(c, d) ==
  /\ d.pc = c.pc /\ d.media = c.media /\ d.generation = c.generation /\ d.hashed = c.hashed
  /\ d.asset.generation = c.asset.generation /\ d.asset.sha = c.asset.sha
  /\ d.asset.status = c.asset.status

ReaderReads(c, d, o) ==
  /\ d.media = c.media /\ o.live
  /\ \/ d.pc = "hash" /\ d.generation = o.generation
     \/ /\ c.pc = "hash" /\ d.pc = "decode"
        /\ d.generation = c.generation /\ d.hashed = o.content
     \/ /\ c.pc = "decode" /\ d.pc = "commit"
        /\ d.generation = c.generation /\ d.hashed = c.hashed
        /\ d.asset.generation = c.generation /\ d.asset.sha = c.hashed
        /\ d.asset.status = "ready" /\ o.content \in Images

LEMMA CallReads ==
  ASSUME TypeOK, [Next]_vars, NEW w \in Workers, calls'[w].pc \in Reading
  PROVE  /\ calls[w].media \in MediaIDs
         /\ \/ ReaderGoesOn(calls[w], calls'[w])
            \/ objects' = objects /\ ReaderReads(calls[w], calls'[w], objects[calls[w].media])
<1> DEFINE c == calls[w]
           o == objects[c.media]
<1>1. /\ c \in Call /\ c.asset \in Asset /\ calls \in [Workers -> Call]
      /\ c.pc # "idle" => c.media \in MediaIDs
  BY DEF TypeOK, Call
<1>2. Reading \subseteq Finalizing /\ Idle.pc \notin Reading /\ "idle" \notin Reading
      /\ "attrs" \notin Reading
  BY DEF Reading, Finalizing, Idle
<1>3. CASE calls'[w] = c
  BY <1>1, <1>2, <1>3 DEF ReaderGoesOn
<1>4. ASSUME NEW m \in MediaIDs, NEW sha \in Contents, FinalizeUpload(w, m, sha)
      PROVE  FALSE
  BY <1>1, <1>2, <1>4 DEF FinalizeUpload, Idle
<1>5. CASE ReadAttrs(w)
  <2> DEFINE next == [c EXCEPT !.pc = "hash", !.generation = o.generation, !.shape = ShapeOf[o.content]]
  <2>1. /\ c.pc = "attrs" /\ objects' = objects
        /\ \/ o.live /\ calls' = [calls EXCEPT ![w] = next]
           \/ calls' = [calls EXCEPT ![w] = Idle]
    BY <1>5 DEF ReadAttrs, Return
  <2>2. next.pc = "hash" /\ next.media = c.media /\ next.generation = o.generation
    BY <1>1 DEF Call
  <2> HIDE DEF next
  <2>3. calls'[w] = next /\ o.live
    BY <1>1, <1>2, <2>1
  <2> QED
    BY <1>1, <2>1, <2>2, <2>3 DEF ReaderReads
<1>6. CASE HashObject(w)
  <2> DEFINE next == [c EXCEPT !.pc = "decode", !.hashed = o.content]
  <2>1. /\ c.pc = "hash" /\ objects' = objects
        /\ \/ o.live /\ calls' = [calls EXCEPT ![w] = next]
           \/ calls' = [calls EXCEPT ![w] = Idle]
    BY <1>6 DEF HashObject, Return
  <2>2. /\ next.pc = "decode" /\ next.media = c.media /\ next.generation = c.generation
        /\ next.hashed = o.content
    BY <1>1 DEF Call
  <2> HIDE DEF next
  <2>3. calls'[w] = next /\ o.live
    BY <1>1, <1>2, <2>1
  <2> QED
    BY <1>1, <2>1, <2>2, <2>3 DEF ReaderReads
<1>7. CASE DecodeObject(w)
  <2> DEFINE next == [c EXCEPT !.pc = "commit", !.asset = Finalized(c)]
  <2>1. /\ c.pc = "decode" /\ objects' = objects
        /\ \/ Accepted(c, o) /\ calls' = [calls EXCEPT ![w] = next]
           \/ calls' = [calls EXCEPT ![w] = Idle]
    BY <1>7 DEF DecodeObject, Return
  <2>2. /\ Finalized(c).generation = c.generation /\ Finalized(c).sha = c.hashed
        /\ Finalized(c).status = "ready"
    BY <1>1 DEF Finalized, Asset
  <2>3. /\ next.pc = "commit" /\ next.media = c.media /\ next.generation = c.generation
        /\ next.hashed = c.hashed /\ next.asset = Finalized(c)
    BY <1>1 DEF Call
  <2> HIDE DEF next
  <2>4. calls'[w] = next /\ o.live /\ o.content \in Images
    BY <1>1, <1>2, <2>1 DEF Accepted
  <2> QED
    BY <1>1, <2>1, <2>2, <2>3, <2>4 DEF ReaderReads
<1>8. CASE CommitFinalize(w)
  BY <1>1, <1>2, <1>8 DEF CommitFinalize, Return
<1>9. CASE Tick
  <2>1. calls'[w] = [c EXCEPT !.asset = AgedAsset(c.asset)]
    BY <1>9 DEF Tick
  <2>2. /\ AgedAsset(c.asset).generation = c.asset.generation
        /\ AgedAsset(c.asset).sha = c.asset.sha
        /\ AgedAsset(c.asset).status = c.asset.status
    BY <1>1 DEF AgedAsset, Asset
  <2>3. /\ calls'[w].pc = c.pc /\ calls'[w].media = c.media
        /\ calls'[w].generation = c.generation /\ calls'[w].hashed = c.hashed
        /\ calls'[w].asset = AgedAsset(c.asset)
    BY <1>1, <2>1 DEF Call
  <2> QED
    BY <1>1, <1>2, <2>2, <2>3 DEF ReaderGoesOn
<1>10. CASE PurgeStep(w) \/ Crash(w)
  BY <1>2, <1>10, PurgersFinalizeNothing
<1>11. ASSUME NEW v \in Workers \ {w}, UploadStep(v) \/ PurgeStep(v) \/ Crash(v)
       PROVE  calls'[w] = c
  BY <1>11, WorkersMindThemselves
<1>12. CASE ClientStep \/ LinkStep \/ UNCHANGED vars
  BY <1>3, <1>12
     DEF ClientStep, BeginUpload, PutObject, LinkStep, Link, Unlink, Restore,
         PurgeExpiredLink, vars
<1> QED
  BY <1>3, <1>4, <1>5, <1>6, <1>7, <1>8, <1>9, <1>10, <1>11, <1>12 DEF Next, UploadStep

-----------------------------------------------------------------------------
(* Generations: an asset that names one names bytes that were stored as    *)
(* that generation, and what is stored later has a later one.  So a        *)
(* finalizer that reads the generation first and the bytes later records a *)
(* pair that belongs together, or one whose generation is gone: no purge   *)
(* has to be kept away from it.                                            *)

Belongs(generation, content, o) ==
  /\ generation <= o.generation
  /\ generation >= 1 /\ generation = o.generation => content = o.content

(* What a record names was looked at as an image, or is gone. *)
Authentic(a, o) ==
  /\ Belongs(a.generation, a.sha, o)
  /\ a.generation >= 1 /\ a.generation = o.generation => a.sha \in Images

Finished(a) == a.generation >= 1 /\ a.sha # NoContent
Blank(a) == a.generation = 0 /\ a.sha = NoContent

Reader(call, o) ==
  /\ 1 <= call.generation /\ call.generation <= o.generation
  /\ call.pc \in {"decode", "commit"} =>
       Belongs(call.generation, call.hashed, o) /\ call.hashed # NoContent
  /\ call.pc = "commit" =>
       Authentic(call.asset, o) /\ Finished(call.asset) /\ call.asset.status = "ready"

PinInv ==
  /\ TypeOK
  /\ \A m \in MediaIDs : objects[m].live => objects[m].generation >= 1
  /\ \A m \in MediaIDs : Authentic(assets[m], objects[m])
  /\ \A w \in Workers : calls[w].pc \in Reading => Reader(calls[w], objects[calls[w].media])

LEMMA InitPins == Init => PinInv
<1> SUFFICES ASSUME Init PROVE PinInv
  OBVIOUS
<1>1. /\ \A m \in MediaIDs : assets[m].generation = 0
      /\ \A m \in MediaIDs : objects[m].generation = 0 /\ ~objects[m].live
  BY DEF Init, Absent
<1>2. \A w \in Workers : calls[w].pc \notin Reading
  BY DEF Init, Idle, Reading
<1> QED
  BY <1>1, <1>2, InitTypeOK DEF PinInv, Authentic, Belongs

LEMMA PinStep ==
  ASSUME PinInv, [Next]_vars
  PROVE  PinInv'
<1>1. TypeOK /\ TypeOK'
  BY StepTypeOK DEF PinInv
<1>2. ASSUME NEW m \in MediaIDs
      PROVE  objects[m].generation \in Nat /\ objects'[m].generation \in Nat
  BY <1>1 DEF TypeOK, Object
<1>3. ASSUME NEW m \in MediaIDs, NEW g \in Nat, NEW content
      PROVE  /\ g <= objects[m].generation => g <= objects'[m].generation
             /\ Belongs(g, content, objects[m]) => Belongs(g, content, objects'[m])
             /\ g <= objects[m].generation /\ g = objects'[m].generation => g = objects[m].generation
  BY <1>1, <1>2, ObjectStep DEF Belongs
<1>4. ASSUME NEW m \in MediaIDs, NEW a \in Asset, Authentic(a, objects[m])
      PROVE  Authentic(a, objects'[m])
  <2>1. a.generation \in Nat
    BY DEF Asset
  <2> QED
    BY <1>2, <1>3, <1>4, <2>1 DEF Authentic, Belongs
<1>5. ASSUME NEW m \in MediaIDs, objects'[m].live
      PROVE  objects'[m].generation >= 1
  BY <1>1, <1>2, <1>5, ObjectStep DEF PinInv
<1>6. ASSUME NEW m \in MediaIDs
      PROVE  Authentic(assets'[m], objects'[m])
  <2>1. CASE Granted(m)
    <3>1. assets'[m].generation = 0
      BY <2>1 DEF Granted, NewUpload, Absent
    <3> QED
      BY <1>2, <3>1 DEF Authentic, Belongs
  <2>2. CASE Committed(m)
    <3>1. PICK w \in Workers : /\ calls[w].pc = "commit" /\ calls[w].media = m
                               /\ assets'[m] = calls[w].asset
      BY <2>2 DEF Committed
    <3>2. Authentic(calls[w].asset, objects[m])
      BY <3>1 DEF PinInv, Reading, Reader
    <3>3. calls[w].asset \in Asset
      BY <1>1 DEF TypeOK, Call
    <3> QED
      BY <1>4, <3>1, <3>2, <3>3
  <2>3. CASE Updated(m)
    <3>1. assets'[m].generation = assets[m].generation /\ assets'[m].sha = assets[m].sha
      BY <2>3 DEF Updated, SameRecord
    <3>2. assets[m] \in Asset /\ Authentic(assets[m], objects'[m])
      BY <1>1, <1>4 DEF PinInv, TypeOK
    <3> QED
      BY <3>1, <3>2 DEF Authentic
  <2> QED
    BY <1>1, <2>1, <2>2, <2>3, AssetStep
<1>7. ASSUME NEW w \in Workers, calls'[w].pc \in Reading
      PROVE  Reader(calls'[w], objects'[calls'[w].media])
  <2> DEFINE c == calls[w]  d == calls'[w]  o == objects[c.media]
  <2>1. /\ c.media \in MediaIDs /\ d.media = c.media
        /\ ReaderGoesOn(c, d) \/ (objects' = objects /\ ReaderReads(c, d, o))
    BY <1>1, <1>7, CallReads DEF ReaderGoesOn, ReaderReads
  <2>2. /\ c.generation \in Nat /\ c.asset.generation \in Nat /\ c.asset \in Asset
        /\ o.generation \in Nat
    BY <1>1, <2>1 DEF TypeOK, Call, Asset, Object
  <2>3. c.pc \in Reading => Reader(c, o)
    BY DEF PinInv
  <2>4. CASE ReaderGoesOn(c, d)
    <3>1. /\ Reader(c, o) /\ d.generation = c.generation /\ d.pc = c.pc
          /\ d.hashed = c.hashed /\ d.asset.generation = c.asset.generation
          /\ d.asset.sha = c.asset.sha /\ d.asset.status = c.asset.status
      BY <1>7, <2>3, <2>4 DEF ReaderGoesOn
    <3>2. Reader(c, objects'[c.media])
      BY <1>3, <1>4, <2>1, <2>2, <3>1 DEF Reader
    <3> QED
      BY <2>1, <3>1, <3>2 DEF Reader, Authentic, Finished
  <2>5. CASE objects' = objects /\ ReaderReads(c, d, o)
    <3>1. o.live /\ o.generation >= 1 /\ o.content # NoContent
      BY <1>1, <2>1, <2>5, SentinelAssumption DEF ReaderReads, PinInv, TypeOK
    <3> HIDE DEF o
    <3>2. Reader(d, o)
      BY <2>2, <2>3, <2>5, <3>1
         DEF ReaderReads, Reader, Authentic, Finished, Belongs, Reading
    <3> QED
      BY <2>1, <2>5, <3>2 DEF o
  <2> QED
    BY <2>1, <2>4, <2>5
<1> QED
  BY <1>1, <1>5, <1>6, <1>7 DEF PinInv

LEMMA PinInvariant == Spec => []PinInv
<1>1. PinInv /\ [Next]_vars => PinInv'
  BY PinStep
<1> QED
  BY <1>1, InitPins, PTL DEF Spec

(* Reads that pin a recorded generation (gcs.go:42) get the recorded bytes *)
(* or nothing, however calls race, claims are run again and deletes        *)
(* misreport (service.go:518, 533): nothing has to be assumed for this.    *)
THEOREM PinnedStaysRecorded == Spec => []PinnedIsRecorded
<1>1. PinInv => PinnedIsRecorded
  <2> SUFFICES ASSUME PinInv, NEW m \in MediaIDs, assets[m].generation > 0,
                      objects[m].generation = assets[m].generation
               PROVE  objects[m].content = assets[m].sha
    BY DEF PinnedIsRecorded
  <2>1. assets[m].generation \in Nat
    BY DEF PinInv, TypeOK, Asset
  <2> QED
    BY <2>1 DEF PinInv, Authentic, Belongs
<1> QED
  BY <1>1, PinInvariant, PTL

-----------------------------------------------------------------------------
(* Ownership: a purge has the asset it claimed to itself, and knows what   *)
(* it claimed.                                                             *)

(* What is not finalized has neither hash nor generation; what is served   *)
(* has both; a purge still works on the kind of asset it claimed.          *)
RecordsFit ==
  /\ \A m \in MediaIDs :
       /\ assets[m].status \in Unfinished => Blank(assets[m])
       /\ assets[m].status \in Served => Finished(assets[m])
  /\ \A w \in Workers :
       calls[w].pc \in Holding =>
         IF calls[w].kind = "orphan" THEN Finished(assets[calls[w].media])
         ELSE Blank(assets[calls[w].media])

OwnInv == GraphInv /\ PinInv /\ NoReruns /\ PurgeIsExclusive /\ RecordsFit

LEMMA InitOwn == Init => OwnInv
<1> SUFFICES ASSUME Init PROVE OwnInv
  OBVIOUS
<1>1. \A w \in Workers : calls[w].pc = "idle"
  BY DEF Init, Idle
<1>2. \A m \in MediaIDs : assets[m].status = "absent" /\ Blank(assets[m])
  BY DEF Init, Absent, Blank
<1> QED
  BY <1>1, <1>2, InitGraph, InitPins
     DEF OwnInv, NoReruns, PurgeIsExclusive, RecordsFit, Holding, Served

LEMMA RunsOnceStep ==
  ASSUME RunsOnce, TypeOK, NoReruns, [Next]_vars
  PROVE  NoReruns'
<1> SUFFICES ASSUME NEW w \in Workers PROVE calls'[w].pc # "claim"
  BY DEF NoReruns
<1>1. calls[w] \in Call /\ calls[w].pc # "claim" /\ Idle.pc = "idle" /\ calls \in [Workers -> Call]
  BY DEF TypeOK, NoReruns, Idle
<1>2. CASE UploadStep(w) \/ PurgeStep(w)
  <2>1. ASSUME NEW m \in MediaIDs, NEW sha \in Contents, FinalizeUpload(w, m, sha)
        PROVE  calls'[w].pc = "attrs"
    BY <1>1, <2>1 DEF FinalizeUpload, Idle
  <2>2. CASE ReadAttrs(w) \/ HashObject(w) \/ DecodeObject(w) \/ CommitFinalize(w)
    <3>1. CASE Return(w)
      BY <1>1, <3>1 DEF Return
    <3> DEFINE o == objects[calls[w].media]
    <3>2. CASE ReadAttrs(w) /\ ~Return(w)
      <4> DEFINE next == [calls[w] EXCEPT !.pc = "hash", !.generation = o.generation,
                                          !.shape = ShapeOf[o.content]]
      <4>1. next.pc = "hash"
        BY <1>1 DEF Call
      <4>2. calls' = [calls EXCEPT ![w] = next]
        BY <3>2 DEF ReadAttrs
      <4> HIDE DEF next
      <4> QED
        BY <1>1, <4>1, <4>2
    <3>3. CASE HashObject(w) /\ ~Return(w)
      <4> DEFINE next == [calls[w] EXCEPT !.pc = "decode", !.hashed = o.content]
      <4>1. next.pc = "decode"
        BY <1>1 DEF Call
      <4>2. calls' = [calls EXCEPT ![w] = next]
        BY <3>3 DEF HashObject
      <4> HIDE DEF next
      <4> QED
        BY <1>1, <4>1, <4>2
    <3>4. CASE DecodeObject(w) /\ ~Return(w)
      <4> DEFINE next == [calls[w] EXCEPT !.pc = "commit", !.asset = Finalized(calls[w])]
      <4>1. next.pc = "commit"
        BY <1>1 DEF Call
      <4>2. calls' = [calls EXCEPT ![w] = next]
        BY <3>4 DEF DecodeObject
      <4> HIDE DEF next
      <4> QED
        BY <1>1, <4>1, <4>2
    <3> QED
      BY <2>2, <3>1, <3>2, <3>3, <3>4 DEF CommitFinalize
  <2>3. ASSUME NEW m \in MediaIDs, NEW kind \in PurgeKinds, Claim(w, m, kind)
        PROVE  calls'[w].pc = "delete"
    BY <1>1, <2>3 DEF Claim, Purging, Idle
  <2>4. CASE DeleteObject(w) \/ DeleteFails(w)
    <3>1. \E pc \in Ending : calls'[w] = [calls[w] EXCEPT !.pc = pc]
      BY <1>1, <2>4 DEF DeleteObject, DeleteFails, Proceed, Ending
    <3> QED
      BY <1>1, <3>1 DEF Call, Ending
  <2>5. CASE Rollback(w) \/ Complete(w)
    BY <1>1, <2>5 DEF Rollback, Complete, Return
  <2> QED
    BY <1>1, <1>2, <2>1, <2>2, <2>3, <2>4, <2>5
       DEF UploadStep, PurgeStep, PurgeOrphan, PurgeStaleUpload, PurgeKinds, ClaimAborted,
           ClaimLeaked, RunsOnce
<1>3. CASE Crash(w)
  BY <1>1, <1>3 DEF Crash, Return
<1>4. ASSUME NEW v \in Workers \ {w}, UploadStep(v) \/ PurgeStep(v) \/ Crash(v)
      PROVE  calls'[w] = calls[w]
  BY <1>4, WorkersMindThemselves
<1>5. CASE Tick
  <2>1. calls'[w] = [calls[w] EXCEPT !.asset = AgedAsset(calls[w].asset)]
    BY <1>5 DEF Tick
  <2> QED
    BY <1>1, <2>1 DEF Call
<1>6. CASE ClientStep \/ LinkStep \/ UNCHANGED vars
  BY <1>1, <1>6
     DEF ClientStep, BeginUpload, PutObject, LinkStep, Link, Unlink, Restore,
         PurgeExpiredLink, vars
<1> QED
  BY <1>1, <1>2, <1>3, <1>4, <1>5, <1>6 DEF Next

(* A purge that is not over keeps the asset marked. *)
LEMMA HeldStays ==
  ASSUME OwnInv, [Next]_vars, NEW w \in Workers,
         calls[w].pc \in Holding, calls'[w].pc \in Holding
  PROVE  /\ calls[w].media \in MediaIDs
         /\ assets[calls[w].media].status = "purging"
         /\ assets'[calls[w].media].status = "purging"
<1> DEFINE m == calls[w].media
<1>1. m \in MediaIDs /\ assets[m].status = "purging"
  BY DEF OwnInv, PinInv, TypeOK, PurgeIsExclusive, Holding
<1>2. ~PurgeEnded(m)
  BY DEF PurgeEnded, OwnInv, PurgeIsExclusive, Holding, Ending
<1> QED
  BY <1>1, <1>2, StatusStep DEF OwnInv, Served, Granted, Committed, ClaimedNow

LEMMA ExclusiveStep ==
  ASSUME OwnInv, [Next]_vars
  PROVE  PurgeIsExclusive'
<1>1. ASSUME NEW w \in Workers, calls'[w].pc \in Holding
      PROVE  /\ assets'[calls'[w].media].status = "purging"
             /\ \/ /\ calls[w].pc \in Holding /\ calls'[w].media = calls[w].media
                   /\ assets[calls[w].media].status = "purging"
                \/ /\ assets[calls'[w].media].status # "purging"
                   /\ \A v \in Workers \ {w} : calls'[v] = calls[v]
  <2>1. \A a \in Asset : /\ Claimed(a).status = "purging"
                         /\ \A kind : Claimable(kind, a) => a.status # "purging"
    BY DEF Claimed, Asset, Claimable, OrphanClaimable, StaleClaimable
  <2>2. assets \in [MediaIDs -> Asset] /\ TypeOK
    BY DEF OwnInv, PinInv, TypeOK
  <2> QED
    BY <1>1, <2>1, <2>2, HolderStep, HeldStays DEF OwnInv
<1>2. ASSUME NEW w \in Workers, NEW v \in Workers \ {w},
             calls'[w].pc \in Holding, calls'[v].pc \in Holding
      PROVE  calls'[v].media # calls'[w].media
  BY <1>1, <1>2 DEF OwnInv, PurgeIsExclusive, Holding
<1> QED
  BY <1>1, <1>2 DEF PurgeIsExclusive, Holding

LEMMA RecordStep ==
  ASSUME OwnInv, [Next]_vars
  PROVE  RecordsFit'
<1>1. TypeOK /\ TypeOK' /\ GraphInv
  BY StepTypeOK DEF OwnInv, PinInv
<1>2. ASSUME NEW m \in MediaIDs
      PROVE  assets[m] \in Asset /\ assets'[m] \in Asset
  BY <1>1 DEF TypeOK
<1>3. ASSUME NEW m \in MediaIDs, SameRecord(assets[m], assets'[m])
      PROVE  /\ Blank(assets[m]) => Blank(assets'[m])
             /\ Finished(assets[m]) => Finished(assets'[m])
  BY <1>3 DEF SameRecord, Blank, Finished
<1>4. ASSUME NEW m \in MediaIDs, Committed(m)
      PROVE  assets'[m].status = "ready" /\ Finished(assets'[m])
  BY <1>4 DEF Committed, OwnInv, PinInv, Reading, Reader
<1>5. ASSUME NEW m \in MediaIDs, Granted(m)
      PROVE  assets'[m].status = "uploading" /\ Blank(assets'[m])
  BY <1>5 DEF Granted, NewUpload, Absent, Blank
<1>6. ASSUME NEW m \in MediaIDs, PurgeEnded(m), Updated(m)
      PROVE  /\ assets'[m].status \in Unfinished => Blank(assets'[m])
             /\ assets'[m].status \in Served => Finished(assets'[m])
  <2>1. PICK w \in Workers :
          /\ calls[w].pc \in Ending /\ calls[w].media = m
          /\ assets'[m].status = IF calls[w].pc = "rollback" THEN Resting(calls[w].kind)
                                 ELSE Ended(calls[w].kind)
    BY <1>6 DEF PurgeEnded
  <2>2. IF calls[w].kind = "orphan" THEN Finished(assets[m]) ELSE Blank(assets[m])
    BY <2>1 DEF OwnInv, RecordsFit, Ending, Holding
  <2>3. SameRecord(assets[m], assets'[m])
    BY <1>6 DEF Updated
  <2> QED
    BY <1>3, <2>1, <2>2, <2>3 DEF Resting, Ended, Unfinished, Served
<1>7. ASSUME NEW m \in MediaIDs
      PROVE  /\ assets'[m].status \in Unfinished => Blank(assets'[m])
             /\ assets'[m].status \in Served => Finished(assets'[m])
  <2>1. CASE Granted(m) \/ Committed(m)
    BY <1>4, <1>5, <2>1 DEF Unfinished, Served
  <2>2. CASE Updated(m) /\ ~PurgeEnded(m) /\ ~Granted(m) /\ ~Committed(m)
    <3>1. \/ assets'[m].status = assets[m].status
          \/ assets[m].status \in Served /\ assets'[m].status \in Served
          \/ assets'[m].status = "purging"
      BY <1>1, <2>2, StatusStep DEF ClaimedNow
    <3>2. /\ assets[m].status \in Unfinished => Blank(assets[m])
          /\ assets[m].status \in Served => Finished(assets[m])
      BY DEF OwnInv, RecordsFit
    <3>3. SameRecord(assets[m], assets'[m])
      BY <2>2 DEF Updated
    <3> QED
      BY <1>3, <3>1, <3>2, <3>3 DEF Unfinished, Served
  <2> QED
    BY <1>1, <1>6, <2>1, <2>2, AssetStep
<1>8. ASSUME NEW w \in Workers, calls'[w].pc \in Holding
      PROVE  IF calls'[w].kind = "orphan" THEN Finished(assets'[calls'[w].media])
             ELSE Blank(assets'[calls'[w].media])
  <2> DEFINE m == calls'[w].media
  <2>1. CASE calls[w].pc \in Holding /\ m = calls[w].media /\ calls'[w].kind = calls[w].kind
    <3>1. m \in MediaIDs /\ assets[m].status = "purging"
      BY <1>8, <2>1, HeldStays
    <3>2. SameRecord(assets[m], assets'[m])
      BY <1>1, <3>1, AssetStep DEF Granted, Committed, Updated
    <3> QED
      BY <1>3, <2>1, <3>1, <3>2 DEF OwnInv, RecordsFit
  <2>2. CASE /\ m \in MediaIDs /\ Claimable(calls'[w].kind, assets[m])
             /\ assets'[m] = Claimed(assets[m])
    <3>1. SameRecord(assets[m], assets'[m])
      BY <1>2, <2>2 DEF Claimed, Asset, SameRecord
    <3>2. IF calls'[w].kind = "orphan" THEN Finished(assets[m]) ELSE Blank(assets[m])
      BY <2>2
         DEF Claimable, OrphanClaimable, StaleClaimable, OwnInv, RecordsFit, Served, Unfinished
    <3> QED
      BY <1>3, <2>2, <3>1, <3>2
  <2> QED
    BY <1>1, <1>8, <2>1, <2>2, HolderStep DEF OwnInv
<1> QED
  BY <1>7, <1>8 DEF RecordsFit

LEMMA OwnStep ==
  ASSUME RunsOnce, OwnInv, [Next]_vars
  PROVE  OwnInv'
BY StepGraph, PinStep, RunsOnceStep, ExclusiveStep, RecordStep DEF OwnInv, PinInv

(* The inductive invariant behind what a claim is worth: the purge that    *)
(* made it (service.go:518, 642) has the asset to itself until it ends,    *)
(* and undoes it to what the asset was.                                    *)
THEOREM OwnInvariant == ASSUME RunsOnce PROVE Spec => []OwnInv
<1>1. OwnInv /\ [Next]_vars => OwnInv'
  BY OwnStep
<1> QED
  BY <1>1, InitOwn, PTL DEF Spec

(* The claim transactions (service.go:519, 643) admit one purge at a time, *)
(* and nobody takes the asset away from it, also when a delete misreports. *)
THEOREM PurgesAreExclusive == ASSUME RunsOnce PROVE Spec => []PurgeIsExclusive
<1>1. OwnInv => PurgeIsExclusive
  BY DEF OwnInv
<1> QED
  BY <1>1, OwnInvariant, PTL

(* What a purge of an orphan has deleted, or found deleted, is not there   *)
(* again: what is stored later has a later generation than was recorded.   *)
Removed(m) == objects[m].live => objects[m].generation # assets[m].generation

PurgedInv ==
  /\ \A w \in Workers :
       calls[w].pc = "complete" /\ calls[w].kind = "orphan" => Removed(calls[w].media)
  /\ \A m \in MediaIDs : assets[m].status = "deleted" => Finished(assets[m]) /\ Removed(m)

LEMMA RemovedStays ==
  ASSUME OwnInv, [Next]_vars, NEW m \in MediaIDs, Finished(assets[m]), Removed(m)
  PROVE  Finished(assets[m])' /\ Removed(m)'
<1>1. /\ TypeOK /\ assets[m].generation <= objects[m].generation
      /\ assets[m].status \notin Unfinished
  BY DEF OwnInv, PinInv, Authentic, Belongs, RecordsFit, Blank, Finished
<1>2. assets[m].generation \in Nat /\ objects[m].generation \in Nat
  BY <1>1 DEF TypeOK, Asset, Object
<1>3. SameRecord(assets[m], assets'[m]) \/ Committed(m)
  BY <1>1, AssetStep DEF Granted, Updated, Unfinished
<1>4. ~Committed(m)
  BY <1>1 DEF Committed, Unfinished
<1> QED
  BY <1>1, <1>2, <1>3, <1>4, ObjectStep DEF Removed, SameRecord, Finished

\* A purge that is done with the bytes was so before, or has just deleted them.
LEMMA CompleteStep ==
  ASSUME TypeOK, NoReruns, [Next]_vars, NEW w \in Workers, calls'[w].pc = "complete"
  PROVE  /\ calls[w].pc \in Holding
         /\ calls'[w].media = calls[w].media /\ calls'[w].kind = calls[w].kind
         /\ calls[w].pc = "complete" \/ ~objects'[calls[w].media].live
<1>1. /\ calls[w] \in Call /\ calls \in [Workers -> Call] /\ calls[w].pc # "claim"
      /\ calls[w].pc # "idle" => calls[w].media \in MediaIDs
  BY DEF TypeOK, NoReruns
<1>2. CASE calls'[w] = calls[w]
  BY <1>2 DEF Holding
<1>3. CASE DeleteObject(w)
  <2>1. /\ calls[w].pc = "delete" /\ calls'[w] = [calls[w] EXCEPT !.pc = "complete"]
        /\ ~objects'[calls[w].media].live
    BY <1>1, <1>3 DEF DeleteObject, Proceed, TypeOK, Object
  <2> QED
    BY <1>1, <2>1 DEF Call, Holding
<1>4. ASSUME NEW m \in MediaIDs, NEW kind \in PurgeKinds,
             Claim(w, m, kind) \/ ClaimAborted(w, m, kind)
      PROVE  FALSE
  BY <1>1, <1>4 DEF Claim, ClaimAborted, Purging, Idle
<1>5. ~DeleteFails(w) /\ ~Rollback(w) /\ ~Complete(w) /\ ~Crash(w) /\ ~ClaimLeaked(w)
  BY <1>1 DEF DeleteFails, Proceed, Rollback, Complete, Crash, Return, Idle, ClaimLeaked, Call
<1>6. ~UploadStep(w)
  BY UploadersPurgeNothing DEF Purgers, Holding
<1>7. CASE Tick
  <2>1. calls'[w] = [calls[w] EXCEPT !.asset = AgedAsset(calls[w].asset)]
    BY <1>7 DEF Tick
  <2> QED
    BY <1>1, <2>1 DEF Call, Holding
<1>8. ASSUME NEW v \in Workers \ {w}, UploadStep(v) \/ PurgeStep(v) \/ Crash(v)
      PROVE  calls'[w] = calls[w]
  BY <1>8, WorkersMindThemselves
<1>9. CASE ClientStep \/ LinkStep \/ UNCHANGED vars
  BY <1>2, <1>9
     DEF ClientStep, BeginUpload, PutObject, LinkStep, Link, Unlink, Restore,
         PurgeExpiredLink, vars
<1>10. CASE PurgeStep(w)
  BY <1>3, <1>4, <1>5, <1>10 DEF PurgeStep, PurgeOrphan, PurgeStaleUpload, PurgeKinds
<1> QED
  BY <1>2, <1>5, <1>6, <1>7, <1>8, <1>9, <1>10 DEF Next

LEMMA PurgedStep ==
  ASSUME OwnInv, PurgedInv, [Next]_vars
  PROVE  PurgedInv'
<1>1. TypeOK /\ NoReruns /\ GraphInv
  BY DEF OwnInv, PinInv
<1>2. ASSUME NEW w \in Workers, calls'[w].pc = "complete", calls'[w].kind = "orphan"
      PROVE  Removed(calls[w].media)' /\ calls'[w].media = calls[w].media
  <2>1. /\ calls[w].pc \in Holding /\ calls[w].kind = "orphan" /\ calls'[w].media = calls[w].media
        /\ calls[w].pc = "complete" \/ ~objects'[calls[w].media].live
    BY <1>1, <1>2, CompleteStep
  <2>2. calls[w].media \in MediaIDs /\ Finished(assets[calls[w].media])
    BY <1>1, <2>1 DEF OwnInv, RecordsFit, TypeOK, Holding
  <2>3. CASE calls[w].pc = "complete"
    BY <2>1, <2>2, <2>3, RemovedStays DEF PurgedInv
  <2> QED
    BY <2>1, <2>3 DEF Removed
<1>3. ASSUME NEW m \in MediaIDs, assets'[m].status = "deleted"
      PROVE  (Finished(assets[m]) /\ Removed(m))'
  <2>1. CASE assets[m].status = "deleted"
    BY <2>1, RemovedStays DEF PurgedInv
  <2>2. CASE PurgeEnded(m)
    <3>1. PICK w \in Workers : /\ calls[w].pc = "complete" /\ calls[w].kind = "orphan"
                               /\ calls[w].media = m
      BY <1>3, <2>2 DEF PurgeEnded, Ending, Resting, Ended
    <3>2. Finished(assets[m]) /\ Removed(m)
      BY <3>1 DEF PurgedInv, OwnInv, RecordsFit, Holding
    <3> QED
      BY <3>2, RemovedStays
  <2> QED
    BY <1>1, <1>3, <2>1, <2>2, StatusStep
       DEF Served, Granted, NewUpload, Absent, Committed, ClaimedNow, OwnInv, PinInv, Reading, Reader
<1> QED
  BY <1>2, <1>3 DEF PurgedInv

(* A purge that ends has removed what was recorded of the asset, and it    *)
(* stays removed although the upload URL may still be good: the delete is  *)
(* for the recorded generation, or finds nothing (service.go:532, 554).    *)
LEMMA PurgedInvariant == ASSUME RunsOnce PROVE Spec => []PurgedInv
<1>1. Init => PurgedInv
  BY DEF Init, Idle, Absent, PurgedInv
<1> QED
  BY <1>1, PurgedStep, OwnInvariant, PTL DEF Spec

(* Bytes are removed by a purge, with its object in its hands. *)
LEMMA Removal ==
  ASSUME TypeOK, [Next]_vars, NEW m \in MediaIDs, objects[m].live, ~objects'[m].live
  PROVE  /\ \E w \in Workers : calls[w].pc = "delete" /\ calls[w].media = m
         /\ UNCHANGED <<assets, links, refs>>
<1>1. objects' # objects
  OBVIOUS
<1>2. ASSUME NEW x \in MediaIDs, NEW c \in Contents, PutObject(x, c)
      PROVE  FALSE
  BY <1>2 DEF PutObject, TypeOK
<1>3. PICK w \in Workers : DeleteObject(w) \/ DeleteFails(w)
  BY <1>1, <1>2
     DEF Next, vars, LinkStep, Link, Unlink, Restore, PurgeExpiredLink, ClientStep,
         BeginUpload, Tick, Crash, UploadStep, FinalizeUpload, ReadAttrs, HashObject,
         DecodeObject, CommitFinalize, PurgeStep, PurgeOrphan, PurgeStaleUpload, Claim,
         ClaimAborted, ClaimLeaked, Rollback, Complete
<1>4. calls[w].pc = "delete" /\ calls[w].media = m
  BY <1>1, <1>3 DEF DeleteObject, DeleteFails, TypeOK
<1> QED
  BY <1>3, <1>4 DEF DeleteObject, DeleteFails

LEMMA BytesStep ==
  ASSUME OwnInv, [Next]_vars, NEW m \in MediaIDs, objects[m].live, ~objects'[m].live
  PROVE  Recorded(m) = {} /\ \A s \in Slots : refs[s] # m
<1>1. assets[m].status = "purging"
  BY Removal DEF OwnInv, PinInv, PurgeIsExclusive
<1>2. Recorded(m) = {}
  BY <1>1, GraphInvImplies DEF OwnInv, LinkedIsReady
<1>3. RefsAgree
  BY GraphInvImplies DEF OwnInv
<1> QED
  BY <1>2, <1>3 DEF Recorded, RefsAgree

(* No bytes are deleted that a link, active or recoverable, still needs,   *)
(* whatever the delete reports.                                            *)
THEOREM BytesOutliveTheirLinks == ASSUME RunsOnce PROVE Spec => BytesOutliveLinks
<1>1. OwnInv /\ [Next]_vars =>
        [\A m \in MediaIDs :
           objects[m].live /\ ~objects'[m].live =>
             Recorded(m) = {} /\ \A s \in Slots : refs[s] # m]_vars
  BY BytesStep
<1> QED
  BY <1>1, OwnInvariant, PTL DEF Spec, BytesOutliveLinks

-----------------------------------------------------------------------------
(* What nobody cleans up: not a promise, but how far the code is from the  *)
(* repeated cleanup its feature asks for                                   *)

\* Marked for a purge or purged, and no purge is at work on it.
Abandoned(m) ==
  /\ assets[m].status \in {"purging", "deleted", "failed"}
  /\ \A w \in Workers :
       calls[w].pc \in {"claim", "delete", "rollback", "complete"} => calls[w].media # m

(* What a purge left behind is cleaned up by no step: no other purge takes *)
(* it up, and bytes that it missed, or that were stored after it, stay in  *)
(* the bucket (service.go:519, 643, 656).                                  *)
NothingCleansUp ==
  [][\A m \in MediaIDs :
       Abandoned(m) => /\ Abandoned(m)'
                       /\ assets'[m].status = assets[m].status
                       /\ objects[m].live => objects'[m].live]_vars

LEMMA AbandonedStep ==
  ASSUME GraphInv, [Next]_vars, NEW m \in MediaIDs, Abandoned(m)
  PROVE  /\ Abandoned(m)'
         /\ assets'[m].status = assets[m].status
         /\ objects[m].live => objects'[m].live
<1>1. TypeOK
  BY DEF GraphInv
<1>2. \A w \in Workers : calls[w].pc \in Purgers => calls[w].media # m
  BY DEF Abandoned, Purgers, Holding
<1>3. assets'[m].status = assets[m].status
  <2>1. ~PurgeEnded(m)
    BY <1>2 DEF PurgeEnded, Purgers, Holding, Ending
  <2> QED
    BY <2>1, StatusStep DEF Abandoned, Served, Granted, Committed, ClaimedNow
<1>4. \A w \in Workers : calls'[w].pc \in Purgers => calls'[w].media # m
  BY <1>1, <1>2, PurgerStep DEF Abandoned
<1>5. objects[m].live => objects'[m].live
  BY <1>1, <1>2, Removal DEF Purgers, Holding
<1> QED
  BY <1>3, <1>4, <1>5 DEF Abandoned, Purgers, Holding

(* Why the run interrupted_purge finds what it finds, whatever the bounds: *)
(* an asset whose purge was interrupted, or is over, is left alone by      *)
(* every later call, so it stays as it was marked (service.go:519, 643),   *)
(* and bytes that are stored when nothing will delete them any more stay   *)
(* in the bucket (service.go:656).                                         *)
THEOREM AbandonedPurgesLeak == Spec => NothingCleansUp
<1>1. GraphInv /\ [Next]_vars =>
        [\A m \in MediaIDs :
           Abandoned(m) => /\ Abandoned(m)'
                           /\ assets'[m].status = assets[m].status
                           /\ objects[m].live => objects'[m].live]_vars
  BY AbandonedStep
<1> QED
  BY <1>1, GraphInvariant, PTL DEF Spec, NothingCleansUp

\* Only dropping its last link record makes an asset an orphan.
NeverLinkedStays ==
  [][\A m \in MediaIDs :
       assets[m].status = "ready" /\ Recorded(m) = {} => assets'[m].status = "ready"]_vars

LEMMA NeverLinkedStep ==
  ASSUME GraphInv, [Next]_vars, NEW m \in MediaIDs,
         assets[m].status = "ready", Recorded(m) = {}
  PROVE  assets'[m].status = "ready"
<1>0. TypeOK /\ assets \in [MediaIDs -> Asset] /\ assets[m] \in Asset
  BY DEF GraphInv, TypeOK
<1>1. /\ \A l : Attached(assets[m], l).status = "ready"
      /\ Detached(assets[m]).status = "ready" /\ Reattached(assets[m]).status = "ready"
      /\ AgedAsset(assets[m]).status = "ready"
  BY <1>0 DEF Attached, Detached, Reattached, AgedAsset, Asset
<1>2. ASSUME NEW x \in MediaIDs, NEW s \in Slots, Link(x, s)
      PROVE  assets'[m].status = "ready"
  <2>1. assets'[m] \in {Attached(assets[m], links[m][s]), Detached(assets[m]), assets[m]}
    BY <1>2 DEF Link
  <2> QED
    BY <1>1, <2>1
<1>3. ASSUME NEW s \in Slots, Unlink(s)
      PROVE  assets'[m].status = "ready"
  <2>1. assets'[m] \in {Detached(assets[m]), assets[m]}
    BY <1>0, <1>3 DEF Unlink
  <2> QED
    BY <1>1, <2>1
<1>4. ASSUME NEW x \in MediaIDs, NEW s \in Slots, Restore(x, s)
      PROVE  assets'[m].status = "ready"
  <2>1. assets'[m] \in {Reattached(assets[m]), assets[m]}
    BY <1>0, <1>4 DEF Restore
  <2> QED
    BY <1>1, <2>1
<1>5. ASSUME NEW x \in MediaIDs, NEW s \in Slots, PurgeExpiredLink(x, s)
      PROVE  assets'[m].status = "ready"
  <2>1. x # m
    BY <1>5 DEF PurgeExpiredLink, Recorded
  <2> QED
    BY <1>0, <1>5, <2>1 DEF PurgeExpiredLink
<1>6. CASE LinkStep
  BY <1>2, <1>3, <1>4, <1>5, <1>6 DEF LinkStep
<1>7. CASE ClientStep
  BY <1>0, <1>7 DEF ClientStep, BeginUpload, PutObject
<1>8. ASSUME NEW w \in Workers, UploadStep(w) \/ PurgeStep(w) \/ Crash(w)
      PROVE  assets'[m] = assets[m]
  BY <1>0, <1>8
     DEF UploadStep, FinalizeUpload, ReadAttrs, HashObject, DecodeObject, CommitFinalize,
         PurgeStep, PurgeOrphan, PurgeStaleUpload, Claim, ClaimAborted, ClaimLeaked,
         Claimable, OrphanClaimable, StaleClaimable, DeleteObject, DeleteFails, Rollback,
         Complete, Completable, Crash
<1>9. CASE Tick
  BY <1>1, <1>9 DEF Tick
<1> QED
  BY <1>6, <1>7, <1>8, <1>9 DEF Next, vars

(* An image that was finalized and never linked is never marked an orphan, *)
(* nor given up: only dropping a link record does that (service.go:506).   *)
(* What the run never_linked finds is so whatever is scheduled.            *)
THEOREM NeverLinkedIsKept == Spec => NeverLinkedStays
<1>1. GraphInv /\ [Next]_vars =>
        [\A m \in MediaIDs :
           assets[m].status = "ready" /\ Recorded(m) = {} => assets'[m].status = "ready"]_vars
  BY NeverLinkedStep
<1> QED
  BY <1>1, GraphInvariant, PTL DEF Spec, NeverLinkedStays

-----------------------------------------------------------------------------
(* Bytes: what is served or may be given back is whole.                    *)

Whole(a, o) ==
  /\ o.live
  /\ o.generation = a.generation
  /\ o.content = a.sha
  /\ a.sha \in Images
  /\ ShapeOf[a.sha] = a.declared

(* What InspectImage has read so far was all read from the object o. *)
ReadFrom(call, o) ==
  /\ o.live
  /\ o.generation = call.generation
  /\ ShapeOf[o.content] = call.shape
  /\ call.pc \in {"decode", "commit"} => call.hashed = o.content
  /\ call.pc = "commit" => Whole(call.asset, o)

(* A finalizer may still commit m: it is being uploaded, or is held by a   *)
(* purge that may yet give it back.                                        *)
Open(m) ==
  \/ assets[m].status = "uploading"
  \/ \E v \in Workers : /\ calls[v].pc \in Reversible
                        /\ calls[v].kind = "stale" /\ calls[v].media = m

(* A failed delete gives an orphan back, with its bytes. *)
HeldOrphansAreWhole ==
  \A w \in Workers :
    calls[w].pc \in Reversible /\ calls[w].kind = "orphan" =>
      Whole(assets[calls[w].media], objects[calls[w].media])

ReadersAgree ==
  \A w \in Workers :
    calls[w].pc \in Reading /\ Open(calls[w].media) =>
      ReadFrom(calls[w], objects[calls[w].media])

CallsHaveAssets ==
  \A w \in Workers : calls[w].pc # "idle" => assets[calls[w].media].status # "absent"

BytesInv ==
  OwnInv /\ ServedIsIntact /\ HeldOrphansAreWhole /\ ReadersAgree /\ CallsHaveAssets

LEMMA BytesTypes ==
  ASSUME BytesInv
  PROVE  /\ TypeOK
         /\ \A w \in Workers : calls[w] \in Call
         /\ \A w \in Workers : calls[w].pc # "idle" => calls[w].media \in MediaIDs
BY DEF BytesInv, OwnInv, PinInv, TypeOK

LEMMA InitBytes == Init => BytesInv
<1> SUFFICES ASSUME Init PROVE BytesInv
  OBVIOUS
<1>1. \A w \in Workers : calls[w].pc = "idle"
  BY DEF Init, Idle
<1>2. \A m \in MediaIDs : assets[m].status = "absent"
  BY DEF Init, Absent
<1> QED
  BY <1>1, <1>2, InitOwn
     DEF BytesInv, ServedIsIntact, HeldOrphansAreWhole, ReadersAgree, CallsHaveAssets,
         Reading, Reversible

(* Two calls that the properties of the bytes do not tell apart. *)
SameCall(c, d) ==
  /\ d.pc = c.pc /\ d.media = c.media /\ d.kind = c.kind
  /\ d.generation = c.generation /\ d.shape = c.shape /\ d.hashed = c.hashed
  /\ d.asset.status = c.asset.status /\ d.asset.sha = c.asset.sha
  /\ d.asset.generation = c.asset.generation /\ d.asset.declared = c.asset.declared

LEMMA SameBytesStep ==
  ASSUME BytesInv, OwnInv', objects' = objects,
         \A m \in MediaIDs : SameBytes(assets[m], assets'[m]),
         \A w \in Workers : SameCall(calls[w], calls'[w])
  PROVE  BytesInv'
<1>1. \A w \in Workers : calls'[w].pc # "idle" => calls'[w].media \in MediaIDs
  BY BytesTypes DEF SameCall
<1>2. CallsHaveAssets'
  BY <1>1 DEF BytesInv, CallsHaveAssets, SameCall, SameBytes, Served
<1>3. \A m \in MediaIDs : \A o : Whole(assets'[m], o) <=> Whole(assets[m], o)
  BY DEF SameBytes, Whole
<1>4. ServedIsIntact'
  BY <1>3 DEF BytesInv, ServedIsIntact, Intact, Whole, SameBytes, Served
<1>5. HeldOrphansAreWhole'
  BY <1>1, <1>3 DEF BytesInv, HeldOrphansAreWhole, SameCall, Reversible
<1>6. \A m \in MediaIDs : Open(m)' => Open(m)
  BY DEF Open, SameBytes, SameCall, Served
<1>7. ReadersAgree'
  BY <1>1, <1>6 DEF BytesInv, ReadersAgree, ReadFrom, Whole, SameCall, Reading
<1> QED
  BY <1>2, <1>4, <1>5, <1>7 DEF BytesInv

(* A worker goes on, or ends, without holding an asset. *)
LEMMA CallStepBytes ==
  ASSUME BytesInv, OwnInv', UNCHANGED <<assets, objects>>,
         NEW w \in Workers, NEW call, calls' = [calls EXCEPT ![w] = call],
         call.pc \notin Holding \cup {"claim"},
         call.pc # "idle" => call.media \in MediaIDs /\ assets[call.media].status # "absent",
         call.pc \in Reading /\ Open(call.media) => ReadFrom(call, objects[call.media])
  PROVE  BytesInv'
<1>1. calls'[w] = call /\ \A v \in Workers \ {w} : calls'[v] = calls[v]
  BY BytesTypes DEF TypeOK
<1>2. CallsHaveAssets'
  BY <1>1 DEF BytesInv, CallsHaveAssets, Holding
<1>3. ServedIsIntact'
  BY DEF BytesInv, ServedIsIntact, Intact
<1>4. HeldOrphansAreWhole'
  BY <1>1 DEF BytesInv, HeldOrphansAreWhole, Reversible, Holding
<1>5. \A m \in MediaIDs : Open(m)' => Open(m)
  BY <1>1 DEF Open, Reversible, Holding
<1>6. ReadersAgree'
  BY <1>1, <1>5, BytesTypes DEF BytesInv, ReadersAgree, Reading
<1> QED
  BY <1>2, <1>3, <1>4, <1>6 DEF BytesInv

LEMMA ReturnBytes ==
  ASSUME BytesInv, OwnInv', UNCHANGED <<assets, objects>>, NEW w \in Workers, Return(w)
  PROVE  BytesInv'
<1>1. Idle.pc = "idle"
  BY DEF Idle
<1> QED
  BY <1>1, CallStepBytes DEF Return, Holding, Reading

LEMMA UploadBytes ==
  ASSUME BytesInv, OwnInv', NEW w \in Workers, UploadStep(w)
  PROVE  BytesInv'
<1>1. ASSUME NEW m \in MediaIDs, NEW sha \in Contents, FinalizeUpload(w, m, sha)
      PROVE  BytesInv'
  <2> DEFINE call == [Idle EXCEPT !.pc = "attrs", !.media = m, !.sha = sha, !.asset = assets[m]]
  <2>1. call.pc = "attrs" /\ call.media = m
    BY DEF Idle
  <2>2. /\ calls' = [calls EXCEPT ![w] = call] /\ UNCHANGED <<assets, objects>>
        /\ assets[m].status # "absent"
    BY <1>1 DEF FinalizeUpload
  <2> HIDE DEF call
  <2> QED
    BY <2>1, <2>2, CallStepBytes DEF Holding, Reading
<1>2. CASE ReadAttrs(w)
  <2> DEFINE o == objects[calls[w].media]
             call == [calls[w] EXCEPT !.pc = "hash", !.generation = o.generation,
                                      !.shape = ShapeOf[o.content]]
  <2>1. /\ calls[w] \in Call /\ calls[w].media \in MediaIDs
        /\ assets[calls[w].media].status # "absent" /\ UNCHANGED <<assets, objects>>
    BY <1>2, BytesTypes DEF ReadAttrs, BytesInv, CallsHaveAssets
  <2>2. CASE o.live /\ calls' = [calls EXCEPT ![w] = call]
    <3>1. /\ call.pc = "hash" /\ call.media = calls[w].media
          /\ call.generation = o.generation /\ call.shape = ShapeOf[o.content]
      BY <2>1 DEF Call
    <3>2. ReadFrom(call, o)
      BY <2>2, <3>1 DEF ReadFrom
    <3> HIDE DEF call
    <3> QED
      BY <2>1, <2>2, <3>1, <3>2, CallStepBytes DEF Holding
  <2> QED
    BY <1>2, <2>1, <2>2, ReturnBytes DEF ReadAttrs
<1>3. CASE HashObject(w)
  <2> DEFINE o == objects[calls[w].media]
             call == [calls[w] EXCEPT !.pc = "decode", !.hashed = o.content]
  <2>1. /\ calls[w] \in Call /\ calls[w].media \in MediaIDs /\ calls[w].pc = "hash"
        /\ assets[calls[w].media].status # "absent" /\ UNCHANGED <<assets, objects>>
    BY <1>3, BytesTypes DEF HashObject, BytesInv, CallsHaveAssets
  <2>2. CASE calls' = [calls EXCEPT ![w] = call]
    <3>1. /\ call.pc = "decode" /\ call.media = calls[w].media /\ call.hashed = o.content
          /\ call.generation = calls[w].generation /\ call.shape = calls[w].shape
      BY <2>1 DEF Call
    <3>2. Open(calls[w].media) => ReadFrom(calls[w], o)
      BY <2>1 DEF BytesInv, ReadersAgree, Reading
    <3>3. Open(calls[w].media) => ReadFrom(call, o)
      BY <3>1, <3>2 DEF ReadFrom
    <3> HIDE DEF call
    <3> QED
      BY <2>1, <2>2, <3>1, <3>3, CallStepBytes DEF Holding
  <2> QED
    BY <1>3, <2>1, <2>2, ReturnBytes DEF HashObject
<1>4. CASE DecodeObject(w)
  <2> DEFINE o == objects[calls[w].media]
             call == [calls[w] EXCEPT !.pc = "commit", !.asset = Finalized(calls[w])]
  <2>1. /\ calls[w] \in Call /\ calls[w].media \in MediaIDs /\ calls[w].pc = "decode"
        /\ assets[calls[w].media].status # "absent" /\ UNCHANGED <<assets, objects>>
    BY <1>4, BytesTypes DEF DecodeObject, BytesInv, CallsHaveAssets
  <2>2. CASE Accepted(calls[w], o) /\ calls' = [calls EXCEPT ![w] = call]
    <3>1. /\ call.pc = "commit" /\ call.media = calls[w].media /\ call.hashed = calls[w].hashed
          /\ call.generation = calls[w].generation /\ call.shape = calls[w].shape
          /\ call.asset = Finalized(calls[w])
      BY <2>1 DEF Call
    <3>2. /\ call.asset.status = "ready" /\ call.asset.sha = calls[w].hashed
          /\ call.asset.generation = calls[w].generation
          /\ call.asset.declared = calls[w].asset.declared
      BY <2>1, <3>1 DEF Finalized, Call, Asset
    <3>3. Open(calls[w].media) => ReadFrom(calls[w], o)
      BY <2>1 DEF BytesInv, ReadersAgree, Reading
    <3>4. Open(calls[w].media) => ReadFrom(call, o)
      BY <2>1, <2>2, <3>1, <3>2, <3>3 DEF ReadFrom, Whole, Accepted
    <3> HIDE DEF call
    <3> QED
      BY <2>1, <2>2, <3>1, <3>2, <3>4, CallStepBytes DEF Holding
  <2> QED
    BY <1>4, <2>1, <2>2, ReturnBytes DEF DecodeObject
<1>5. CASE CommitFinalize(w)
  <2> DEFINE m == calls[w].media
  <2>1. m \in MediaIDs /\ calls[w].pc = "commit" /\ UNCHANGED objects /\ Return(w)
    BY <1>5, BytesTypes DEF CommitFinalize
  <2>2. CASE assets' = assets
    BY <2>1, <2>2, ReturnBytes
  <2>3. CASE assets[m].status = "uploading" /\ assets' = [assets EXCEPT ![m] = calls[w].asset]
    <3>1. Whole(calls[w].asset, objects[m]) /\ calls[w].asset.status = "ready"
      BY <2>1, <2>3 DEF BytesInv, OwnInv, PinInv, Reader, ReadersAgree, Open, Reading, ReadFrom
    <3>2. assets'[m] = calls[w].asset /\ \A x \in MediaIDs \ {m} : assets'[x] = assets[x]
      BY <2>1, <2>3, BytesTypes DEF TypeOK
    <3>3. calls'[w].pc = "idle" /\ \A v \in Workers \ {w} : calls'[v] = calls[v]
      BY <2>1, BytesTypes DEF Return, Idle, TypeOK
    <3>4. \A v \in Workers : calls[v].pc \in Holding => calls[v].media # m
      BY <2>3 DEF BytesInv, OwnInv, PurgeIsExclusive, Holding
    <3> HIDE DEF m
    <3>5. CallsHaveAssets'
      BY <3>1, <3>2, <3>3, <3>4, BytesTypes
         DEF BytesInv, CallsHaveAssets, Holding
    <3>6. ServedIsIntact'
      BY <2>1, <3>1, <3>2 DEF BytesInv, ServedIsIntact, Intact, Whole
    <3>7. HeldOrphansAreWhole'
      BY <2>1, <3>2, <3>3, <3>4, BytesTypes DEF BytesInv, HeldOrphansAreWhole, Reversible, Holding
    <3>8. \A x \in MediaIDs : Open(x)' => x # m /\ Open(x)
      BY <3>1, <3>2, <3>3, <3>4 DEF Open, Reversible, Holding
    <3>9. ReadersAgree'
      BY <2>1, <3>3, <3>8, BytesTypes DEF BytesInv, ReadersAgree, Reading
    <3> QED
      BY <3>5, <3>6, <3>7, <3>9 DEF BytesInv
  <2> QED
    BY <1>5, <2>2, <2>3 DEF CommitFinalize
<1> QED
  BY <1>1, <1>2, <1>3, <1>4, <1>5 DEF UploadStep

LEMMA ClaimBytes ==
  ASSUME BytesInv, OwnInv', NEW w \in Workers, NEW m \in MediaIDs, NEW kind \in PurgeKinds,
         Claim(w, m, kind)
  PROVE  BytesInv'
<1> DEFINE call == Purging("delete", m, kind, Claimed(assets[m]))
<1>1. call.pc = "delete" /\ call.media = m /\ call.kind = kind
  BY DEF Purging, Idle
<1>2. calls[w].pc = "idle"
  BY DEF Claim, Claiming, BytesInv, OwnInv, NoReruns
<1>3. /\ calls' = [calls EXCEPT ![w] = call] /\ UNCHANGED objects
      /\ assets' = [assets EXCEPT ![m] = Claimed(assets[m])]
      /\ assets[m].status = IF kind = "orphan" THEN "orphaned" ELSE "uploading"
  BY DEF Claim, Claimable, OrphanClaimable, StaleClaimable
<1>4. calls'[w] = call /\ \A v \in Workers \ {w} : calls'[v] = calls[v]
  BY <1>3, BytesTypes DEF TypeOK
<1>5. /\ assets'[m] = Claimed(assets[m]) /\ assets[m] \in Asset
      /\ \A x \in MediaIDs \ {m} : assets'[x] = assets[x]
  BY <1>3, BytesTypes DEF TypeOK
<1>6. /\ assets'[m].status = "purging" /\ assets'[m].sha = assets[m].sha
      /\ assets'[m].generation = assets[m].generation
      /\ assets'[m].declared = assets[m].declared
  BY <1>5 DEF Claimed, Asset
<1>7. \A v \in Workers : calls[v].pc \in Holding => calls[v].media # m
  BY <1>3 DEF BytesInv, OwnInv, PurgeIsExclusive, Holding
<1> HIDE DEF call
<1>8. CallsHaveAssets'
  BY <1>1, <1>4, <1>5, <1>6, <1>7, BytesTypes
     DEF BytesInv, CallsHaveAssets, Holding
<1>9. ServedIsIntact'
  BY <1>3, <1>5, <1>6 DEF BytesInv, ServedIsIntact, Intact
<1>10. HeldOrphansAreWhole'
  <2>1. kind = "orphan" => Whole(assets'[m], objects[m])
    BY <1>3, <1>6 DEF BytesInv, ServedIsIntact, Intact, Whole
  <2> QED
    BY <1>1, <1>3, <1>4, <1>5, <1>7, <2>1, BytesTypes
       DEF BytesInv, HeldOrphansAreWhole, Reversible, Holding
<1>11. \A x \in MediaIDs : Open(x)' => Open(x)
  BY <1>1, <1>3, <1>4, <1>5, <1>6 DEF Open, Reversible, PurgeKinds
<1>12. ReadersAgree'
  BY <1>1, <1>3, <1>4, <1>11, BytesTypes DEF BytesInv, ReadersAgree, Reading
<1> QED
  BY <1>8, <1>9, <1>10, <1>12 DEF BytesInv

(* A purge goes on: the delete was done, or failed and did nothing. *)
LEMMA DeleteBytes ==
  ASSUME Honest, BytesInv, OwnInv', NEW w \in Workers, DeleteObject(w) \/ DeleteFails(w)
  PROVE  BytesInv'
<1> DEFINE m == calls[w].media
<1>1. calls[w].pc = "delete" /\ m \in MediaIDs /\ calls[w] \in Call /\ assets' = assets
  BY BytesTypes DEF DeleteObject, DeleteFails
<1>2. PICK pc \in {"rollback", "complete"} :
        /\ calls' = [calls EXCEPT ![w] = [calls[w] EXCEPT !.pc = pc]]
        /\ pc = "rollback" => objects' = objects
        /\ \A x \in MediaIDs \ {m} : objects'[x] = objects[x]
  <2>1. CASE DeleteObject(w)
    BY <2>1, BytesTypes DEF DeleteObject, Proceed, TypeOK
  <2>2. CASE DeleteFails(w)
    BY <2>2 DEF DeleteFails, Proceed, Honest
  <2> QED
    BY <2>1, <2>2
<1>3. /\ calls'[w].pc = pc /\ calls'[w].media = m /\ calls'[w].kind = calls[w].kind
      /\ \A v \in Workers \ {w} : calls'[v] = calls[v]
  BY <1>1, <1>2, BytesTypes DEF TypeOK, Call
<1>4. /\ assets[m].status = "purging"
      /\ \A v \in Workers \ {w} : calls[v].pc \in Holding => calls[v].media # m
  BY <1>1 DEF BytesInv, OwnInv, PurgeIsExclusive, Holding
<1> HIDE DEF m
<1>5. CallsHaveAssets'
  BY <1>1, <1>3, <1>4 DEF BytesInv, CallsHaveAssets, Holding
<1>6. ServedIsIntact'
  BY <1>1, <1>2, <1>4 DEF BytesInv, ServedIsIntact, Intact
<1>7. HeldOrphansAreWhole'
  <2>1. ASSUME NEW v \in Workers, calls'[v].pc \in Reversible, calls'[v].kind = "orphan"
        PROVE  Whole(assets[calls'[v].media], objects'[calls'[v].media])
    <3>1. CASE v = w
      BY <1>1, <1>2, <1>3, <2>1, <3>1 DEF BytesInv, HeldOrphansAreWhole, Reversible, m
    <3>2. CASE v # w
      BY <1>2, <1>3, <1>4, <2>1, <3>2, BytesTypes
         DEF BytesInv, HeldOrphansAreWhole, Reversible, Holding
    <3> QED
      BY <3>1, <3>2
  <2> QED
    BY <1>1, <2>1 DEF HeldOrphansAreWhole
<1>8. \A x \in MediaIDs : Open(x)' => Open(x) /\ objects'[x] = objects[x]
  BY <1>1, <1>2, <1>3, <1>4 DEF Open, Reversible, Holding, m
<1>9. ReadersAgree'
  BY <1>2, <1>3, <1>8, BytesTypes DEF BytesInv, ReadersAgree, Reading
<1> QED
  BY <1>5, <1>6, <1>7, <1>9 DEF BytesInv

(* A purge ends and gives the asset its last or its former status. *)
LEMMA EndPurgeBytes ==
  ASSUME BytesInv, OwnInv', NEW w \in Workers, Rollback(w) \/ Complete(w)
  PROVE  BytesInv'
<1> DEFINE m == calls[w].media  kind == calls[w].kind
<1>1. /\ m \in MediaIDs /\ kind \in PurgeKinds /\ objects' = objects /\ Return(w)
      /\ calls[w].pc \in {"rollback", "complete"}
  BY BytesTypes DEF Rollback, Complete, Call
<1>2. CASE assets' = assets
  BY <1>1, <1>2, ReturnBytes
<1>3. CASE assets' # assets
  <2>1. PICK status \in {Resting(kind), Ended(kind)} :
          /\ assets' = [assets EXCEPT ![m] = [assets[m] EXCEPT !.status = status]]
          /\ calls[w].pc = "complete" => status = Ended(kind)
          /\ calls[w].pc = "rollback" => status = Resting(kind)
    BY <1>3 DEF Rollback, Complete
  <2>2. /\ assets'[m].status = status /\ assets'[m].sha = assets[m].sha
        /\ assets'[m].generation = assets[m].generation
        /\ assets'[m].declared = assets[m].declared
        /\ \A x \in MediaIDs \ {m} : assets'[x] = assets[x]
    BY <1>1, <2>1, BytesTypes DEF TypeOK, Asset
  <2>3. calls'[w].pc = "idle" /\ \A v \in Workers \ {w} : calls'[v] = calls[v]
    BY <1>1, BytesTypes DEF Return, Idle, TypeOK
  <2>4. \A v \in Workers \ {w} : calls[v].pc \in Holding => calls[v].media # m
    BY <1>1 DEF BytesInv, OwnInv, PurgeIsExclusive, Holding
  <2>5. status \in {"deleted", "failed", "orphaned", "uploading"}
    BY DEF Resting, Ended
  <2>6. status = "orphaned" => Whole(assets[m], objects[m])
    <3>1. status = "orphaned" => kind = "orphan" /\ calls[w].pc = "rollback"
      BY <1>1, <2>1 DEF Resting, Ended
    <3> QED
      BY <3>1 DEF BytesInv, HeldOrphansAreWhole, Reversible
  <2>7. status = "uploading" => Open(m)
    <3>1. status = "uploading" => kind = "stale" /\ calls[w].pc = "rollback"
      BY <1>1, <2>1 DEF Resting, Ended, PurgeKinds
    <3> QED
      BY <3>1 DEF Open, Reversible
  <2> HIDE DEF m, kind
  <2>8. CallsHaveAssets'
    BY <2>2, <2>3, <2>4, <2>5, BytesTypes
       DEF BytesInv, CallsHaveAssets, Holding
  <2>9. ServedIsIntact'
    BY <1>1, <2>2, <2>5, <2>6 DEF BytesInv, ServedIsIntact, Intact, Whole
  <2>10. HeldOrphansAreWhole'
    BY <1>1, <2>2, <2>3, <2>4, BytesTypes DEF BytesInv, HeldOrphansAreWhole, Reversible, Holding
  <2>11. \A x \in MediaIDs : Open(x)' => Open(x)
    BY <2>2, <2>3, <2>5, <2>7 DEF Open, Reversible
  <2>12. ReadersAgree'
    BY <1>1, <2>3, <2>11, BytesTypes DEF BytesInv, ReadersAgree, Reading
  <2> QED
    BY <2>8, <2>9, <2>10, <2>12 DEF BytesInv
<1> QED
  BY <1>2, <1>3

LEMMA PurgeBytes ==
  ASSUME Honest, BytesInv, OwnInv', NEW w \in Workers, PurgeStep(w)
  PROVE  BytesInv'
<1>1. ASSUME NEW m \in MediaIDs, PurgeOrphan(w, m) \/ PurgeStaleUpload(w, m)
      PROVE  BytesInv'
  BY <1>1, ClaimBytes DEF PurgeOrphan, PurgeStaleUpload, ClaimAborted, Honest, PurgeKinds
<1>2. ~ClaimLeaked(w)
  BY DEF ClaimLeaked, BytesInv, OwnInv, NoReruns
<1> QED
  BY <1>1, <1>2, DeleteBytes, EndPurgeBytes DEF PurgeStep

LEMMA LinkBytes ==
  ASSUME BytesInv, OwnInv', LinkStep
  PROVE  BytesInv'
<1>1. objects' = objects /\ calls' = calls
  BY DEF LinkStep, Link, Unlink, Restore, PurgeExpiredLink
<1>2. \A w \in Workers : SameCall(calls[w], calls'[w])
  BY <1>1 DEF SameCall
<1> QED
  BY <1>1, <1>2, LinkSameBytes, SameBytesStep DEF BytesInv, OwnInv

LEMMA TickBytes ==
  ASSUME BytesInv, OwnInv', Tick
  PROVE  BytesInv'
<1>1. \A a \in Asset : SameBytes(a, AgedAsset(a)) /\ AgedAsset(a).status = a.status
  BY DEF AgedAsset, SameBytes, Asset
<1>2. \A m \in MediaIDs : SameBytes(assets[m], assets'[m])
  BY <1>1, BytesTypes DEF Tick, TypeOK
<1>3. ASSUME NEW w \in Workers
      PROVE  SameCall(calls[w], calls'[w])
  <2>1. calls'[w] = [calls[w] EXCEPT !.asset = AgedAsset(calls[w].asset)]
    BY DEF Tick
  <2>2. calls[w] \in Call /\ calls[w].asset \in Asset
    BY BytesTypes DEF Call
  <2> QED
    BY <1>1, <2>1, <2>2 DEF SameCall, SameBytes, Call
<1> QED
  BY <1>2, <1>3, SameBytesStep DEF Tick

(* A new record opens its media ID, which no call knew; a new object       *)
(* appears only where there was none.                                      *)
LEMMA ClientBytes ==
  ASSUME BytesInv, OwnInv', ClientStep
  PROVE  BytesInv'
<1>1. ASSUME NEW m \in MediaIDs, NEW access \in AccessModes, NEW declared \in Shapes,
             BeginUpload(m, access, declared)
      PROVE  BytesInv'
  <2>1. objects' = objects /\ calls' = calls
    BY <1>1 DEF BeginUpload
  <2>2. CASE assets' = assets
    BY <2>1, <2>2, SameBytesStep DEF SameBytes, SameCall
  <2>3. CASE assets[m].status = "absent" /\ assets' = [assets EXCEPT ![m] = NewUpload(access, declared)]
    <3>1. assets'[m].status = "uploading" /\ \A x \in MediaIDs \ {m} : assets'[x] = assets[x]
      BY <2>3, BytesTypes DEF NewUpload, Absent, TypeOK
    <3>2. \A w \in Workers : calls[w].pc # "idle" => calls[w].media # m
      BY <2>3 DEF BytesInv, CallsHaveAssets
    <3>3. CallsHaveAssets'
      BY <2>1, <3>1, <3>2, BytesTypes
         DEF BytesInv, CallsHaveAssets
    <3>4. ServedIsIntact' /\ HeldOrphansAreWhole'
      BY <2>1, <3>1, <3>2, BytesTypes
         DEF BytesInv, ServedIsIntact, Intact, HeldOrphansAreWhole, Reversible
    <3>5. \A x \in MediaIDs \ {m} : Open(x)' => Open(x)
      BY <2>1, <3>1 DEF Open
    <3>6. ReadersAgree'
      BY <2>1, <3>2, <3>5, BytesTypes DEF BytesInv, ReadersAgree, Reading
    <3> QED
      BY <3>3, <3>4, <3>6 DEF BytesInv
  <2> QED
    BY <1>1, <2>2, <2>3 DEF BeginUpload
<1>2. ASSUME NEW m \in MediaIDs, NEW c \in Contents, PutObject(m, c)
      PROVE  BytesInv'
  <2>1. /\ assets' = assets /\ calls' = calls /\ ~objects[m].live
        /\ \A x \in MediaIDs \ {m} : objects'[x] = objects[x]
    BY <1>2, BytesTypes DEF PutObject, TypeOK
  <2>2. CallsHaveAssets'
    BY <2>1 DEF BytesInv, CallsHaveAssets
  <2>3. ServedIsIntact' /\ HeldOrphansAreWhole'
    BY <2>1, BytesTypes
       DEF BytesInv, ServedIsIntact, Intact, HeldOrphansAreWhole, Whole, Reversible
  <2>4. \A x \in MediaIDs : Open(x)' <=> Open(x)
    BY <2>1 DEF Open
  <2>5. ReadersAgree'
    BY <2>1, <2>4, BytesTypes DEF BytesInv, ReadersAgree, ReadFrom, Reading
  <2> QED
    BY <2>1, <2>2, <2>3, <2>5 DEF BytesInv
<1> QED
  BY <1>1, <1>2 DEF ClientStep

LEMMA StepBytes ==
  ASSUME Honest, BytesInv, [Next]_vars
  PROVE  BytesInv'
<1>1. OwnInv'
  BY OwnStep DEF BytesInv, Honest, RunsOnce
<1>2. ASSUME NEW w \in Workers, Crash(w)
      PROVE  BytesInv'
  BY <1>1, <1>2, ReturnBytes DEF Crash
<1>3. CASE UNCHANGED vars
  BY <1>1, <1>3, SameBytesStep DEF vars, SameBytes, SameCall
<1> QED
  BY <1>1, <1>2, <1>3, UploadBytes, PurgeBytes, LinkBytes, ClientBytes, TickBytes DEF Next

(* The inductive invariant behind the theorems on bytes: what the copies a *)
(* finalizer or a purge works from (service.go:212-258, 515-557, 639-681)  *)
(* are worth at each of its steps.                                         *)
THEOREM BytesInvariant == ASSUME Honest PROVE Spec => []BytesInv
<1>1. BytesInv /\ [Next]_vars => BytesInv'
  BY StepBytes
<1> QED
  BY <1>1, InitBytes, PTL DEF Spec

(* What the origin serves (routes.go:165) is there, and is what was hashed *)
(* and accepted, although InspectImage (gcs.go:66) reads the object three  *)
(* times unpinned and the record is committed later still.                 *)
THEOREM ServedMediaIsIntact == ASSUME Honest PROVE Spec => []ServedIsIntact
<1>1. BytesInv => ServedIsIntact
  BY DEF BytesInv
<1> QED
  BY <1>1, BytesInvariant, PTL

=============================================================================
