------------------------ MODULE MediaService_proofs ------------------------
(* Theorems about MediaService, for every value of its constants. *)
EXTENDS MediaService, FiniteSetTheorems, TLAPS

-----------------------------------------------------------------------------
(* Typing of the values a step writes *)

LEMMA LessNat == \A n \in Nat : Less(n) \in Nat /\ Less(n) <= n
BY DEF Less

LEMMA AbsentType == Absent \in Asset /\ Absent.declared \in Shapes
<1>1. PICK a \in AccessModes, t \in ContentTypes, z \in Sizes : TRUE
  BY NonemptyAssumption
<1>2. [type |-> t, size |-> z] \in Shapes
  BY <1>1 DEF Shapes
<1>3. (CHOOSE x \in AccessModes : TRUE) \in AccessModes
  BY <1>1
<1>4. (CHOOSE d \in Shapes : TRUE) \in Shapes
  BY <1>2
<1> QED
  BY <1>3, <1>4 DEF Absent, Asset, AssetStatus

LEMMA IdleType == Idle \in Call
BY AbsentType DEF Idle, Call, PurgeKinds

LEMMA NewUploadType ==
  \A access \in AccessModes, declared \in Shapes : NewUpload(access, declared) \in Asset
<1> SUFFICES ASSUME NEW access \in AccessModes, NEW declared \in Shapes
             PROVE  NewUpload(access, declared) \in Asset
  OBVIOUS
<1> QED
  BY AbsentType, GraceAssumption DEF NewUpload, Asset, AssetStatus

LEMMA AssetStepTypes ==
  ASSUME NEW a \in Asset
  PROVE  /\ Detached(a) \in Asset
         /\ Dropped(a) \in Asset
         /\ Claimed(a) \in Asset
         /\ AgedAsset(a) \in Asset
         /\ Reattached(a) \in Asset
         /\ \A kind \in PurgeKinds : /\ [a EXCEPT !.status = Resting(kind)] \in Asset
                                     /\ [a EXCEPT !.status = Ended(kind)] \in Asset
<1>1. Detached(a) \in Asset
  BY LessNat DEF Detached, Asset
<1>2. Dropped(a) \in Asset
  BY LessNat, GraceAssumption DEF Dropped, Asset, AssetStatus
<1>3. Claimed(a) \in Asset
  BY DEF Claimed, Asset, AssetStatus
<1>4. AgedAsset(a) \in Asset
  BY LessNat DEF AgedAsset, Asset
<1>5. Reattached(a) \in Asset
  BY DEF Reattached, Asset
<1>6. \A kind \in PurgeKinds : [a EXCEPT !.status = Resting(kind)] \in Asset
  BY DEF Asset, AssetStatus, Resting
<1>7. \A kind \in PurgeKinds : [a EXCEPT !.status = Ended(kind)] \in Asset
  BY DEF Asset, AssetStatus, Ended
<1> QED
  BY <1>1, <1>2, <1>3, <1>4, <1>5, <1>6, <1>7

LEMMA AttachedType ==
  ASSUME NEW a \in Asset, NEW l \in MediaLink
  PROVE  Attached(a, l) \in Asset
<1> DEFINE n == IF l.status = "active" THEN a.refCount ELSE a.refCount + 1
           d == IF l.status = "none" THEN a.durableRefCount + 1 ELSE a.durableRefCount
<1>1. n \in Nat /\ d \in Nat
  BY DEF Asset
<1> HIDE DEF n, d
<1>2. [a EXCEPT !.status = "ready", !.purgeLeft = 0,
                !.refCount = n, !.durableRefCount = d] \in Asset
  BY <1>1 DEF Asset, AssetStatus
<1> QED
  BY <1>2, Zenon DEF Attached, n, d

LEMMA LinkTypes ==
  /\ NoLink \in MediaLink /\ ActiveLink \in MediaLink /\ DeletedLink \in MediaLink
  /\ \A l \in MediaLink : AgedLink(l) \in MediaLink
BY LessNat, GraceAssumption DEF NoLink, ActiveLink, DeletedLink, AgedLink, MediaLink, LinkStatus

LEMMA RemovedType == \A o \in Object : [o EXCEPT !.live = FALSE] \in Object
BY DEF Object

LEMMA FinalizedType ==
  ASSUME NEW call \in Call
  PROVE  Finalized(call) \in Asset
BY DEF Finalized, Call, Asset, AssetStatus

LEMMA PurgingType ==
  ASSUME NEW m \in MediaIDs, NEW kind \in PurgeKinds, NEW a \in Asset,
         NEW pc \in {"claim", "delete"}
  PROVE  Purging(pc, m, kind, a) \in Call
BY IdleType DEF Purging, Idle, Call

(* What is left of a call is a call. *)
LEMMA CallStepTypes ==
  ASSUME NEW call \in Call
  PROVE  /\ \A pc \in {"rollback", "complete"} : [call EXCEPT !.pc = pc] \in Call
         /\ \A g \in Nat, sh \in Shapes :
              [call EXCEPT !.pc = "hash", !.generation = g, !.shape = sh] \in Call
         /\ \A c \in Contents \cup {NoContent} :
              [call EXCEPT !.pc = "decode", !.hashed = c] \in Call
         /\ \A a \in Asset : [call EXCEPT !.pc = "commit", !.asset = a] \in Call
         /\ \A a \in Asset : [call EXCEPT !.asset = a] \in Call
BY DEF Call

-----------------------------------------------------------------------------
(* Type correctness *)

(* The facts about the state that every step starts from. *)
LEMMA InitTypeOK == Init => TypeOK
BY AbsentType, IdleType, LinkTypes, SentinelAssumption DEF Init, TypeOK, Object, Idle

LEMMA ReturnTypeOK ==
  ASSUME NEW w \in Workers, TypeOK, Return(w)
  PROVE  /\ calls' \in [Workers -> Call]
         /\ \A v \in Workers : calls'[v].pc # "idle" => calls'[v].media \in MediaIDs
BY IdleType DEF TypeOK, Return, Idle

(* A step that gives worker w another call, at a step of it. *)
LEMMA CallTypeOK ==
  ASSUME NEW w \in Workers, NEW call \in Call, TypeOK, call.media \in MediaIDs,
         calls' = [calls EXCEPT ![w] = call]
  PROVE  /\ calls' \in [Workers -> Call]
         /\ \A v \in Workers : calls'[v].pc # "idle" => calls'[v].media \in MediaIDs
BY DEF TypeOK

LEMMA UploadTypeOK ==
  ASSUME TypeOK, NEW w \in Workers, UploadStep(w)
  PROVE  TypeOK'
<1> USE DEF TypeOK
<1>1. ASSUME NEW m \in MediaIDs, NEW sha \in Contents, FinalizeUpload(w, m, sha)
      PROVE  TypeOK'
  <2> DEFINE call == [Idle EXCEPT !.pc = "attrs", !.media = m, !.sha = sha, !.asset = assets[m]]
  <2>1. call \in Call /\ call.media \in MediaIDs
    BY IdleType DEF Call, Idle
  <2> HIDE DEF call
  <2>2. calls' = [calls EXCEPT ![w] = call] /\ UNCHANGED <<assets, links, refs, objects, promised>>
    BY <1>1 DEF FinalizeUpload, call
  <2> QED
    BY <2>1, <2>2, CallTypeOK
<1>2. CASE ReadAttrs(w)
  <2> DEFINE o == objects[calls[w].media]
             call == [calls[w] EXCEPT !.pc = "hash", !.generation = o.generation,
                                      !.shape = ShapeOf[o.content]]
  <2>1. calls[w] \in Call /\ calls[w].media \in MediaIDs /\ o \in Object
    BY <1>2 DEF ReadAttrs
  <2>2. CASE o.live
    <3>1. o.generation \in Nat /\ ShapeOf[o.content] \in Shapes
      BY <2>1, <2>2, ContentAssumption DEF Object
    <3>2. call \in Call /\ call.media \in MediaIDs
      BY <2>1, <3>1, CallStepTypes DEF Call
    <3>3. calls' = [calls EXCEPT ![w] = call] /\ UNCHANGED <<assets, links, refs, objects, promised>>
      BY <1>2, <2>2 DEF ReadAttrs
    <3> HIDE DEF call
    <3> QED
      BY <3>2, <3>3, CallTypeOK
  <2>3. CASE ~o.live
    BY <1>2, <2>3, ReturnTypeOK DEF ReadAttrs
  <2> QED
    BY <2>2, <2>3
<1>3. CASE HashObject(w)
  <2> DEFINE o == objects[calls[w].media]
             call == [calls[w] EXCEPT !.pc = "decode", !.hashed = o.content]
  <2>1. calls[w] \in Call /\ calls[w].media \in MediaIDs /\ o \in Object
    BY <1>3 DEF HashObject
  <2>2. CASE o.live
    <3>1. call \in Call /\ call.media \in MediaIDs
      BY <2>1, CallStepTypes DEF Call, Object
    <3>2. calls' = [calls EXCEPT ![w] = call] /\ UNCHANGED <<assets, links, refs, objects, promised>>
      BY <1>3, <2>2 DEF HashObject
    <3> HIDE DEF call
    <3> QED
      BY <3>1, <3>2, CallTypeOK
  <2>3. CASE ~o.live
    BY <1>3, <2>3, ReturnTypeOK DEF HashObject
  <2> QED
    BY <2>2, <2>3
<1>4. CASE DecodeObject(w)
  <2> DEFINE call == [calls[w] EXCEPT !.pc = "commit", !.asset = Finalized(calls[w])]
  <2>1. calls[w] \in Call /\ calls[w].media \in MediaIDs
    BY <1>4 DEF DecodeObject
  <2>2. call \in Call /\ call.media \in MediaIDs
    BY <2>1, FinalizedType, CallStepTypes DEF Call
  <2> HIDE DEF call
  <2>3. CASE calls' = [calls EXCEPT ![w] = call]
    BY <1>4, <2>2, <2>3, CallTypeOK DEF DecodeObject
  <2>4. CASE Return(w)
    BY <1>4, <2>4, ReturnTypeOK DEF DecodeObject
  <2> QED
    BY <1>4, <2>3, <2>4 DEF DecodeObject, call
<1>5. CASE CommitFinalize(w)
  <2>1. calls[w].asset \in Asset /\ calls[w].media \in MediaIDs
    BY <1>5 DEF CommitFinalize, Call
  <2>2. assets' \in [MediaIDs -> Asset]
    BY <1>5, <2>1 DEF CommitFinalize
  <2> QED
    BY <1>5, <2>2, ReturnTypeOK DEF CommitFinalize
<1> QED
  BY <1>1, <1>2, <1>3, <1>4, <1>5 DEF UploadStep

LEMMA PurgeTypeOK ==
  ASSUME TypeOK, NEW w \in Workers, PurgeStep(w)
  PROVE  TypeOK'
<1> USE DEF TypeOK
<1>1. ASSUME NEW m \in MediaIDs, NEW kind \in PurgeKinds, Claim(w, m, kind)
      PROVE  TypeOK'
  <2>1. Claimed(assets[m]) \in Asset
    BY AssetStepTypes
  <2>2. Purging("delete", m, kind, Claimed(assets[m])) \in Call
    BY <2>1, PurgingType
  <2>3. Purging("delete", m, kind, Claimed(assets[m])).media = m
    BY DEF Purging, Idle
  <2> QED
    BY <1>1, <2>1, <2>2, <2>3, CallTypeOK DEF Claim
<1>2. ASSUME NEW m \in MediaIDs, NEW kind \in PurgeKinds, ClaimAborted(w, m, kind)
      PROVE  TypeOK'
  <2>1. Purging("claim", m, kind, assets[m]) \in Call
    BY PurgingType
  <2>2. Purging("claim", m, kind, assets[m]).media = m
    BY DEF Purging, Idle
  <2> QED
    BY <1>2, <2>1, <2>2, CallTypeOK DEF ClaimAborted
<1>3. CASE ClaimLeaked(w)
  <2> DEFINE m == calls[w].media  kind == calls[w].kind
  <2>1. m \in MediaIDs /\ kind \in PurgeKinds
    BY <1>3 DEF ClaimLeaked, Call
  <2>2. Purging("delete", m, kind, assets[m]) \in Call
    BY <2>1, PurgingType
  <2>3. Purging("delete", m, kind, assets[m]).media = m
    BY DEF Purging, Idle
  <2> QED
    BY <1>3, <2>1, <2>2, <2>3, CallTypeOK DEF ClaimLeaked
<1>4. ASSUME NEW pc \in {"rollback", "complete"}, Proceed(w, pc), calls[w].pc = "delete"
      PROVE  /\ calls' \in [Workers -> Call]
             /\ \A v \in Workers : calls'[v].pc # "idle" => calls'[v].media \in MediaIDs
  <2>1. [calls[w] EXCEPT !.pc = pc] \in Call
    BY CallStepTypes
  <2>2. [calls[w] EXCEPT !.pc = pc].media \in MediaIDs
    BY <1>4 DEF Call
  <2> QED
    BY <1>4, <2>1, <2>2, CallTypeOK DEF Proceed
<1>5. CASE DeleteObject(w)
  <2>1. objects' \in [MediaIDs -> Object]
    BY <1>5, RemovedType DEF DeleteObject
  <2>2. \A m \in MediaIDs : objects'[m].live => objects'[m].content \in Contents
    BY <1>5 DEF DeleteObject, Object
  <2> QED
    BY <1>4, <1>5, <2>1, <2>2 DEF DeleteObject
<1>6. CASE DeleteFails(w)
  <2>1. objects' \in [MediaIDs -> Object]
    BY <1>6, RemovedType DEF DeleteFails
  <2>2. \A m \in MediaIDs : objects'[m].live => objects'[m].content \in Contents
    BY <1>6 DEF DeleteFails, Object
  <2> QED
    BY <1>4, <1>6, <2>1, <2>2 DEF DeleteFails
<1>7. CASE Rollback(w)
  <2> DEFINE m == calls[w].media  kind == calls[w].kind
  <2>1. m \in MediaIDs /\ kind \in PurgeKinds
    BY <1>7 DEF Rollback, Call
  <2>2. [assets[m] EXCEPT !.status = Resting(kind)] \in Asset
    BY <2>1, AssetStepTypes
  <2>3. assets' \in [MediaIDs -> Asset]
    BY <1>7, <2>1, <2>2 DEF Rollback
  <2> QED
    BY <1>7, <2>3, ReturnTypeOK DEF Rollback
<1>8. CASE Complete(w)
  <2> DEFINE m == calls[w].media  kind == calls[w].kind
  <2>1. m \in MediaIDs /\ kind \in PurgeKinds
    BY <1>8 DEF Complete, Call
  <2>2. [assets[m] EXCEPT !.status = Ended(kind)] \in Asset
    BY <2>1, AssetStepTypes
  <2>3. assets' \in [MediaIDs -> Asset]
    BY <1>8, <2>1, <2>2 DEF Complete
  <2> QED
    BY <1>8, <2>3, ReturnTypeOK DEF Complete
<1> QED
  BY <1>1, <1>2, <1>3, <1>5, <1>6, <1>7, <1>8
     DEF PurgeStep, PurgeOrphan, PurgeStaleUpload, PurgeKinds

LEMMA LinkTypeOK ==
  ASSUME TypeOK, LinkStep
  PROVE  TypeOK'
<1> USE DEF TypeOK
<1>1. ASSUME NEW m \in MediaIDs, NEW s \in Slots, Link(m, s)
      PROVE  TypeOK'
  <2>1. \A x \in MediaIDs : Attached(assets[x], links[x][s]) \in Asset /\ Detached(assets[x]) \in Asset
    <3> TAKE x \in MediaIDs
    <3>1. assets[x] \in Asset /\ links[x][s] \in MediaLink
      OBVIOUS
    <3> QED
      BY <3>1, AssetStepTypes, AttachedType
  <2>2. assets' \in [MediaIDs -> Asset]
    BY <1>1, <2>1 DEF Link
  <2>3. \A x \in MediaIDs : /\ [links[x] EXCEPT ![s] = ActiveLink] \in [Slots -> MediaLink]
                            /\ [links[x] EXCEPT ![s] = DeletedLink] \in [Slots -> MediaLink]
    BY LinkTypes
  <2>4. links' \in [MediaIDs -> [Slots -> MediaLink]]
    BY <1>1, <2>3 DEF Link
  <2>5. refs' \in [Slots -> MediaIDs \cup {NoMedia}]
    BY <1>1 DEF Link
  <2> QED
    BY <1>1, <2>2, <2>4, <2>5 DEF Link
<1>2. ASSUME NEW s \in Slots, Unlink(s)
      PROVE  TypeOK'
  <2> DEFINE m == refs[s]
  <2>1. m \in MediaIDs
    BY <1>2 DEF Unlink
  <2>2. Detached(assets[m]) \in Asset
    BY <2>1, AssetStepTypes
  <2>3. assets' \in [MediaIDs -> Asset]
    BY <1>2, <2>1, <2>2 DEF Unlink
  <2>4. links' \in [MediaIDs -> [Slots -> MediaLink]]
    <3>1. [links[m] EXCEPT ![s] = DeletedLink] \in [Slots -> MediaLink]
      BY <2>1, LinkTypes
    <3>2. \/ links' = [links EXCEPT ![m] = [links[m] EXCEPT ![s] = DeletedLink]]
          \/ links' = links
      BY <1>2 DEF Unlink
    <3> QED
      BY <2>1, <3>1, <3>2
  <2>5. refs' \in [Slots -> MediaIDs \cup {NoMedia}]
    BY <1>2 DEF Unlink
  <2> QED
    BY <1>2, <2>3, <2>4, <2>5 DEF Unlink
<1>3. ASSUME NEW m \in MediaIDs, NEW s \in Slots, Restore(m, s)
      PROVE  TypeOK'
  <2>1. Reattached(assets[m]) \in Asset
    BY AssetStepTypes
  <2>2. assets' \in [MediaIDs -> Asset]
    BY <1>3, <2>1 DEF Restore
  <2>3. links' \in [MediaIDs -> [Slots -> MediaLink]]
    BY <1>3, LinkTypes DEF Restore
  <2> QED
    BY <1>3, <2>2, <2>3 DEF Restore
<1>4. ASSUME NEW m \in MediaIDs, NEW s \in Slots, PurgeExpiredLink(m, s)
      PROVE  TypeOK'
  <2>1. Dropped(assets[m]) \in Asset
    BY AssetStepTypes
  <2>2. assets' \in [MediaIDs -> Asset]
    BY <1>4, <2>1 DEF PurgeExpiredLink
  <2>3. links' \in [MediaIDs -> [Slots -> MediaLink]]
    BY <1>4, LinkTypes DEF PurgeExpiredLink
  <2> QED
    BY <1>4, <2>2, <2>3 DEF PurgeExpiredLink
<1> QED
  BY <1>1, <1>2, <1>3, <1>4 DEF LinkStep

LEMMA ClientTypeOK ==
  ASSUME TypeOK, ClientStep
  PROVE  TypeOK'
<1> USE DEF TypeOK
<1>1. ASSUME NEW m \in MediaIDs, NEW access \in AccessModes, NEW declared \in Shapes,
             BeginUpload(m, access, declared)
      PROVE  TypeOK'
  <2>1. assets' \in [MediaIDs -> Asset]
    BY <1>1, NewUploadType DEF BeginUpload
  <2>2. promised' \in [MediaIDs -> SUBSET AccessModes]
    BY <1>1 DEF BeginUpload
  <2> QED
    BY <1>1, <2>1, <2>2 DEF BeginUpload
<1>2. ASSUME NEW m \in MediaIDs, NEW c \in Contents, PutObject(m, c)
      PROVE  TypeOK'
  <2>1. objects' \in [MediaIDs -> Object]
    BY <1>2 DEF PutObject, Object
  <2> QED
    BY <1>2, <2>1 DEF PutObject
<1> QED
  BY <1>1, <1>2 DEF ClientStep

LEMMA TickTypeOK ==
  ASSUME TypeOK, Tick
  PROVE  TypeOK'
<1> USE DEF TypeOK
<1>1. \A a \in Asset : AgedAsset(a) \in Asset
  BY AssetStepTypes
<1>2. assets' \in [MediaIDs -> Asset]
  BY <1>1 DEF Tick
<1>3. links' \in [MediaIDs -> [Slots -> MediaLink]]
  BY LinkTypes DEF Tick
<1>4. \A w \in Workers : [calls[w] EXCEPT !.asset = AgedAsset(@)] \in Call
  <2> TAKE w \in Workers
  <2>1. calls[w] \in Call /\ AgedAsset(calls[w].asset) \in Asset
    BY <1>1 DEF Call
  <2> QED
    BY <2>1, CallStepTypes
<1>5. calls' \in [Workers -> Call]
  BY <1>4 DEF Tick
<1>6. \A w \in Workers : calls'[w].pc = calls[w].pc /\ calls'[w].media = calls[w].media
  <2> TAKE w \in Workers
  <2>1. calls'[w] = [calls[w] EXCEPT !.asset = AgedAsset(calls[w].asset)]
    BY Zenon DEF Tick
  <2>2. calls[w] \in Call
    OBVIOUS
  <2> QED
    BY <2>1, <2>2 DEF Call
<1> QED
  BY <1>2, <1>3, <1>5, <1>6 DEF Tick

LEMMA StepTypeOK ==
  ASSUME TypeOK, [Next]_vars
  PROVE  TypeOK'
<1>1. ASSUME NEW w \in Workers, Crash(w)
      PROVE  TypeOK'
  BY <1>1, ReturnTypeOK DEF Crash, TypeOK
<1>2. CASE UNCHANGED vars
  BY <1>2 DEF TypeOK, vars
<1> QED
  BY <1>1, <1>2, UploadTypeOK, PurgeTypeOK, LinkTypeOK, ClientTypeOK, TickTypeOK DEF Next

(* Every record keeps its type, in every environment: counters and times   *)
(* left never go below zero (service.go:347, 402, 503), a call that is     *)
(* under way names an asset, and an object that is there has a content.    *)
THEOREM TypeCorrect == Spec => []TypeOK
BY InitTypeOK, StepTypeOK, PTL DEF Spec

=============================================================================
