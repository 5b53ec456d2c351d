------------------------- MODULE MediaGraph_proofs -------------------------
(* The links, the counters and the references of MediaService agree, in    *)
(* every environment its constants describe.                               *)
EXTENDS MediaService_proofs

-----------------------------------------------------------------------------
(* One asset and its own link records *)

On(f) == {s \in Slots : f[s].status = "active"}
Any(f) == {s \in Slots : f[s].status # "none"}

Counted(a, f) ==
  /\ a.refCount = Cardinality(On(f))
  /\ a.durableRefCount = Cardinality(Any(f))

Sound(a, f) == Counted(a, f) /\ (Any(f) # {} => a.status = "ready")

LEMMA FiniteLinks ==
  ASSUME NEW f
  PROVE  /\ IsFiniteSet(On(f)) /\ Cardinality(On(f)) \in Nat
         /\ IsFiniteSet(Any(f)) /\ Cardinality(Any(f)) \in Nat
<1>1. On(f) \in SUBSET Slots /\ Any(f) \in SUBSET Slots
  BY DEF On, Any
<1>2. IsFiniteSet(On(f)) /\ IsFiniteSet(Any(f))
  BY <1>1, SlotsAssumption, FS_Subset
<1> QED
  BY <1>2, FS_CardinalityType

(* An asset that is not ready has no links and no counts. *)
LEMMA Unlinked ==
  ASSUME NEW a, NEW f, Sound(a, f), a.status # "ready"
  PROVE  Any(f) = {} /\ On(f) = {} /\ a.refCount = 0 /\ a.durableRefCount = 0
<1>1. Any(f) = {}
  BY DEF Sound
<1>2. On(f) = {}
  BY <1>1 DEF On, Any
<1> QED
  BY <1>1, <1>2, FS_EmptySet DEF Sound, Counted

LEMMA SoundUnlinked ==
  ASSUME NEW a, NEW f, Any(f) = {}, a.refCount = 0, a.durableRefCount = 0
  PROVE  Sound(a, f)
<1>1. On(f) = {}
  BY DEF On, Any
<1> QED
  BY <1>1, FS_EmptySet DEF Sound, Counted

LEMMA SoundAttached ==
  ASSUME NEW a \in Asset, NEW f \in [Slots -> MediaLink], NEW s \in Slots, Sound(a, f)
  PROVE  Sound(Attached(a, f[s]), [f EXCEPT ![s] = ActiveLink])
<1> DEFINE g == [f EXCEPT ![s] = ActiveLink]
           b == Attached(a, f[s])
<1>1. f[s].status \in LinkStatus
  BY DEF MediaLink
<1>2. On(g) = On(f) \cup {s} /\ Any(g) = Any(f) \cup {s}
  BY DEF On, Any, ActiveLink
<1>3. /\ Cardinality(On(g)) = IF s \in On(f) THEN Cardinality(On(f)) ELSE Cardinality(On(f)) + 1
      /\ Cardinality(Any(g)) = IF s \in Any(f) THEN Cardinality(Any(f)) ELSE Cardinality(Any(f)) + 1
  BY <1>2, FiniteLinks, FS_AddElement
<1>4. /\ b.status = "ready"
      /\ b.refCount = IF f[s].status = "active" THEN a.refCount ELSE a.refCount + 1
      /\ b.durableRefCount = IF f[s].status = "none" THEN a.durableRefCount + 1 ELSE a.durableRefCount
  BY DEF Attached, Asset
<1>5. (s \in On(f) <=> f[s].status = "active") /\ (s \in Any(f) <=> f[s].status # "none")
  BY DEF On, Any
<1> HIDE DEF b, g
<1> QED
  BY <1>3, <1>4, <1>5 DEF Sound, Counted, b, g

LEMMA SoundDetached ==
  ASSUME NEW a \in Asset, NEW f \in [Slots -> MediaLink], NEW s \in Slots, Sound(a, f),
         f[s].status = "active"
  PROVE  Sound(Detached(a), [f EXCEPT ![s] = DeletedLink])
<1> DEFINE g == [f EXCEPT ![s] = DeletedLink]
           b == Detached(a)
<1>1. On(g) = On(f) \ {s} /\ Any(g) = Any(f) /\ s \in On(f) /\ s \in Any(f)
  BY DEF On, Any, DeletedLink
<1>2. Cardinality(On(g)) = Cardinality(On(f)) - 1 /\ Cardinality(Any(g)) = Cardinality(Any(f))
  BY <1>1, FiniteLinks, FS_RemoveElement
<1>3. b.status = a.status /\ b.refCount = Less(a.refCount) /\ b.durableRefCount = a.durableRefCount
  BY DEF Detached, Asset
<1>4. Cardinality(On(g)) \in Nat /\ Cardinality(On(f)) \in Nat
  BY FiniteLinks
<1> HIDE DEF b, g
<1> QED
  BY <1>1, <1>2, <1>3, <1>4 DEF Sound, Counted, Less, b, g

LEMMA SoundReattached ==
  ASSUME NEW a \in Asset, NEW f \in [Slots -> MediaLink], NEW s \in Slots, Sound(a, f),
         f[s].status = "deleted"
  PROVE  Sound(Reattached(a), [f EXCEPT ![s] = ActiveLink])
<1> DEFINE g == [f EXCEPT ![s] = ActiveLink]
           b == Reattached(a)
<1>1. On(g) = On(f) \cup {s} /\ Any(g) = Any(f) /\ s \notin On(f) /\ s \in Any(f)
  BY DEF On, Any, ActiveLink
<1>2. Cardinality(On(g)) = Cardinality(On(f)) + 1 /\ Cardinality(Any(g)) = Cardinality(Any(f))
  BY <1>1, FiniteLinks, FS_AddElement
<1>3. b.status = a.status /\ b.refCount = a.refCount + 1 /\ b.durableRefCount = a.durableRefCount
  BY DEF Reattached, Asset
<1> HIDE DEF b, g
<1> QED
  BY <1>1, <1>2, <1>3 DEF Sound, Counted, b, g

LEMMA SoundDropped ==
  ASSUME NEW a \in Asset, NEW f \in [Slots -> MediaLink], NEW s \in Slots, Sound(a, f),
         f[s].status = "deleted"
  PROVE  Sound(Dropped(a), [f EXCEPT ![s] = NoLink])
<1> DEFINE g == [f EXCEPT ![s] = NoLink]
           b == Dropped(a)
           n == Less(a.durableRefCount)
<1>1. On(g) = On(f) /\ Any(g) = Any(f) \ {s} /\ s \in Any(f)
  BY DEF On, Any, NoLink
<1>2. Cardinality(On(g)) = Cardinality(On(f)) /\ Cardinality(Any(g)) = Cardinality(Any(f)) - 1
  BY <1>1, FiniteLinks, FS_RemoveElement
<1>3. b.refCount = a.refCount /\ b.durableRefCount = n /\ (n # 0 => b.status = a.status)
  BY DEF Dropped, Asset
<1>4. Cardinality(Any(g)) \in Nat /\ Cardinality(Any(f)) \in Nat
  BY FiniteLinks
<1>5. n = Cardinality(Any(g))
  BY <1>2, <1>4 DEF Sound, Counted, Less
<1>6. n = 0 => Any(g) = {}
  BY <1>5, FiniteLinks, FS_EmptySet
<1> HIDE DEF b, g, n
<1> QED
  BY <1>1, <1>2, <1>3, <1>5, <1>6 DEF Sound, Counted, b, g

LEMMA SoundAged ==
  ASSUME NEW a \in Asset, NEW f \in [Slots -> MediaLink], Sound(a, f)
  PROVE  Sound(AgedAsset(a), [s \in Slots |-> AgedLink(f[s])])
<1> DEFINE g == [s \in Slots |-> AgedLink(f[s])]
           b == AgedAsset(a)
<1>1. \A s \in Slots : g[s].status = f[s].status
  BY DEF AgedLink, MediaLink
<1>2. On(g) = On(f) /\ Any(g) = Any(f)
  BY <1>1 DEF On, Any
<1>3. b.status = a.status /\ b.refCount = a.refCount /\ b.durableRefCount = a.durableRefCount
  BY DEF AgedAsset, Asset
<1> HIDE DEF b, g
<1> QED
  BY <1>2, <1>3 DEF Sound, Counted, b, g

-----------------------------------------------------------------------------
(* The inductive invariant.  CountsExact and LinkedIsReady hold together   *)
(* for each asset; a finalizer's copy, which will be written back whole,   *)
(* has no links because the asset it was read from was still uploading.    *)

Finalizing == {"attrs", "hash", "decode", "commit"}

CopiesUnlinked ==
  \A w \in Workers : calls[w].pc \in Finalizing =>
    calls[w].asset.refCount = 0 /\ calls[w].asset.durableRefCount = 0

GraphInv ==
  /\ TypeOK
  /\ \A m \in MediaIDs : Sound(assets[m], links[m])
  /\ RefsAgree
  /\ CopiesUnlinked

LEMMA GraphInvImplies == GraphInv => CountsExact /\ RefsAgree /\ LinkedIsReady
BY DEF GraphInv, Sound, Counted, CountsExact, LinkedIsReady, On, Any, Active, Recorded

LEMMA InitGraph == Init => GraphInv
<1> SUFFICES ASSUME Init PROVE GraphInv
  OBVIOUS
<1>1. \A m \in MediaIDs : Any(links[m]) = {}
  BY DEF Init, Any, NoLink
<1>2. \A m \in MediaIDs : assets[m].refCount = 0 /\ assets[m].durableRefCount = 0
  BY DEF Init, Absent
<1>3. \A m \in MediaIDs : Sound(assets[m], links[m])
  BY <1>1, <1>2, SoundUnlinked
<1>4. RefsAgree
  BY SentinelAssumption DEF Init, RefsAgree, NoLink
<1>5. CopiesUnlinked
  BY DEF Init, CopiesUnlinked, Idle, Finalizing
<1> QED
  BY <1>3, <1>4, <1>5, InitTypeOK DEF GraphInv

(* A step that leaves the links alone keeps the graph, if what it changes  *)
(* of an asset was not ready and has no counts.                            *)
LEMMA AssetStepGraph ==
  ASSUME GraphInv, TypeOK', links' = links, refs' = refs, CopiesUnlinked',
         NEW m \in MediaIDs, NEW a, assets' = [assets EXCEPT ![m] = a],
         assets[m].status # "ready", a.refCount = 0, a.durableRefCount = 0
  PROVE  GraphInv'
<1>1. Any(links[m]) = {}
  BY Unlinked DEF GraphInv
<1>2. Sound(a, links[m])
  BY <1>1, SoundUnlinked
<1>3. \A x \in MediaIDs : Sound(assets'[x], links[x])
  BY <1>2 DEF GraphInv, TypeOK
<1>4. RefsAgree'
  BY DEF GraphInv, RefsAgree
<1> QED
  BY <1>3, <1>4 DEF GraphInv

LEMMA IdleGraph ==
  ASSUME GraphInv, TypeOK', UNCHANGED <<assets, links, refs>>, CopiesUnlinked'
  PROVE  GraphInv'
BY DEF GraphInv, RefsAgree

LEMMA ReturnUnlinked ==
  ASSUME GraphInv, NEW w \in Workers, Return(w)
  PROVE  CopiesUnlinked'
BY DEF GraphInv, TypeOK, CopiesUnlinked, Return, Idle, Finalizing

(* Worker w goes on with a call that is not a finalization, or that holds  *)
(* no counts.                                                              *)
LEMMA CallUnlinked ==
  ASSUME GraphInv, NEW w \in Workers, NEW call, calls' = [calls EXCEPT ![w] = call],
         call.pc \in Finalizing => call.asset.refCount = 0 /\ call.asset.durableRefCount = 0
  PROVE  CopiesUnlinked'
BY DEF GraphInv, TypeOK, CopiesUnlinked

LEMMA UploadGraph ==
  ASSUME GraphInv, TypeOK', NEW w \in Workers, UploadStep(w)
  PROVE  GraphInv'
<1> USE DEF Finalizing
<1>0. TypeOK
  BY DEF GraphInv
<1>1. ASSUME NEW m \in MediaIDs, NEW sha \in Contents, FinalizeUpload(w, m, sha)
      PROVE  GraphInv'
  <2> DEFINE call == [Idle EXCEPT !.pc = "attrs", !.media = m, !.sha = sha, !.asset = assets[m]]
  <2>1. Sound(assets[m], links[m]) /\ assets[m].status = "uploading"
    BY <1>1 DEF FinalizeUpload, GraphInv
  <2>2. assets[m].refCount = 0 /\ assets[m].durableRefCount = 0
    BY <2>1, Unlinked
  <2>3. call.asset = assets[m]
    BY DEF Idle
  <2>4. calls' = [calls EXCEPT ![w] = call] /\ UNCHANGED <<assets, links, refs>>
    BY <1>1 DEF FinalizeUpload
  <2> HIDE DEF call
  <2> QED
    BY <2>2, <2>3, <2>4, CallUnlinked, IdleGraph
<1>2. CASE ReadAttrs(w) \/ HashObject(w) \/ DecodeObject(w)
  <2>1. UNCHANGED <<assets, links, refs>>
    BY <1>2 DEF ReadAttrs, HashObject, DecodeObject
  <2>2. CASE Return(w)
    BY <2>1, <2>2, ReturnUnlinked, IdleGraph
  <2>3. CASE ~Return(w)
    <3>1. calls[w].asset.refCount = 0 /\ calls[w].asset.durableRefCount = 0
      BY <1>2 DEF GraphInv, CopiesUnlinked, ReadAttrs, HashObject, DecodeObject
    <3>2. calls[w] \in Call
      BY <1>0 DEF TypeOK
    <3>3. PICK call : /\ calls' = [calls EXCEPT ![w] = call]
                      /\ call.asset.refCount = 0 /\ call.asset.durableRefCount = 0
      <4>1. CASE ReadAttrs(w)
        <5> DEFINE o == objects[calls[w].media]
                   c == [calls[w] EXCEPT !.pc = "hash", !.generation = o.generation,
                                         !.shape = ShapeOf[o.content]]
        <5>1. calls' = [calls EXCEPT ![w] = c]
          BY <4>1, <2>3 DEF ReadAttrs
        <5>2. c.asset = calls[w].asset
          BY <3>2 DEF Call
        <5> QED
          BY <5>1, <5>2, <3>1
      <4>2. CASE HashObject(w)
        <5> DEFINE c == [calls[w] EXCEPT !.pc = "decode", !.hashed = objects[calls[w].media].content]
        <5>1. calls' = [calls EXCEPT ![w] = c]
          BY <4>2, <2>3 DEF HashObject
        <5>2. c.asset = calls[w].asset
          BY <3>2 DEF Call
        <5> QED
          BY <5>1, <5>2, <3>1
      <4>3. CASE DecodeObject(w)
        <5> DEFINE c == [calls[w] EXCEPT !.pc = "commit", !.asset = Finalized(calls[w])]
        <5>1. calls' = [calls EXCEPT ![w] = c]
          BY <4>3, <2>3 DEF DecodeObject
        <5>2. c.asset = Finalized(calls[w])
          BY <3>2 DEF Call
        <5>3. /\ Finalized(calls[w]).refCount = calls[w].asset.refCount
              /\ Finalized(calls[w]).durableRefCount = calls[w].asset.durableRefCount
          BY <3>2 DEF Finalized, Call, Asset
        <5> QED
          BY <5>1, <5>2, <5>3, <3>1
      <4> QED
        BY <1>2, <4>1, <4>2, <4>3
    <3>4. CopiesUnlinked'
      BY <3>3, CallUnlinked
    <3> QED
      BY <2>1, <3>4, IdleGraph
  <2> QED
    BY <2>2, <2>3
<1>3. CASE CommitFinalize(w)
  <2> DEFINE m == calls[w].media
  <2>1. m \in MediaIDs /\ links' = links /\ refs' = refs
    BY <1>0, <1>3 DEF CommitFinalize, TypeOK
  <2>2. CopiesUnlinked'
    BY <1>3, ReturnUnlinked DEF CommitFinalize
  <2>3. CASE assets' = assets
    BY <2>1, <2>2, <2>3, IdleGraph
  <2>4. CASE assets[m].status = "uploading" /\ assets' = [assets EXCEPT ![m] = calls[w].asset]
    <3>1. calls[w].asset.refCount = 0 /\ calls[w].asset.durableRefCount = 0
      BY <1>3 DEF CommitFinalize, GraphInv, CopiesUnlinked
    <3> QED
      BY <2>1, <2>2, <2>4, <3>1, AssetStepGraph
  <2> QED
    BY <1>3, <2>3, <2>4 DEF CommitFinalize
<1> QED
  BY <1>1, <1>2, <1>3 DEF UploadStep

LEMMA PurgeGraph ==
  ASSUME GraphInv, TypeOK', NEW w \in Workers, PurgeStep(w)
  PROVE  GraphInv'
<1> USE DEF Finalizing
<1>0. TypeOK
  BY DEF GraphInv
<1>1. ASSUME NEW m \in MediaIDs, NEW b, assets' = [assets EXCEPT ![m] = b],
             b.refCount = assets[m].refCount, b.durableRefCount = assets[m].durableRefCount,
             assets[m].status # "ready", links' = links, refs' = refs, CopiesUnlinked'
      PROVE  GraphInv'
  <2>1. assets[m].refCount = 0 /\ assets[m].durableRefCount = 0
    BY <1>1, Unlinked DEF GraphInv
  <2> QED
    BY <1>1, <2>1, AssetStepGraph
<1>2. ASSUME NEW m \in MediaIDs, NEW kind \in PurgeKinds, Claim(w, m, kind)
      PROVE  GraphInv'
  <2>1. Claimed(assets[m]).refCount = assets[m].refCount
        /\ Claimed(assets[m]).durableRefCount = assets[m].durableRefCount
    BY <1>0 DEF Claimed, TypeOK, Asset
  <2>2. assets[m].status # "ready"
    BY <1>2 DEF Claim, Claimable, OrphanClaimable, StaleClaimable
  <2>3. Purging("delete", m, kind, Claimed(assets[m])).pc = "delete"
    BY DEF Purging, Idle
  <2>4. CopiesUnlinked'
    BY <1>2, <2>3, CallUnlinked DEF Claim
  <2> QED
    BY <1>1, <1>2, <2>1, <2>2, <2>4 DEF Claim
<1>3. ASSUME NEW m \in MediaIDs, NEW kind \in PurgeKinds, ClaimAborted(w, m, kind)
      PROVE  GraphInv'
  <2>1. Purging("claim", m, kind, assets[m]).pc = "claim"
    BY DEF Purging, Idle
  <2>2. CopiesUnlinked'
    BY <1>3, <2>1, CallUnlinked DEF ClaimAborted
  <2> QED
    BY <1>3, <2>2, IdleGraph DEF ClaimAborted
<1>4. CASE ClaimLeaked(w)
  <2>1. Purging("delete", calls[w].media, calls[w].kind, assets[calls[w].media]).pc = "delete"
    BY DEF Purging, Idle
  <2>2. CopiesUnlinked'
    BY <1>4, <2>1, CallUnlinked DEF ClaimLeaked
  <2> QED
    BY <1>4, <2>2, IdleGraph DEF ClaimLeaked
<1>5. ASSUME NEW pc \in {"rollback", "complete"}, Proceed(w, pc)
      PROVE  CopiesUnlinked'
  <2>1. [calls[w] EXCEPT !.pc = pc].pc = pc
    BY <1>0 DEF TypeOK, Call
  <2> QED
    BY <1>5, <2>1, CallUnlinked DEF Proceed
<1>6. CASE DeleteObject(w) \/ DeleteFails(w)
  BY <1>5, <1>6, IdleGraph DEF DeleteObject, DeleteFails
<1>7. CASE Rollback(w) \/ Complete(w)
  <2> DEFINE m == calls[w].media  kind == calls[w].kind
  <2>1. m \in MediaIDs /\ links' = links /\ refs' = refs
    BY <1>0, <1>7 DEF Rollback, Complete, TypeOK
  <2>2. CopiesUnlinked'
    BY <1>7, ReturnUnlinked DEF Rollback, Complete
  <2>3. CASE assets' = assets
    BY <2>1, <2>2, <2>3, IdleGraph
  <2>4. ASSUME NEW status, assets[m].status = "purging",
               assets' = [assets EXCEPT ![m] = [assets[m] EXCEPT !.status = status]]
        PROVE  GraphInv'
    <3> DEFINE b == [assets[m] EXCEPT !.status = status]
    <3>1. b.refCount = assets[m].refCount /\ b.durableRefCount = assets[m].durableRefCount
      BY <1>0, <2>1 DEF TypeOK, Asset
    <3> HIDE DEF b
    <3>2. assets' = [assets EXCEPT ![m] = b]
      BY <2>4 DEF b
    <3> QED
      BY <1>1, <2>1, <2>2, <2>4, <3>1, <3>2
  <2> QED
    BY <1>7, <2>3, <2>4 DEF Rollback, Complete, Completable
<1> QED
  BY <1>2, <1>3, <1>4, <1>6, <1>7
     DEF PurgeStep, PurgeOrphan, PurgeStaleUpload, PurgeKinds

LEMMA LinkCallGraph ==
  ASSUME GraphInv, NEW m \in MediaIDs, NEW s \in Slots, Link(m, s)
  PROVE  /\ \A x \in MediaIDs : Sound(assets'[x], links'[x])
         /\ RefsAgree'
<1> DEFINE Replaced(x) == x = refs[s] /\ x # m
           Removed(x) == Replaced(x) /\ links[x][s].status # "deleted"
<1>1. TypeOK
  BY DEF GraphInv
<1>2. \A x \in MediaIDs : Removed(x) <=> Replaced(x)
  BY DEF GraphInv, RefsAgree
<1>3. ASSUME NEW x \in MediaIDs
      PROVE  Sound(assets'[x], links'[x])
  <2>1. assets[x] \in Asset /\ links[x] \in [Slots -> MediaLink] /\ Sound(assets[x], links[x])
    BY <1>1 DEF GraphInv, TypeOK
  <2>2. CASE x = m
    BY <2>1, <2>2, SoundAttached DEF Link
  <2>3. CASE x # m /\ Removed(x)
    <3>1. links[x][s].status = "active"
      BY <2>3 DEF GraphInv, RefsAgree
    <3>2. assets'[x] = Detached(assets[x]) /\ links'[x] = [links[x] EXCEPT ![s] = DeletedLink]
      BY <2>3 DEF Link
    <3> QED
      BY <2>1, <3>1, <3>2, SoundDetached
  <2>4. CASE x # m /\ ~Removed(x)
    <3>1. assets'[x] = assets[x] /\ links'[x] = links[x]
      BY <2>4 DEF Link
    <3> QED
      BY <2>1, <3>1
  <2> QED
    BY <2>2, <2>3, <2>4
<1>4. ASSUME NEW x \in MediaIDs, NEW t \in Slots
      PROVE  refs'[t] = x <=> links'[x][t].status = "active"
  <2>1. links[x] \in [Slots -> MediaLink] /\ refs' = [refs EXCEPT ![s] = m] /\ s \in DOMAIN refs
    BY <1>1 DEF TypeOK, Link
  <2>2. refs[t] = x <=> links[x][t].status = "active"
    BY DEF GraphInv, RefsAgree
  <2>3. CASE x = m
    <3>1. links'[x] = [links[x] EXCEPT ![s] = ActiveLink]
      BY <2>3 DEF Link
    <3> QED
      BY <1>1, <2>1, <2>2, <2>3, <3>1 DEF ActiveLink, TypeOK
  <2>4. CASE x # m /\ Replaced(x)
    <3>1. links'[x] = [links[x] EXCEPT ![s] = DeletedLink]
      BY <1>2, <2>4 DEF Link
    <3> QED
      BY <1>1, <2>1, <2>2, <2>4, <3>1 DEF DeletedLink, TypeOK
  <2>5. CASE x # m /\ ~Replaced(x)
    <3>1. links'[x] = links[x]
      BY <2>5 DEF Link
    <3> QED
      BY <1>1, <2>1, <2>2, <2>5, <3>1 DEF TypeOK
  <2> QED
    BY <2>3, <2>4, <2>5
<1> QED
  BY <1>3, <1>4 DEF RefsAgree

LEMMA UnlinkGraph ==
  ASSUME GraphInv, NEW s \in Slots, Unlink(s)
  PROVE  /\ \A x \in MediaIDs : Sound(assets'[x], links'[x])
         /\ RefsAgree'
<1> DEFINE m == refs[s]
<1>1. TypeOK
  BY DEF GraphInv
<1>2. m \in MediaIDs
  BY <1>1 DEF Unlink, TypeOK
<1>3. links[m][s].status = "active"
  BY <1>2 DEF GraphInv, RefsAgree
<1>4. /\ assets' = [assets EXCEPT ![m] = Detached(assets[m])]
      /\ links' = [links EXCEPT ![m] = [links[m] EXCEPT ![s] = DeletedLink]]
      /\ refs' = [refs EXCEPT ![s] = NoMedia]
  BY <1>3 DEF Unlink
<1>5. assets[m] \in Asset /\ links[m] \in [Slots -> MediaLink] /\ Sound(assets[m], links[m])
  BY <1>1, <1>2 DEF GraphInv, TypeOK
<1>6. Sound(Detached(assets[m]), [links[m] EXCEPT ![s] = DeletedLink])
  BY <1>3, <1>5, SoundDetached
<1> HIDE DEF m
<1>7. /\ \A x \in MediaIDs : Sound(assets'[x], links'[x])
      /\ \A x \in MediaIDs, t \in Slots :
           links'[x][t] = IF x = m /\ t = s THEN DeletedLink ELSE links[x][t]
  <2>1. \A x \in MediaIDs : Sound(assets'[x], links'[x])
    BY <1>1, <1>2, <1>4, <1>6 DEF GraphInv, TypeOK
  <2>2. \A x \in MediaIDs, t \in Slots :
          links'[x][t] = IF x = m /\ t = s THEN DeletedLink ELSE links[x][t]
    BY <1>1, <1>2, <1>4 DEF TypeOK
  <2> QED
    BY <2>1, <2>2
<1>8. ASSUME NEW x \in MediaIDs, NEW t \in Slots
      PROVE  refs'[t] = x <=> links'[x][t].status = "active"
  <2>1. refs[t] = x <=> links[x][t].status = "active"
    BY DEF GraphInv, RefsAgree
  <2>2. refs'[t] = IF t = s THEN NoMedia ELSE refs[t]
    BY <1>1, <1>4 DEF TypeOK
  <2>3. NoMedia # x
    BY SentinelAssumption
  <2> QED
    BY <1>7, <2>1, <2>2, <2>3 DEF DeletedLink, m
<1> QED
  BY <1>7, <1>8 DEF RefsAgree

LEMMA RestoreGraph ==
  ASSUME GraphInv, NEW m \in MediaIDs, NEW s \in Slots, Restore(m, s)
  PROVE  /\ \A x \in MediaIDs : Sound(assets'[x], links'[x])
         /\ RefsAgree'
<1>1. TypeOK
  BY DEF GraphInv
<1>2. links[m][s].status = "deleted"
  BY DEF Restore
<1>3. refs[s] = NoMedia
  BY <1>2 DEF Restore, GraphInv, RefsAgree
<1>4. /\ assets' = [assets EXCEPT ![m] = Reattached(assets[m])]
      /\ links' = [links EXCEPT ![m] = [links[m] EXCEPT ![s] = ActiveLink]]
      /\ refs' = [refs EXCEPT ![s] = m]
  BY DEF Restore
<1>5. assets[m] \in Asset /\ links[m] \in [Slots -> MediaLink] /\ Sound(assets[m], links[m])
  BY <1>1 DEF GraphInv, TypeOK
<1>6. Sound(Reattached(assets[m]), [links[m] EXCEPT ![s] = ActiveLink])
  BY <1>2, <1>5, SoundReattached
<1>7. /\ \A x \in MediaIDs : Sound(assets'[x], links'[x])
      /\ \A x \in MediaIDs, t \in Slots :
           links'[x][t] = IF x = m /\ t = s THEN ActiveLink ELSE links[x][t]
  <2>1. \A x \in MediaIDs : Sound(assets'[x], links'[x])
    BY <1>1, <1>4, <1>6 DEF GraphInv, TypeOK
  <2>2. \A x \in MediaIDs, t \in Slots :
          links'[x][t] = IF x = m /\ t = s THEN ActiveLink ELSE links[x][t]
    BY <1>1, <1>4 DEF TypeOK
  <2> QED
    BY <2>1, <2>2
<1>8. ASSUME NEW x \in MediaIDs, NEW t \in Slots
      PROVE  refs'[t] = x <=> links'[x][t].status = "active"
  <2>1. refs[t] = x <=> links[x][t].status = "active"
    BY DEF GraphInv, RefsAgree
  <2>2. refs'[t] = IF t = s THEN m ELSE refs[t]
    BY <1>1, <1>4 DEF TypeOK
  <2>3. NoMedia # x
    BY SentinelAssumption
  <2> QED
    BY <1>3, <1>7, <2>1, <2>2, <2>3 DEF ActiveLink
<1> QED
  BY <1>7, <1>8 DEF RefsAgree

LEMMA PurgeExpiredLinkGraph ==
  ASSUME GraphInv, NEW m \in MediaIDs, NEW s \in Slots, PurgeExpiredLink(m, s)
  PROVE  /\ \A x \in MediaIDs : Sound(assets'[x], links'[x])
         /\ RefsAgree'
<1>1. TypeOK
  BY DEF GraphInv
<1>2. links[m][s].status = "deleted"
  BY DEF PurgeExpiredLink
<1>3. /\ assets' = [assets EXCEPT ![m] = Dropped(assets[m])]
      /\ links' = [links EXCEPT ![m] = [links[m] EXCEPT ![s] = NoLink]]
      /\ refs' = refs
  BY DEF PurgeExpiredLink
<1>4. assets[m] \in Asset /\ links[m] \in [Slots -> MediaLink] /\ Sound(assets[m], links[m])
  BY <1>1 DEF GraphInv, TypeOK
<1>5. Sound(Dropped(assets[m]), [links[m] EXCEPT ![s] = NoLink])
  BY <1>2, <1>4, SoundDropped
<1>6. /\ \A x \in MediaIDs : Sound(assets'[x], links'[x])
      /\ \A x \in MediaIDs, t \in Slots :
           links'[x][t] = IF x = m /\ t = s THEN NoLink ELSE links[x][t]
  <2>1. \A x \in MediaIDs : Sound(assets'[x], links'[x])
    BY <1>1, <1>3, <1>5 DEF GraphInv, TypeOK
  <2>2. \A x \in MediaIDs, t \in Slots :
          links'[x][t] = IF x = m /\ t = s THEN NoLink ELSE links[x][t]
    BY <1>1, <1>3 DEF TypeOK
  <2> QED
    BY <2>1, <2>2
<1>7. ASSUME NEW x \in MediaIDs, NEW t \in Slots
      PROVE  refs'[t] = x <=> links'[x][t].status = "active"
  BY <1>2, <1>3, <1>6, <1>7 DEF GraphInv, RefsAgree, NoLink
<1> QED
  BY <1>6, <1>7 DEF RefsAgree

LEMMA LinkGraph ==
  ASSUME GraphInv, TypeOK', LinkStep
  PROVE  GraphInv'
<1>1. calls' = calls
  BY DEF LinkStep, Link, Unlink, Restore, PurgeExpiredLink
<1>2. CopiesUnlinked'
  BY <1>1 DEF GraphInv, CopiesUnlinked
<1>3. (\A x \in MediaIDs : Sound(assets'[x], links'[x])) /\ RefsAgree'
  BY LinkCallGraph, UnlinkGraph, RestoreGraph, PurgeExpiredLinkGraph DEF LinkStep
<1> QED
  BY <1>2, <1>3 DEF GraphInv

LEMMA ClientGraph ==
  ASSUME GraphInv, TypeOK', ClientStep
  PROVE  GraphInv'
<1>1. CopiesUnlinked'
  BY DEF ClientStep, BeginUpload, PutObject, GraphInv, CopiesUnlinked
<1>2. ASSUME NEW m \in MediaIDs, NEW access \in AccessModes, NEW declared \in Shapes,
             BeginUpload(m, access, declared)
      PROVE  GraphInv'
  <2>1. CASE assets' = assets
    BY <1>1, <1>2, <2>1, IdleGraph DEF BeginUpload
  <2>2. CASE assets[m].status = "absent" /\ assets' = [assets EXCEPT ![m] = NewUpload(access, declared)]
    <3>1. NewUpload(access, declared).refCount = 0 /\ NewUpload(access, declared).durableRefCount = 0
      BY DEF NewUpload, Absent
    <3> QED
      BY <1>1, <1>2, <2>2, <3>1, AssetStepGraph DEF BeginUpload
  <2> QED
    BY <1>2, <2>1, <2>2 DEF BeginUpload
<1>3. ASSUME NEW m \in MediaIDs, NEW c \in Contents, PutObject(m, c)
      PROVE  GraphInv'
  BY <1>1, <1>3, IdleGraph DEF PutObject
<1> QED
  BY <1>2, <1>3 DEF ClientStep

LEMMA TickGraph ==
  ASSUME GraphInv, TypeOK', Tick
  PROVE  GraphInv'
<1>1. TypeOK
  BY DEF GraphInv
<1>2. ASSUME NEW m \in MediaIDs
      PROVE  Sound(assets'[m], links'[m])
  <2>1. assets'[m] = AgedAsset(assets[m]) /\ links'[m] = [s \in Slots |-> AgedLink(links[m][s])]
    BY DEF Tick
  <2>2. assets[m] \in Asset /\ links[m] \in [Slots -> MediaLink] /\ Sound(assets[m], links[m])
    BY <1>1 DEF GraphInv, TypeOK
  <2> QED
    BY <2>1, <2>2, SoundAged
<1>3. ASSUME NEW m \in MediaIDs, NEW s \in Slots
      PROVE  refs'[s] = m <=> links'[m][s].status = "active"
  <2>1. links'[m][s] = AgedLink(links[m][s]) /\ refs' = refs
    BY DEF Tick
  <2>2. links[m][s] \in MediaLink
    BY <1>1 DEF TypeOK
  <2>3. AgedLink(links[m][s]).status = links[m][s].status
    BY <2>2 DEF AgedLink, MediaLink
  <2> QED
    BY <2>1, <2>3 DEF GraphInv, RefsAgree
<1>4. ASSUME NEW w \in Workers, calls'[w].pc \in Finalizing
      PROVE  calls'[w].asset.refCount = 0 /\ calls'[w].asset.durableRefCount = 0
  <2>1. calls'[w] = [calls[w] EXCEPT !.asset = AgedAsset(calls[w].asset)]
    BY DEF Tick
  <2>2. calls[w] \in Call /\ calls[w].asset \in Asset
    BY <1>1 DEF TypeOK, Call
  <2>3. calls'[w].pc = calls[w].pc /\ calls'[w].asset = AgedAsset(calls[w].asset)
    BY <2>1, <2>2 DEF Call
  <2>4. /\ AgedAsset(calls[w].asset).refCount = calls[w].asset.refCount
        /\ AgedAsset(calls[w].asset).durableRefCount = calls[w].asset.durableRefCount
    BY <2>2 DEF AgedAsset, Asset
  <2> QED
    BY <1>4, <2>3, <2>4 DEF GraphInv, CopiesUnlinked
<1> QED
  BY <1>2, <1>3, <1>4 DEF GraphInv, RefsAgree, CopiesUnlinked

LEMMA StepGraph ==
  ASSUME GraphInv, [Next]_vars
  PROVE  GraphInv'
<1>1. TypeOK'
  BY StepTypeOK DEF GraphInv
<1>2. ASSUME NEW w \in Workers, Crash(w)
      PROVE  GraphInv'
  BY <1>1, <1>2, ReturnUnlinked, IdleGraph DEF Crash
<1>3. CASE UNCHANGED vars
  <2>1. CopiesUnlinked'
    BY <1>3 DEF vars, GraphInv, CopiesUnlinked
  <2> QED
    BY <1>1, <1>3, <2>1, IdleGraph DEF vars
<1> QED
  BY <1>1, <1>2, <1>3, UploadGraph, PurgeGraph, LinkGraph, ClientGraph, TickGraph DEF Next

(* The inductive invariant behind the theorems on the link graph: types,    *)
(* counters, references, and that nothing not yet finalized is linked.     *)
THEOREM GraphInvariant == Spec => []GraphInv
BY InitGraph, StepGraph, PTL DEF Spec

(* Both counters are exact, whatever calls race, crash or are run twice:   *)
(* Sweep (service.go:619) never finds a mismatch in a state of the         *)
(* database, and no saturating decrement ever saturates.                   *)
THEOREM CountsAreExact == Spec => []CountsExact
BY GraphInvariant, GraphInvImplies, PTL

(* The forward references and the active links are two views of one        *)
(* relation: a slot never refers to what has no active link there          *)
(* (service.go:320), and no two assets are active at one slot.             *)
THEOREM ReferencesAgree == Spec => []RefsAgree
BY GraphInvariant, GraphInvImplies, PTL

(* What has a link record, active or recoverable, is ready; Restore        *)
(* (service.go:441) may ignore the status.                                 *)
THEOREM LinkedAssetsAreReady == Spec => []LinkedIsReady
BY GraphInvariant, GraphInvImplies, PTL

-----------------------------------------------------------------------------
(* What a step may not do to a reference or to an asset that was given up *)

LEMMA RemovalStep ==
  ASSUME GraphInv, [Next]_vars, NEW m \in MediaIDs, NEW s \in Slots,
         refs[s] = m, refs'[s] # m
  PROVE  links'[m][s].status = "deleted" /\ links'[m][s].left = Recovery
<1>1. TypeOK
  BY DEF GraphInv
<1>2. links[m][s].status = "active"
  BY DEF GraphInv, RefsAgree
<1>3. ASSUME NEW x \in MediaIDs, NEW t \in Slots, Link(x, t)
      PROVE  links'[m][s] = DeletedLink
  <2>1. refs' = [refs EXCEPT ![t] = x]
    BY <1>3 DEF Link
  <2>2. t = s /\ x # m
    BY <1>1, <2>1 DEF TypeOK
  <2>3. links'[m] = [links[m] EXCEPT ![s] = DeletedLink]
    BY <1>2, <1>3, <2>2 DEF Link
  <2> QED
    BY <1>1, <2>3 DEF TypeOK
<1>4. ASSUME NEW t \in Slots, Unlink(t)
      PROVE  links'[m][s] = DeletedLink
  <2>1. t = s
    BY <1>1, <1>4 DEF Unlink, TypeOK
  <2>2. links' = [links EXCEPT ![m] = [links[m] EXCEPT ![s] = DeletedLink]]
    BY <1>2, <1>4, <2>1 DEF Unlink
  <2> QED
    BY <1>1, <2>2 DEF TypeOK
<1>5. ASSUME NEW x \in MediaIDs, NEW t \in Slots, Restore(x, t)
      PROVE  FALSE
  <2>1. refs' = [refs EXCEPT ![t] = x] /\ refs[t] \in {NoMedia, x}
    BY <1>5 DEF Restore
  <2>2. t = s /\ x # m
    BY <1>1, <2>1 DEF TypeOK
  <2> QED
    BY <2>1, <2>2, SentinelAssumption
<1>6. refs' = refs \/ links'[m][s] = DeletedLink
  BY <1>3, <1>4, <1>5
     DEF Next, vars, LinkStep, PurgeExpiredLink, ClientStep, BeginUpload, PutObject, Tick,
         Crash, UploadStep, FinalizeUpload, ReadAttrs, HashObject, DecodeObject,
         CommitFinalize, PurgeStep, PurgeOrphan, PurgeStaleUpload, Claim, ClaimAborted,
         ClaimLeaked, DeleteObject, DeleteFails, Rollback, Complete
<1> QED
  BY <1>6 DEF DeletedLink

(* Nothing is forgotten at once: whatever takes a reference away, Unlink   *)
(* (service.go:399) or a Link that replaces it (service.go:345), leaves a  *)
(* record that Restore takes for the whole recovery window.                *)
THEOREM RemovalsAreRecoverable == Spec => RemovalIsRecoverable
<1>1. GraphInv /\ [Next]_vars =>
        [\A m \in MediaIDs, s \in Slots :
           refs[s] = m /\ refs'[s] # m =>
             links'[m][s].status = "deleted" /\ links'[m][s].left = Recovery]_vars
  BY RemovalStep
<1> QED
  BY <1>1, GraphInvariant, PTL DEF Spec, RemovalIsRecoverable

LEMMA EndStep ==
  ASSUME GraphInv, [Next]_vars, NEW m \in MediaIDs,
         assets[m].status \in {"deleted", "failed"}
  PROVE  assets'[m].status = assets[m].status
<1>1. TypeOK
  BY DEF GraphInv
<1>2. \A s \in Slots : links[m][s].status = "none"
  BY Unlinked DEF GraphInv, Any
<1>3. \A s \in Slots : refs[s] # m
  BY <1>2 DEF GraphInv, RefsAgree
<1>4. CASE LinkStep
  <2>1. ASSUME NEW x \in MediaIDs, NEW s \in Slots, Link(x, s)
        PROVE  assets'[m] = assets[m]
    BY <1>3, <2>1 DEF Link, Linkable
  <2>2. ASSUME NEW s \in Slots, Unlink(s)
        PROVE  assets'[m] = assets[m]
    BY <1>1, <1>3, <2>2 DEF Unlink, TypeOK
  <2>3. ASSUME NEW x \in MediaIDs, NEW s \in Slots, Restore(x, s) \/ PurgeExpiredLink(x, s)
        PROVE  assets'[m] = assets[m]
    BY <1>1, <1>2, <2>3 DEF Restore, PurgeExpiredLink, TypeOK
  <2> QED
    BY <1>4, <2>1, <2>2, <2>3 DEF LinkStep
<1>5. CASE ClientStep
  BY <1>1, <1>5 DEF ClientStep, BeginUpload, PutObject, TypeOK
<1>6. ASSUME NEW w \in Workers, UploadStep(w) \/ PurgeStep(w) \/ Crash(w)
      PROVE  assets'[m] = assets[m]
  BY <1>1, <1>6
     DEF UploadStep, FinalizeUpload, ReadAttrs, HashObject, DecodeObject, CommitFinalize,
         PurgeStep, PurgeOrphan, PurgeStaleUpload, Claim, ClaimAborted, ClaimLeaked,
         Claimable, OrphanClaimable, StaleClaimable, DeleteObject, DeleteFails, Rollback,
         Complete, Completable, Crash, TypeOK
<1>7. CASE Tick
  <2>1. assets[m] \in Asset /\ assets'[m] = AgedAsset(assets[m])
    BY <1>1, <1>7 DEF Tick, TypeOK
  <2> QED
    BY <2>1 DEF AgedAsset, Asset
<1> QED
  BY <1>4, <1>5, <1>6, <1>7 DEF Next, vars

(* A purged asset stays purged, however late a finalizer (service.go:250), *)
(* a Link (service.go:292), a rollback or a second purge arrives.          *)
THEOREM EndsAreFinal == Spec => EndIsFinal
<1>1. GraphInv /\ [Next]_vars =>
        [\A m \in MediaIDs :
           assets[m].status \in {"deleted", "failed"} =>
             assets'[m].status = assets[m].status]_vars
  BY EndStep
<1> QED
  BY <1>1, GraphInvariant, PTL DEF Spec, EndIsFinal

LEMMA MetadataStep ==
  ASSUME GraphInv, [Next]_vars, NEW m \in MediaIDs,
         assets[m].status \notin {"absent", "uploading"}
  PROVE  assets'[m].sha = assets[m].sha /\ assets'[m].generation = assets[m].generation
<1> DEFINE Kept(b) == b.sha = assets[m].sha /\ b.generation = assets[m].generation
<1>1. TypeOK /\ assets[m] \in Asset
  BY DEF GraphInv, TypeOK
<1>2. /\ \A l : Kept(Attached(assets[m], l))
      /\ Kept(Detached(assets[m])) /\ Kept(Reattached(assets[m])) /\ Kept(Dropped(assets[m]))
      /\ Kept(Claimed(assets[m])) /\ Kept(AgedAsset(assets[m])) /\ Kept(assets[m])
      /\ \A status : Kept([assets[m] EXCEPT !.status = status])
  BY <1>1 DEF Attached, Detached, Reattached, Dropped, Claimed, AgedAsset, Asset
<1> HIDE DEF Kept
<1>3. CASE LinkStep
  <2>1. ASSUME NEW x \in MediaIDs, NEW s \in Slots, Link(x, s)
        PROVE  Kept(assets'[m])
    <3>1. \/ m = x /\ assets'[m] = Attached(assets[m], links[m][s])
          \/ assets'[m] = Detached(assets[m])
          \/ assets'[m] = assets[m]
      BY <2>1 DEF Link
    <3> QED
      BY <1>2, <3>1
  <2>2. ASSUME NEW s \in Slots, Unlink(s)
        PROVE  Kept(assets'[m])
    BY <1>1, <1>2, <2>2 DEF Unlink, TypeOK
  <2>3. ASSUME NEW x \in MediaIDs, NEW s \in Slots, Restore(x, s) \/ PurgeExpiredLink(x, s)
        PROVE  Kept(assets'[m])
    BY <1>1, <1>2, <2>3 DEF Restore, PurgeExpiredLink, TypeOK
  <2> QED
    BY <1>3, <2>1, <2>2, <2>3 DEF LinkStep, Kept
<1>4. CASE ClientStep
  BY <1>1, <1>4 DEF ClientStep, BeginUpload, PutObject, TypeOK
<1>5. ASSUME NEW w \in Workers, UploadStep(w) \/ Crash(w)
      PROVE  assets'[m] = assets[m]
  BY <1>1, <1>5
     DEF UploadStep, FinalizeUpload, ReadAttrs, HashObject, DecodeObject, CommitFinalize,
         Crash, TypeOK
<1>6. ASSUME NEW w \in Workers, PurgeStep(w)
      PROVE  Kept(assets'[m])
  <2>1. CASE Rollback(w)
    <3>1. \/ assets'[m] = assets[m]
          \/ assets'[m] = [assets[m] EXCEPT !.status = Resting(calls[w].kind)]
      BY <1>1, <2>1 DEF Rollback, TypeOK
    <3> QED
      BY <1>2, <3>1
  <2>2. CASE Complete(w)
    <3>1. \/ assets'[m] = assets[m]
          \/ assets'[m] = [assets[m] EXCEPT !.status = Ended(calls[w].kind)]
      BY <1>1, <2>2 DEF Complete, TypeOK
    <3> QED
      BY <1>2, <3>1
  <2>3. CASE ~Rollback(w) /\ ~Complete(w)
    <3>1. assets'[m] = assets[m] \/ assets'[m] = Claimed(assets[m])
      BY <1>1, <1>6, <2>3
         DEF PurgeStep, PurgeOrphan, PurgeStaleUpload, Claim, ClaimAborted, ClaimLeaked,
             DeleteObject, DeleteFails, TypeOK
    <3> QED
      BY <1>2, <3>1
  <2> QED
    BY <2>1, <2>2, <2>3
<1>7. CASE Tick
  BY <1>1, <1>2, <1>7 DEF Tick, Kept
<1> QED
  BY <1>3, <1>4, <1>5, <1>6, <1>7 DEF Next, vars, Kept

(* The hash and generation of a finalized asset are written once: a second *)
(* finalizer (service.go:253) writes a whole record read long before, and  *)
(* is stopped by the status it finds.                                      *)
THEOREM MetadataStaysFrozen == Spec => MetadataIsFrozen
<1>1. GraphInv /\ [Next]_vars =>
        [\A m \in MediaIDs :
           assets[m].status \notin {"absent", "uploading"} =>
             /\ assets'[m].sha = assets[m].sha
             /\ assets'[m].generation = assets[m].generation]_vars
  BY MetadataStep
<1> QED
  BY <1>1, GraphInvariant, PTL DEF Spec, MetadataIsFrozen

=============================================================================
