------------------------ MODULE MediaPromise_proofs ------------------------
(* The service keeps the promise of MediaPromise, when the database runs a *)
(* transaction's body once; with deletes that work and report an error, it *)
(* keeps the one that allows bytes to be lost.                             *)
EXTENDS MediaBytes_proofs

-----------------------------------------------------------------------------
(* Steps of the service as steps of the promise *)

(* What a step may do to one picture and its holders. *)
Allowed(p, h, q, g) ==
  \/ q = p /\ g = h
  \/ q = p /\ p.phase = "shown" /\ \E s \in Slots : g = h \cup {s}
  \/ q = p /\ \E s \in Slots : g = h \ {s}
  \/ /\ g = h /\ p.phase = "none"
     /\ \E c \in Promise!Pictured : q = [phase |-> "shown", content |-> c]
  \/ g = h /\ p.phase = "shown" /\ h = {} /\ q = [p EXCEPT !.phase = "hidden"]
  \/ AmbiguousDelete /\ g = h /\ p.phase = "hidden" /\ q = [p EXCEPT !.content = NoContent]
  \/ g = h /\ p.phase = "hidden" /\ q = [p EXCEPT !.phase = "shown"]
  \/ g = h /\ p.phase \in {"none", "hidden"} /\ q = [phase |-> "gone", content |-> NoContent]

(* What readers find of an asset and who holds it are as they were.        *)
SamePicture(m) == Picture(assets'[m], objects'[m]) = Picture(assets[m], objects[m])
SameHolders(m) == Any(links'[m]) = Any(links[m])

(* The step keeps the promise. *)
Keeping == [Promise!PromiseNext]_Promise!promiseVars

LEMMA HoldersOfLinks ==
  /\ [m \in MediaIDs |-> Recorded(m)] = [m \in MediaIDs |-> Any(links[m])]
  /\ [m \in MediaIDs |-> Recorded(m)]' = [m \in MediaIDs |-> Any(links'[m])]
<1>1. [m \in MediaIDs |-> Recorded(m)] = [m \in MediaIDs |-> Any(links[m])]
  BY DEF Recorded, Any
<1>2. [m \in MediaIDs |-> Recorded(m)]' = [m \in MediaIDs |-> Any(links'[m])]
  BY DEF Recorded, Any
<1> QED
  BY <1>1, <1>2

LEMMA Unseen ==
  ASSUME \A m \in MediaIDs : SamePicture(m) /\ SameHolders(m)
  PROVE  Keeping
<1>1. [m \in MediaIDs |-> Picture(assets[m], objects[m])]
        = [m \in MediaIDs |-> Picture(assets[m], objects[m])]'
  BY DEF SamePicture
<1>2. [m \in MediaIDs |-> Recorded(m)] = [m \in MediaIDs |-> Recorded(m)]'
  BY HoldersOfLinks DEF SameHolders
<1> QED
  BY <1>1, <1>2 DEF Keeping, Promise!promiseVars

LEMMA AllowedIsPromised ==
  ASSUME NEW m \in MediaIDs,
         \A x \in MediaIDs \ {m} : SamePicture(x) /\ SameHolders(x),
         Allowed(Picture(assets[m], objects[m]), Any(links[m]),
                 Picture(assets'[m], objects'[m]), Any(links'[m]))
  PROVE  Keeping
<1> DEFINE p == [x \in MediaIDs |-> Picture(assets[x], objects[x])]
           h == [x \in MediaIDs |-> Any(links[x])]
           q == [x \in MediaIDs |-> Picture(assets'[x], objects'[x])]
           g == [x \in MediaIDs |-> Any(links'[x])]
<1>1. /\ [x \in MediaIDs |-> Picture(assets[x], objects[x])] = p
      /\ [x \in MediaIDs |-> Recorded(x)] = h
      /\ [x \in MediaIDs |-> Picture(assets[x], objects[x])]' = q
      /\ [x \in MediaIDs |-> Recorded(x)]' = g
  BY HoldersOfLinks
<1>2. /\ \A x \in MediaIDs \ {m} : q[x] = p[x] /\ g[x] = h[x]
      /\ Allowed(p[m], h[m], q[m], g[m])
  BY DEF SamePicture, SameHolders
<1> HIDE DEF p, h, q, g
<1>3. CASE q[m] = p[m] /\ g[m] = h[m]
  <2>1. q = p /\ g = h
    BY <1>2, <1>3 DEF p, h, q, g
  <2> QED
    BY <1>1, <2>1 DEF Keeping, Promise!promiseVars
<1>4. ASSUME g[m] = h[m], NEW next, q[m] = next
      PROVE  q = [p EXCEPT ![m] = next] /\ g = h
  BY <1>2, <1>4 DEF p, h, q, g
<1>5. ASSUME q[m] = p[m], NEW next, g[m] = next
      PROVE  q = p /\ g = [h EXCEPT ![m] = next]
  BY <1>2, <1>5 DEF p, h, q, g
<1>6. ASSUME NEW s \in Slots, q[m] = p[m], p[m].phase = "shown", g[m] = h[m] \cup {s}
      PROVE  Promise!Hold(m, s)
  BY <1>1, <1>5, <1>6 DEF Promise!Hold
<1>7. ASSUME NEW s \in Slots, q[m] = p[m], g[m] = h[m] \ {s}
      PROVE  Promise!Release(m, s)
  BY <1>1, <1>5, <1>7 DEF Promise!Release
<1>8. ASSUME NEW c \in Promise!Pictured, g[m] = h[m], p[m].phase = "none",
             q[m] = [phase |-> "shown", content |-> c]
      PROVE  Promise!Show(m, c)
  BY <1>1, <1>4, <1>8 DEF Promise!Show
<1>9. ASSUME g[m] = h[m], p[m].phase = "shown", h[m] = {}, q[m] = [p[m] EXCEPT !.phase = "hidden"]
      PROVE  Promise!Hide(m)
  BY <1>1, <1>4, <1>9 DEF Promise!Hide
<1>10. ASSUME AmbiguousDelete, g[m] = h[m], p[m].phase = "hidden",
              q[m] = [p[m] EXCEPT !.content = NoContent]
       PROVE  Promise!Lose(m)
  BY <1>1, <1>4, <1>10 DEF Promise!Lose
<1>11. ASSUME g[m] = h[m], p[m].phase = "hidden", q[m] = [p[m] EXCEPT !.phase = "shown"]
       PROVE  Promise!Reappear(m)
  BY <1>1, <1>4, <1>11 DEF Promise!Reappear
<1>12. ASSUME g[m] = h[m], p[m].phase \in {"none", "hidden"},
              q[m] = [phase |-> "gone", content |-> NoContent]
       PROVE  Promise!Vanish(m)
  BY <1>1, <1>4, <1>12 DEF Promise!Vanish, Promise!Gone
<1> QED
  BY <1>2, <1>3, <1>6, <1>7, <1>8, <1>9, <1>10, <1>11, <1>12
     DEF Allowed, Keeping, Promise!PromiseNext

-----------------------------------------------------------------------------
(* What readers do not see *)

(* The promise is kept from what a purge owns, and, if a delete that fails *)
(* has deleted nothing, from the bytes being whole.                        *)
PromiseInv == OwnInv /\ (~AmbiguousDelete => BytesInv)

(* Two records that readers do not tell apart. *)
SameSight(a, b) ==
  /\ b.sha = a.sha /\ b.generation = a.generation
  /\ \/ b.status = a.status
     \/ a.status \in Served /\ b.status \in Served
     \/ a.status \in Unfinished /\ b.status \in Unfinished

LEMMA SameSightSamePicture ==
  ASSUME NEW a, NEW b, NEW o, SameSight(a, b)
  PROVE  Picture(b, o) = Picture(a, o)
BY DEF SameSight, Picture, Found, Served, Unfinished

LEMMA UnseenRecords ==
  ASSUME objects' = objects,
         \A m \in MediaIDs : SameSight(assets[m], assets'[m]) /\ SameHolders(m)
  PROVE  Keeping
BY SameSightSamePicture, Unseen DEF SamePicture

LEMMA UnseenCalls ==
  ASSUME UNCHANGED <<assets, links, objects>>
  PROVE  Keeping
BY UnseenRecords DEF SameSight, SameHolders

(* Bytes that are stored get a generation that no record names yet.        *)
LEMMA StoredUnseen ==
  ASSUME TypeOK, PinInv, NEW x \in MediaIDs, NEW c \in Contents, PutObject(x, c)
  PROVE  Keeping
<1>1. ASSUME NEW m \in MediaIDs
      PROVE  SamePicture(m)
  <2>1. CASE m = x
    <3> DEFINE o == objects[m]  next == objects'[m]
    <3>1. /\ o.generation \in Nat /\ assets[m].generation \in Nat
          /\ assets[m].generation <= o.generation
      BY DEF PinInv, TypeOK, Object, Asset, Authentic, Belongs
    <3>2. ~o.live /\ next.generation = o.generation + 1
      BY <2>1 DEF PutObject, TypeOK
    <3>3. next.generation # assets[m].generation
      BY <3>1, <3>2
    <3>4. Found(assets[m], o) = NoContent /\ Found(assets[m], next) = NoContent
      BY <3>2, <3>3 DEF Found
    <3>5. assets' = assets
      BY DEF PutObject
    <3> HIDE DEF o, next
    <3>6. Picture(assets[m], next) = Picture(assets[m], o)
      BY <3>4 DEF Picture
    <3> QED
      BY <3>5, <3>6 DEF SamePicture, o, next
  <2>2. CASE m # x
    BY <2>2 DEF PutObject, TypeOK, SamePicture
  <2> QED
    BY <2>1, <2>2
<1>2. \A m \in MediaIDs : SameHolders(m)
  BY DEF PutObject, SameHolders
<1> QED
  BY <1>1, <1>2, Unseen

LEMMA ClientPromise ==
  ASSUME PromiseInv, ClientStep
  PROVE  Keeping
<1>1. TypeOK /\ PinInv
  BY DEF PromiseInv, OwnInv, PinInv
<1>2. ASSUME NEW x \in MediaIDs, NEW access \in AccessModes, NEW declared \in Shapes,
             BeginUpload(x, access, declared)
      PROVE  Keeping
  <2>1. ASSUME NEW m \in MediaIDs
        PROVE  SameSight(assets[m], assets'[m])
    <3>1. \/ assets'[m] = assets[m]
          \/ assets[m].status = "absent" /\ assets'[m] = NewUpload(access, declared)
      BY <1>1, <1>2 DEF BeginUpload, TypeOK
    <3>2. /\ NewUpload(access, declared).status = "uploading"
          /\ NewUpload(access, declared).sha = NoContent
          /\ NewUpload(access, declared).generation = 0
      BY DEF NewUpload, Absent
    <3> QED
      BY <3>1, <3>2 DEF SameSight, Unfinished, PromiseInv, OwnInv, RecordsFit, Blank
  <2>2. UNCHANGED <<links, objects>>
    BY <1>2 DEF BeginUpload
  <2> QED
    BY <2>1, <2>2, UnseenRecords DEF SameHolders
<1> QED
  BY <1>1, <1>2, StoredUnseen DEF ClientStep

LEMMA TickPromise ==
  ASSUME PromiseInv, Tick
  PROVE  Keeping
<1>1. TypeOK /\ objects' = objects
  BY DEF PromiseInv, OwnInv, PinInv, Tick
<1>2. ASSUME NEW m \in MediaIDs
      PROVE  SameSight(assets[m], assets'[m])
  <2>1. \A a \in Asset : SameSight(a, AgedAsset(a))
    BY DEF SameSight, AgedAsset, Asset
  <2> QED
    BY <1>1, <2>1 DEF Tick, TypeOK
<1>3. ASSUME NEW m \in MediaIDs
      PROVE  SameHolders(m)
  <2>1. \A s \in Slots : links'[m][s] = AgedLink(links[m][s]) /\ links[m][s] \in MediaLink
    BY <1>1 DEF Tick, TypeOK
  <2>2. \A l \in MediaLink : AgedLink(l).status = l.status
    BY DEF AgedLink, MediaLink
  <2> QED
    BY <2>1, <2>2 DEF Any, SameHolders
<1> QED
  BY <1>1, <1>2, <1>3, UnseenRecords

-----------------------------------------------------------------------------
(* Uploads and purges *)

(* One record, or one object, changes. *)
LEMMA OnePicture ==
  ASSUME NEW m \in MediaIDs, links' = links,
         \A x \in MediaIDs \ {m} : assets'[x] = assets[x] /\ objects'[x] = objects[x],
         Allowed(Picture(assets[m], objects[m]), Any(links[m]),
                 Picture(assets'[m], objects'[m]), Any(links[m]))
  PROVE  Keeping
BY AllowedIsPromised DEF SamePicture, SameHolders

(* What is committed shows what it was inspected as, or nothing if its     *)
(* bytes are gone by then.                                                 *)
LEMMA CommitPromise ==
  ASSUME PromiseInv, NEW w \in Workers, CommitFinalize(w)
  PROVE  Keeping
<1> DEFINE m == calls[w].media  b == calls[w].asset
<1>1. TypeOK /\ m \in MediaIDs /\ UNCHANGED <<links, objects>> /\ calls[w].pc = "commit"
  BY DEF PromiseInv, OwnInv, PinInv, TypeOK, CommitFinalize
<1>2. CASE assets' = assets
  BY <1>1, <1>2, UnseenCalls
<1>3. CASE assets' # assets
  <2>1. assets[m].status = "uploading" /\ assets' = [assets EXCEPT ![m] = b]
    BY <1>3 DEF CommitFinalize
  <2>2. assets'[m] = b /\ \A x \in MediaIDs \ {m} : assets'[x] = assets[x]
    BY <1>1, <2>1 DEF TypeOK
  <2>3. Authentic(b, objects[m]) /\ Finished(b) /\ b.status = "ready"
    BY <1>1 DEF PromiseInv, OwnInv, PinInv, Reading, Reader
  <2>4. ~AmbiguousDelete => Whole(b, objects[m])
    BY <1>1, <2>1 DEF PromiseInv, BytesInv, ReadersAgree, Open, Reading, ReadFrom
  <2> HIDE DEF m, b
  <2>5. Found(b, objects[m]) \in Promise!Pictured
    BY <2>3, <2>4 DEF Found, Authentic, Belongs, Finished, Whole, Promise!Pictured
  <2>6. /\ Picture(assets[m], objects[m]).phase = "none"
        /\ Picture(b, objects[m]) = [phase |-> "shown", content |-> Found(b, objects[m])]
    BY <2>1, <2>3 DEF Picture
  <2>7. Allowed(Picture(assets[m], objects[m]), Any(links[m]),
                Picture(assets'[m], objects'[m]), Any(links[m]))
    BY <1>1, <2>2, <2>5, <2>6 DEF Allowed
  <2> QED
    BY <1>1, <2>2, <2>7, OnePicture
<1> QED
  BY <1>2, <1>3

LEMMA UploadPromise ==
  ASSUME PromiseInv, NEW w \in Workers, UploadStep(w)
  PROVE  Keeping
BY CommitPromise, UnseenCalls
   DEF UploadStep, FinalizeUpload, ReadAttrs, HashObject, DecodeObject

LEMMA ClaimPromise ==
  ASSUME PromiseInv, NEW w \in Workers, NEW m \in MediaIDs, NEW kind \in PurgeKinds,
         Claim(w, m, kind)
  PROVE  Keeping
<1> DEFINE a == assets[m]  o == objects[m]
<1>1. TypeOK /\ LinkedIsReady /\ a \in Asset
  BY GraphInvImplies DEF PromiseInv, OwnInv, PinInv, TypeOK
<1>2. /\ links' = links /\ objects' = objects
      /\ assets' = [assets EXCEPT ![m] = Claimed(a)]
      /\ a.status = IF kind = "orphan" THEN "orphaned" ELSE "uploading"
  BY DEF Claim, Claimable, OrphanClaimable, StaleClaimable
<1>3. /\ assets'[m] = Claimed(a)
      /\ \A x \in MediaIDs \ {m} : assets'[x] = assets[x]
  BY <1>1, <1>2 DEF TypeOK
<1>4. /\ Claimed(a).status = "purging" /\ Claimed(a).sha = a.sha
      /\ Claimed(a).generation = a.generation
  BY <1>1 DEF Claimed, Asset
<1>5. Found(Claimed(a), o) = Found(a, o)
  BY <1>4 DEF Found
<1>6. IF kind = "orphan" THEN Finished(a) ELSE Blank(a)
  BY <1>2 DEF PromiseInv, OwnInv, RecordsFit, Served, Unfinished
<1>7. Any(links[m]) = {}
  BY <1>1, <1>2 DEF LinkedIsReady, Recorded, Any
<1>8. ~AmbiguousDelete /\ kind = "orphan" => Found(a, o) = a.sha
  BY <1>2 DEF PromiseInv, BytesInv, ServedIsIntact, Intact, Found
<1>9. Allowed(Picture(a, o), Any(links[m]), Picture(Claimed(a), o), Any(links[m]))
  <2> HIDE DEF a, o
  <2>1. CASE kind = "orphan"
    <3>1. /\ Picture(a, o) = [phase |-> "shown", content |-> Found(a, o)]
          /\ Picture(Claimed(a), o) = [phase |-> "hidden", content |-> Found(a, o)]
      BY <1>2, <1>4, <1>5, <1>6, <1>8, <2>1 DEF Picture, Finished
    <3> QED
      BY <1>7, <3>1 DEF Allowed
  <2>2. CASE kind # "orphan"
    <3>1. Picture(Claimed(a), o) = Picture(a, o)
      BY <1>2, <1>4, <1>6, <2>2 DEF Picture, Blank
    <3> QED
      BY <3>1 DEF Allowed
  <2> QED
    BY <2>1, <2>2
<1> QED
  BY <1>2, <1>3, <1>9, OnePicture

LEMMA DeletePromise ==
  ASSUME PromiseInv, NEW w \in Workers, DeleteObject(w) \/ DeleteFails(w)
  PROVE  Keeping
<1> DEFINE m == calls[w].media  a == assets[m]  o == objects[m]
<1>1. /\ TypeOK /\ m \in MediaIDs /\ UNCHANGED <<assets, links>> /\ calls[w].pc = "delete"
  BY DEF PromiseInv, OwnInv, PinInv, TypeOK, DeleteObject, DeleteFails
<1>2. CASE objects' = objects
  BY <1>1, <1>2, UnseenCalls
<1>3. CASE objects' # objects
  <2>1. objects' = [objects EXCEPT ![m] = [o EXCEPT !.live = FALSE]]
    BY <1>3 DEF DeleteObject, DeleteFails
  <2>2. ~objects'[m].live /\ \A x \in MediaIDs \ {m} : objects'[x] = objects[x]
    BY <1>1, <2>1 DEF TypeOK, Object
  <2>3. a.status = "purging"
    BY <1>1 DEF PromiseInv, OwnInv, PurgeIsExclusive
  <2> HIDE DEF m, a, o
  <2>4. Found(a, objects'[m]) = NoContent
    BY <2>2 DEF Found
  <2>5. Allowed(Picture(a, o), Any(links[m]), Picture(a, objects'[m]), Any(links[m]))
    <3>1. CASE a.sha # NoContent /\ AmbiguousDelete
      <4>1. /\ Picture(a, o) = [phase |-> "hidden", content |-> Found(a, o)]
            /\ Picture(a, objects'[m]) = [phase |-> "hidden", content |-> NoContent]
        BY <2>3, <2>4, <3>1 DEF Picture
      <4> QED
        BY <3>1, <4>1 DEF Allowed
    <3>2. CASE ~(a.sha # NoContent /\ AmbiguousDelete)
      <4>1. Picture(a, objects'[m]) = Picture(a, o)
        BY <2>3, <3>2 DEF Picture
      <4> QED
        BY <4>1 DEF Allowed
    <3> QED
      BY <3>1, <3>2
  <2>6. Keeping
    BY <1>1, <2>2, <2>5, OnePicture DEF a, o
  <2> QED
    BY <2>6
<1> QED
  BY <1>2, <1>3

LEMMA EndPurgePromise ==
  ASSUME PromiseInv, NEW w \in Workers, Rollback(w) \/ Complete(w)
  PROVE  Keeping
<1> DEFINE m == calls[w].media  kind == calls[w].kind  a == assets[m]  o == objects[m]
           b == assets'[m]
<1>1. /\ TypeOK /\ m \in MediaIDs /\ kind \in PurgeKinds /\ UNCHANGED <<links, objects>>
      /\ calls[w].pc \in Ending
  BY DEF PromiseInv, OwnInv, PinInv, TypeOK, Rollback, Complete, Call, Ending
<1>2. CASE assets' = assets
  BY <1>1, <1>2, UnseenCalls
<1>3. CASE assets' # assets
  <2>1. PICK status :
          /\ assets' = [assets EXCEPT ![m] = [a EXCEPT !.status = status]]
          /\ \/ calls[w].pc = "rollback" /\ status = Resting(kind)
             \/ status = Ended(kind)
    BY <1>3 DEF Rollback, Complete
  <2>2. /\ b.status = status /\ b.sha = a.sha /\ b.generation = a.generation
        /\ \A x \in MediaIDs \ {m} : assets'[x] = assets[x]
    BY <1>1, <2>1 DEF TypeOK, Asset
  <2>3. a.status = "purging" /\ IF kind = "orphan" THEN Finished(a) ELSE Blank(a)
    BY <1>1 DEF PromiseInv, OwnInv, PurgeIsExclusive, RecordsFit, Ending, Holding
  <2>4. ~AmbiguousDelete /\ calls[w].pc = "rollback" /\ kind = "orphan" => Found(a, o) = a.sha
    BY <1>1 DEF PromiseInv, BytesInv, HeldOrphansAreWhole, Reversible, Whole, Found
  <2>5. Found(b, o) = Found(a, o)
    BY <2>2 DEF Found
  <2> HIDE DEF m, kind, a, o, b
  <2>6. Allowed(Picture(a, o), Any(links[m]), Picture(b, o), Any(links[m]))
    <3>1. \/ Picture(a, o).phase = "hidden" /\ kind = "orphan"
          \/ Picture(a, o) = [phase |-> "none", content |-> NoContent] /\ kind = "stale"
      BY <1>1, <2>3 DEF Picture, Finished, Blank, PurgeKinds
    <3>2. CASE status = Ended(kind)
      <4>1. Picture(b, o) = [phase |-> "gone", content |-> NoContent]
        BY <2>2, <3>2 DEF Picture, Ended
      <4> QED
        BY <3>1, <4>1 DEF Allowed
    <3>3. CASE calls[w].pc = "rollback" /\ status = Resting(kind) /\ kind = "orphan"
      <4>1. /\ Picture(b, o) = [phase |-> "shown", content |-> Found(a, o)]
            /\ Picture(a, o) = [phase |-> "hidden", content |-> Found(a, o)]
        BY <2>2, <2>3, <2>4, <2>5, <3>3 DEF Picture, Finished, Resting
      <4> QED
        BY <4>1 DEF Allowed
    <3>4. CASE status = Resting(kind) /\ kind = "stale"
      <4>1. Picture(b, o) = [phase |-> "none", content |-> NoContent]
        BY <2>2, <3>4 DEF Picture, Resting
      <4>2. Picture(a, o) = Picture(b, o)
        BY <3>1, <3>4, <4>1
      <4> QED
        BY <4>2 DEF Allowed
    <3> QED
      BY <1>1, <2>1, <3>2, <3>3, <3>4 DEF PurgeKinds
  <2>7. m \in MediaIDs /\ links' = links /\ objects' = objects
    BY <1>1
  <2> QED
    BY <2>2, <2>6, <2>7, OnePicture DEF a, b, o
<1> QED
  BY <1>2, <1>3

LEMMA PurgePromise ==
  ASSUME RunsOnce, PromiseInv, NEW w \in Workers, PurgeStep(w)
  PROVE  Keeping
<1>1. ASSUME NEW m \in MediaIDs, PurgeOrphan(w, m) \/ PurgeStaleUpload(w, m)
      PROVE  Keeping
  BY <1>1, ClaimPromise DEF PurgeOrphan, PurgeStaleUpload, ClaimAborted, RunsOnce, PurgeKinds
<1>2. ~ClaimLeaked(w)
  BY DEF ClaimLeaked, PromiseInv, OwnInv, NoReruns
<1> QED
  BY <1>1, <1>2, DeletePromise, EndPurgePromise DEF PurgeStep

-----------------------------------------------------------------------------
(* Links *)

LEMMA LinkSights ==
  ASSUME PromiseInv, LinkStep, NEW m \in MediaIDs
  PROVE  SamePicture(m)
<1>1. SameBytes(assets[m], assets'[m])
  BY LinkSameBytes DEF PromiseInv, OwnInv
<1>2. SameSight(assets[m], assets'[m])
  BY <1>1 DEF SameBytes, SameSight
<1>3. objects' = objects
  BY DEF LinkStep, Link, Unlink, Restore, PurgeExpiredLink
<1> QED
  BY <1>2, <1>3, SameSightSamePicture DEF SamePicture

(* Only m's holders change, or nobody's. *)
LEMMA HoldersStep ==
  ASSUME PromiseInv, LinkStep, NEW m \in MediaIDs, NEW s \in Slots,
         \A x \in MediaIDs \ {m} : Any(links'[x]) = Any(links[x]),
         \/ assets[m].status \in Served /\ Any(links'[m]) = Any(links[m]) \cup {s}
         \/ Any(links'[m]) = Any(links[m]) \ {s}
         \/ Any(links'[m]) = Any(links[m])
  PROVE  Keeping
<1> DEFINE p == Picture(assets[m], objects[m])
<1>1. \A x \in MediaIDs : SamePicture(x)
  BY LinkSights
<1>2. assets[m].status \in Served => p.phase = "shown"
  BY DEF Picture, Served
<1> HIDE DEF p
<1>3. ASSUME NEW h, NEW g,
             \/ p.phase = "shown" /\ g = h \cup {s}
             \/ g = h \ {s}
             \/ g = h
      PROVE  Allowed(p, h, p, g)
  <2>1. CASE p.phase = "shown" /\ g = h \cup {s}
    BY <2>1 DEF Allowed
  <2>2. CASE g = h \ {s}
    BY <2>2 DEF Allowed
  <2>3. CASE g = h
    BY <2>3 DEF Allowed
  <2> QED
    BY <1>3, <2>1, <2>2, <2>3
<1>4. Allowed(p, Any(links[m]), p, Any(links'[m]))
  BY <1>2, <1>3
<1>5. Picture(assets'[m], objects'[m]) = p
  BY <1>1 DEF SamePicture, p
<1>6. Picture(assets[m], objects[m]) = p
  BY DEF p
<1> QED
  BY <1>1, <1>4, <1>5, <1>6, AllowedIsPromised DEF SameHolders

LEMMA AnyUpdated ==
  ASSUME NEW f \in [Slots -> MediaLink], NEW s \in Slots, NEW l, l.status # "none"
  PROVE  /\ Any([f EXCEPT ![s] = l]) = Any(f) \cup {s}
         /\ f[s].status # "none" => Any([f EXCEPT ![s] = l]) = Any(f)
BY DEF Any

LEMMA LinkPromise ==
  ASSUME PromiseInv, LinkStep
  PROVE  Keeping
<1>1. TypeOK
  BY DEF PromiseInv, OwnInv, PinInv
<1>2. ActiveLink.status # "none" /\ DeletedLink.status # "none"
  BY DEF ActiveLink, DeletedLink
<1>3. ASSUME NEW m \in MediaIDs, NEW s \in Slots, Link(m, s)
      PROVE  Keeping
  <2>1. assets[m].status \in Served
    BY <1>3 DEF Link, Linkable, Served
  <2>2. Any(links'[m]) = Any(links[m]) \cup {s}
    <3>1. links'[m] = [links[m] EXCEPT ![s] = ActiveLink] /\ links[m] \in [Slots -> MediaLink]
      BY <1>1, <1>3 DEF Link, TypeOK
    <3> QED
      BY <1>2, <3>1, AnyUpdated
  <2>3. ASSUME NEW x \in MediaIDs \ {m}
        PROVE  Any(links'[x]) = Any(links[x])
    <3>1. \/ links'[x] = links[x]
          \/ links[x][s].status # "none" /\ links'[x] = [links[x] EXCEPT ![s] = DeletedLink]
      BY <1>3, <2>3 DEF Link
    <3>2. links[x] \in [Slots -> MediaLink]
      BY <1>1 DEF TypeOK
    <3>3. links[x][s].status # "none" =>
            Any([links[x] EXCEPT ![s] = DeletedLink]) = Any(links[x])
      BY <1>2, <3>2, AnyUpdated
    <3> QED
      BY <3>1, <3>3, Zenon
  <2> QED
    BY <2>1, <2>2, <2>3, HoldersStep
<1>4. ASSUME NEW m \in MediaIDs, NEW s \in Slots, links[m][s].status # "none",
             \/ links' = links
             \/ \E l : l.status # "none" /\ links' = [links EXCEPT ![m] = [links[m] EXCEPT ![s] = l]]
      PROVE  Keeping
  <2>1. \A x \in MediaIDs : Any(links'[x]) = Any(links[x])
    <3>1. \A x \in MediaIDs :
            \/ links'[x] = links[x]
            \/ x = m /\ \E l : l.status # "none" /\ links'[x] = [links[x] EXCEPT ![s] = l]
      BY <1>1, <1>4 DEF TypeOK
    <3>2. \A x \in MediaIDs : links[x] \in [Slots -> MediaLink]
      BY <1>1 DEF TypeOK
    <3>3. \A l : l.status # "none" => Any([links[m] EXCEPT ![s] = l]) = Any(links[m])
      BY <1>4, <3>2, AnyUpdated
    <3> QED
      BY <3>1, <3>3, Zenon
  <2> QED
    BY <1>4, <2>1, HoldersStep
<1>5. ASSUME NEW s \in Slots, Unlink(s)
      PROVE  Keeping
  <2>1. refs[s] \in MediaIDs /\ links[refs[s]][s].status # "none"
    BY <1>1, <1>5 DEF Unlink, TypeOK
  <2> QED
    BY <1>2, <1>4, <1>5, <2>1 DEF Unlink
<1>6. ASSUME NEW m \in MediaIDs, NEW s \in Slots, Restore(m, s)
      PROVE  Keeping
  BY <1>2, <1>4, <1>6 DEF Restore
<1>7. ASSUME NEW m \in MediaIDs, NEW s \in Slots, PurgeExpiredLink(m, s)
      PROVE  Keeping
  <2>1. /\ links'[m] = [links[m] EXCEPT ![s] = NoLink]
        /\ \A x \in MediaIDs \ {m} : links'[x] = links[x]
    BY <1>1, <1>7 DEF PurgeExpiredLink, TypeOK
  <2>2. Any(links'[m]) = Any(links[m]) \ {s}
    BY <1>1, <2>1 DEF TypeOK, Any, NoLink
  <2> QED
    BY <2>1, <2>2, HoldersStep
<1> QED
  BY <1>3, <1>5, <1>6, <1>7 DEF LinkStep

-----------------------------------------------------------------------------
(* The theorem *)

LEMMA PromiseInvariant == ASSUME RunsOnce PROVE Spec => []PromiseInv
<1>1. CASE AmbiguousDelete
  <2>1. OwnInv => PromiseInv
    BY <1>1 DEF PromiseInv
  <2> QED
    BY <2>1, OwnInvariant, PTL
<1>2. CASE ~AmbiguousDelete
  <2>1. BytesInv => PromiseInv
    BY DEF PromiseInv, BytesInv
  <2>2. Honest
    BY <1>2 DEF RunsOnce, Honest
  <2>3. Spec => []BytesInv
    BY <2>2, BytesInvariant
  <2> QED
    BY <2>1, <2>3, PTL
<1> QED
  BY <1>1, <1>2

LEMMA StepPromise ==
  ASSUME RunsOnce, PromiseInv, [Next]_vars
  PROVE  Keeping
<1>1. ASSUME NEW w \in Workers, Crash(w)
      PROVE  Keeping
  BY <1>1, UnseenCalls DEF Crash
<1>2. CASE UNCHANGED vars
  BY <1>2, UnseenCalls DEF vars
<1> QED
  BY <1>1, <1>2, ClientPromise, LinkPromise, UploadPromise, PurgePromise, TickPromise
     DEF Next

LEMMA InitAllowed == Init => Promise!PromiseInit
<1> SUFFICES ASSUME Init PROVE Promise!PromiseInit
  OBVIOUS
<1>1. \A m \in MediaIDs : Picture(assets[m], objects[m]) = [phase |-> "none", content |-> NoContent]
  BY DEF Init, Absent, Picture
<1>2. \A m \in MediaIDs : Recorded(m) = {}
  BY DEF Init, NoLink, Recorded
<1> QED
  BY <1>1, <1>2 DEF Promise!PromiseInit, Promise!NoPicture

(* The service implements MediaPromise: what a reader finds of an image    *)
(* appears once, stays the same as long as a link, active or recoverable,  *)
(* holds it, and is gone for good when it is gone, through every upload,   *)
(* link and purge (service.go:206, 253, 515, 533, 639).  A delete that     *)
(* works and reports an error (service.go:532) can take the bytes of an    *)
(* image nothing holds, never exchange them.                               *)
THEOREM PromiseIsKept == ASSUME RunsOnce PROVE Spec => KeepsPromise
<1>1. PromiseInv /\ [Next]_vars => [Promise!PromiseNext]_Promise!promiseVars
  BY StepPromise DEF Keeping
<1> QED
  BY <1>1, InitAllowed, PromiseInvariant, PTL DEF Spec, KeepsPromise, Promise!PromiseSpec

=============================================================================
