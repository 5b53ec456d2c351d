------------------------ MODULE MediaDelivery_proofs ------------------------
(* What the edge delivers: public bytes are those of a public asset, and   *)
(* all bytes are those that were recorded.                                 *)
EXTENDS MediaEdge_proofs

-----------------------------------------------------------------------------
(* Access: what a finalizer will write back has the access of the record   *)

(* The state of one finalizer: its copy and the record agree on the access.*)
GoodCopy(call, a) ==
  /\ a.status # "absent"
  /\ call.asset.status # "absent"
  /\ call.asset.access = a.access

CopiesAgree ==
  \A w \in Workers : calls[w].pc \in Finalizing => GoodCopy(calls[w], assets[calls[w].media])

(* A finalizer has just read the record, or works on with what it read.    *)
LEMMA FinalizerStep ==
  ASSUME TypeOK, [Next]_vars, NEW w \in Workers, calls'[w].pc \in Finalizing
  PROVE  /\ calls'[w].media \in MediaIDs
         /\ \/ /\ calls[w].pc \in Finalizing
               /\ calls'[w].media = calls[w].media
               /\ calls'[w].asset.access = calls[w].asset.access
               /\ calls[w].asset.status # "absent" => calls'[w].asset.status # "absent"
            \/ /\ assets[calls'[w].media].status = "uploading"
               /\ calls'[w].asset = assets[calls'[w].media]
<1>1. /\ calls[w] \in Call /\ calls[w].asset \in Asset
      /\ calls[w].pc # "idle" => calls[w].media \in MediaIDs
  BY DEF TypeOK, Call
<1>2. CASE calls'[w] = calls[w]
  BY <1>1, <1>2 DEF Finalizing
<1>3. ASSUME NEW m \in MediaIDs, NEW sha \in Contents, FinalizeUpload(w, m, sha)
      PROVE  /\ calls'[w].media = m /\ calls'[w].asset = assets[m]
             /\ assets[m].status = "uploading"
  BY <1>3 DEF FinalizeUpload, Idle, TypeOK
<1>4. CASE ReadAttrs(w) \/ HashObject(w) \/ DecodeObject(w) \/ CommitFinalize(w)
  <2>1. Idle.pc \notin Finalizing
    BY DEF Idle, Finalizing
  <2>2. ~CommitFinalize(w)
    BY <2>1 DEF CommitFinalize, Return, TypeOK
  <2>3. CASE ReadAttrs(w)
    <3> DEFINE o == objects[calls[w].media]
               next == [calls[w] EXCEPT !.pc = "hash", !.generation = o.generation,
                                        !.shape = ShapeOf[o.content]]
    <3>1. /\ calls[w].pc = "attrs"
          /\ calls' \in {[calls EXCEPT ![w] = next], [calls EXCEPT ![w] = Idle]}
      BY <2>3 DEF ReadAttrs, Return
    <3>2. next.media = calls[w].media /\ next.asset = calls[w].asset
      BY <1>1 DEF Call
    <3> HIDE DEF next
    <3>3. calls'[w] = next
      BY <2>1, <3>1 DEF TypeOK
    <3> QED
      BY <1>1, <3>1, <3>2, <3>3 DEF Finalizing
  <2>4. CASE HashObject(w)
    <3> DEFINE next == [calls[w] EXCEPT !.pc = "decode",
                                        !.hashed = objects[calls[w].media].content]
    <3>1. /\ calls[w].pc = "hash"
          /\ calls' \in {[calls EXCEPT ![w] = next], [calls EXCEPT ![w] = Idle]}
      BY <2>4 DEF HashObject, Return
    <3>2. next.media = calls[w].media /\ next.asset = calls[w].asset
      BY <1>1 DEF Call
    <3> HIDE DEF next
    <3>3. calls'[w] = next
      BY <2>1, <3>1 DEF TypeOK
    <3> QED
      BY <1>1, <3>1, <3>2, <3>3 DEF Finalizing
  <2>5. CASE DecodeObject(w)
    <3>1. /\ Finalized(calls[w]).access = calls[w].asset.access
          /\ Finalized(calls[w]).status = "ready"
      BY <1>1 DEF Finalized, Asset
    <3>2. /\ calls[w].pc = "decode"
          /\ calls'[w] = [calls[w] EXCEPT !.pc = "commit", !.asset = Finalized(calls[w])]
      BY <2>1, <2>5 DEF DecodeObject, Return, TypeOK
    <3>3. calls'[w].media = calls[w].media /\ calls'[w].asset = Finalized(calls[w])
      BY <1>1, <3>2 DEF Call
    <3> QED
      BY <1>1, <3>1, <3>2, <3>3 DEF Finalizing
  <2> QED
    BY <1>4, <2>2, <2>3, <2>4, <2>5
<1>5. CASE Tick
  <2>1. calls'[w] = [calls[w] EXCEPT !.asset = AgedAsset(calls[w].asset)]
    BY <1>5 DEF Tick
  <2>2. /\ AgedAsset(calls[w].asset).access = calls[w].asset.access
        /\ AgedAsset(calls[w].asset).status = calls[w].asset.status
    BY <1>1 DEF AgedAsset, Asset
  <2>3. /\ calls'[w].pc = calls[w].pc /\ calls'[w].media = calls[w].media
        /\ calls'[w].asset = AgedAsset(calls[w].asset)
    BY <1>1, <2>1 DEF Call
  <2> QED
    BY <1>1, <2>2, <2>3 DEF Finalizing
<1>6. CASE PurgeStep(w) \/ Crash(w)
  BY <1>6, PurgersFinalizeNothing
<1>7. ASSUME NEW v \in Workers \ {w}, UploadStep(v) \/ PurgeStep(v) \/ Crash(v)
      PROVE  calls'[w] = calls[w]
  BY <1>7, WorkersMindThemselves
<1>8. CASE ClientStep \/ LinkStep \/ UNCHANGED vars
  BY <1>2, <1>8
     DEF ClientStep, BeginUpload, PutObject, LinkStep, Link, Unlink, Restore,
         PurgeExpiredLink, vars
<1> QED
  BY <1>2, <1>3, <1>4, <1>5, <1>6, <1>7, <1>8 DEF Next, UploadStep

LEMMA CopiesStep ==
  ASSUME TypeOK, CopiesAgree, [Next]_vars
  PROVE  /\ CopiesAgree'
         /\ \A m \in MediaIDs : assets[m].status # "absent" =>
              assets'[m].status # "absent" /\ assets'[m].access = assets[m].access
<1>1. ASSUME NEW m \in MediaIDs, assets[m].status # "absent"
      PROVE  assets'[m].status # "absent" /\ assets'[m].access = assets[m].access
  <2>1. ASSUME Committed(m)
        PROVE  assets'[m].status # "absent" /\ assets'[m].access = assets[m].access
    BY <2>1 DEF Committed, CopiesAgree, GoodCopy, Finalizing
  <2> QED
    BY <1>1, <2>1, AssetStep DEF Granted, Updated, SameRecord
<1>2. ASSUME NEW w \in Workers, calls'[w].pc \in Finalizing
      PROVE  GoodCopy(calls'[w], assets'[calls'[w].media])
  BY <1>1, <1>2, FinalizerStep DEF CopiesAgree, GoodCopy
<1> QED
  BY <1>1, <1>2 DEF CopiesAgree

(* Once a record exists, its access is what it was, for ever.              *)
AccessStays ==
  [][\A m \in MediaIDs : assets[m].status # "absent" =>
       assets'[m].status # "absent" /\ assets'[m].access = assets[m].access]_vars

(* A BeginUpload that asks for another access changes nothing              *)
(* (service.go:190), nor does the finalizer's late write of a whole record *)
(* (service.go:253): the first answer is the one that readers get.         *)
THEOREM FirstAccessStays == Spec => AccessStays
<1>1. Init => CopiesAgree
  BY DEF Init, Idle, Finalizing, CopiesAgree
<1>2. TypeOK /\ CopiesAgree /\ [Next]_vars => CopiesAgree'
  BY CopiesStep
<1>3. TypeOK /\ CopiesAgree /\ [Next]_vars =>
        \A m \in MediaIDs : assets[m].status # "absent" =>
          assets'[m].status # "absent" /\ assets'[m].access = assets[m].access
  BY CopiesStep
<1> QED
  BY <1>1, <1>2, <1>3, TypeCorrect, PTL DEF Spec, AccessStays

(* Only a redirect that is not the origin's makes media stray, and it ends *)
(* the request unless its media has strayed.                               *)
LEMMA StrayedStep ==
  ASSUME [EdgeNext]_allVars
  PROVE  /\ strayed \subseteq strayed'
         /\ ServiceStep \/ EdgeTick \/ UNCHANGED allVars => strayed' = strayed
         /\ \A r \in Requests :
              StrayRedirect(r) => requests[r].media \in strayed' \/ Answer(r)
BY DEF EdgeNext, EdgeStep, AuthorizeMediaAccess, AccessToken, Evict, Fetch, MatchCache, Origin,
       StrayRedirect, Usable, ReadOriginal, StoreInCache, FetchFails, EdgeTick, ServiceStep,
       edgeVars, allVars

Public(a) == a.status # "absent" /\ a.access = "public"

(* A request without a token is past the origin for public assets only.    *)
PublicInv ==
  /\ CopiesAgree
  /\ \A m \in MediaIDs \ strayed : cache[m]["public"].left > 0 => Public(assets[m])
  /\ \A r \in Requests :
       requests[r].pc \in {"read", "store"} /\ requests[r].access = "public" =>
         requests[r].media \in strayed \/ Public(assets[requests[r].media])

LEMMA PublicStays ==
  ASSUME TypeOK, CopiesAgree, [Next]_vars, NEW m \in MediaIDs, Public(assets[m])
  PROVE  Public(assets'[m])
BY CopiesStep DEF Public

(* Requests and the cache do not get more than they had. *)
LEMMA PublicFades ==
  ASSUME EdgeTypeOK, PublicInv, ServiceStep \/ EdgeTick \/ UNCHANGED allVars
  PROVE  PublicInv'
<1>1. TypeOK /\ [EdgeNext]_allVars
  BY DEF EdgeTypeOK, EdgeNext
<1>2. [Next]_vars
  BY <1>1, EdgeNextIsNext
<1>3. CopiesAgree'
  BY <1>1, <1>2, CopiesStep DEF PublicInv
<1>0. strayed' = strayed
  BY <1>1, StrayedStep
<1>4. ASSUME NEW m \in MediaIDs \ strayed, cache'[m]["public"].left > 0
      PROVE  Public(assets'[m])
  <2>1. cache[m]["public"].left > 0
    <3>1. cache'[m]["public"] \in {cache[m]["public"], AgedEntry(cache[m]["public"])}
      BY AccessAssumption DEF ServiceStep, EdgeTick, allVars, edgeVars
    <3>2. cache[m]["public"] \in Entry
      BY AccessAssumption DEF EdgeTypeOK
    <3> QED
      BY <1>4, <3>1, <3>2 DEF AgedEntry, NoEntry, Entry
  <2> QED
    BY <1>1, <1>2, <2>1, PublicStays DEF PublicInv
<1>5. ASSUME NEW r \in Requests,
             requests'[r].pc \in {"read", "store"}, requests'[r].access = "public"
      PROVE  requests'[r].media \in strayed \/ Public(assets'[requests'[r].media])
  <2> DEFINE q == requests[r]
  <2>1. q \in Request /\ requests'[r] \in {q, AgedRequest(q)}
    BY DEF EdgeTypeOK, ServiceStep, EdgeTick, allVars, edgeVars
  <2>2. requests'[r] = q \/ requests'[r] = [q EXCEPT !.life = @ - 1]
    BY <1>5, <2>1, AgedTypes
  <2>3. /\ requests'[r].pc = q.pc /\ requests'[r].access = q.access
        /\ requests'[r].media = q.media
    BY <2>1, <2>2 DEF Request
  <2>4. q.media \in MediaIDs /\ (q.media \in strayed \/ Public(assets[q.media]))
    BY <1>5, <2>3 DEF PublicInv, EdgeTypeOK
  <2>5. q.media \in strayed \/ Public(assets'[q.media])
    BY <1>1, <1>2, <2>4, PublicStays DEF PublicInv
  <2> QED
    BY <2>3, <2>5
<1> QED
  BY <1>0, <1>3, <1>4, <1>5 DEF PublicInv

LEMMA PublicReaders ==
  ASSUME EdgeTypeOK, PublicInv, EdgeStep
  PROVE  PublicInv'
<1>0. /\ assets' = assets /\ calls' = calls /\ requests \in [Requests -> Request]
      /\ cache \in [MediaIDs -> [AccessModes -> Entry]] /\ strayed \subseteq strayed'
  BY EdgeStepStutters, StrayedStep DEF vars, EdgeTypeOK, EdgeNext
<1>1. CopiesAgree'
  BY <1>0 DEF PublicInv, CopiesAgree
<1>2. CASE \/ \E m \in MediaIDs, s \in Slots : AuthorizeMediaAccess(m, s)
           \/ \E m \in MediaIDs : AccessToken(m)
           \/ \E m \in MediaIDs, a \in AccessModes : Evict(m, a)
  <2>1. /\ requests' = requests
        /\ \/ cache' = cache
           \/ \E m \in MediaIDs, a \in AccessModes : cache' = [cache EXCEPT ![m][a] = NoEntry]
    BY <1>2 DEF AuthorizeMediaAccess, AccessToken, Evict
  <2>2. \A m \in MediaIDs : cache'[m]["public"] \in {cache[m]["public"], NoEntry}
    BY <1>0, <2>1, AccessAssumption
  <2>3. NoEntry.left = 0
    BY DEF NoEntry
  <2> QED
    BY <1>0, <1>1, <2>1, <2>2, <2>3 DEF PublicInv
<1>3. ASSUME NEW r \in Requests, NEW m \in MediaIDs, NEW a \in AccessModes, Fetch(r, m, a)
      PROVE  PublicInv'
  <2>1. requests'[r].pc = "match" /\ \A x \in Requests \ {r} : requests'[x] = requests[x]
    BY <1>0, <1>3 DEF Fetch, Done
  <2>2. cache' = cache
    BY <1>3 DEF Fetch
  <2> QED
    BY <1>0, <1>1, <2>1, <2>2 DEF PublicInv
<1>4. ASSUME NEW r \in Requests,
             RequestRuns(r)
      PROVE  PublicInv'
  <2> DEFINE q == requests[r]
  <2>1. q \in Request /\ q.media \in MediaIDs
    BY <1>0, <1>4, RequestStep
  <2>2. ASSUME requests'[r].pc \in {"read", "store"}, requests'[r].access = "public"
        PROVE  /\ q.media \in strayed' \/ Public(assets[q.media])
               /\ requests'[r].media = q.media
    <3>1. requests'[r] # Done
      BY <2>2 DEF Done
    <3>2. requests'[r].media = q.media /\ q.access = "public"
      BY <1>4, <2>2, <3>1, RequestStep
    <3>3. CASE Origin(r)
      <4>1. Servable(assets[q.media], q.access)
        BY <1>0, <3>1, <3>3 DEF Origin, Answer
      <4>2. assets[q.media].access \in AccessModes
        BY <2>1 DEF EdgeTypeOK, TypeOK, Asset
      <4> QED
        BY <3>2, <4>1, <4>2, AccessAssumption DEF Servable, Public
    <3>4. CASE ReadOriginal(r)
      BY <1>0, <3>2, <3>4 DEF ReadOriginal, PublicInv
    <3>6. CASE StrayRedirect(r)
      BY <1>0, <1>4, <3>1, <3>2, <3>6, StrayedStep DEF Answer, EdgeNext, EdgeStep
    <3>5. CASE MatchCache(r) \/ StoreInCache(r) \/ FetchFails(r)
      <4>1. requests'[r] = Done \/ requests'[r] = [q EXCEPT !.pc = "origin"]
        BY <1>0, <3>5 DEF MatchCache, StoreInCache, FetchFails, Answer
      <4> QED
        BY <2>1, <2>2, <3>1, <4>1 DEF Request
    <3> QED
      BY <1>4, <3>2, <3>3, <3>4, <3>5, <3>6 DEF RequestRuns
  <2>3. ASSUME NEW m \in MediaIDs \ strayed', cache'[m]["public"].left > 0
        PROVE  Public(assets[m])
    <3>1. CASE StoreInCache(r) /\ m = q.media /\ q.access = "public"
      BY <1>0, <3>1 DEF StoreInCache, PublicInv
    <3>2. CASE ~(StoreInCache(r) /\ m = q.media /\ q.access = "public")
      <4>1. cache'[m]["public"] = cache[m]["public"]
        <5>1. CASE StoreInCache(r)
          BY <1>0, <3>2, <5>1, AccessAssumption DEF StoreInCache
        <5>2. CASE ~StoreInCache(r)
          BY <1>4, <5>2
             DEF RequestRuns, MatchCache, Origin, StrayRedirect, ReadOriginal, FetchFails
        <5> QED
          BY <5>1, <5>2
      <4> QED
        BY <1>0, <2>3, <4>1 DEF PublicInv
    <3> QED
      BY <3>1, <3>2
  <2> QED
    BY <1>0, <1>1, <1>4, <2>2, <2>3, RequestStep DEF PublicInv
<1> QED
  BY <1>2, <1>3, <1>4 DEF EdgeStep, RequestRuns

LEMMA InitPublic == EdgeInit => PublicInv
<1> SUFFICES ASSUME EdgeInit PROVE PublicInv
  OBVIOUS
<1>1. \A w \in Workers : calls[w].pc \notin Finalizing
  BY DEF EdgeInit, Init, Idle, Finalizing
<1>2. \A m \in MediaIDs : cache[m]["public"].left = 0
  BY AccessAssumption DEF EdgeInit, NoEntry
<1>3. \A r \in Requests : requests[r].pc = "idle"
  BY DEF EdgeInit, Done
<1> QED
  BY <1>1, <1>2, <1>3 DEF PublicInv, CopiesAgree

LEMMA PublicInvariant == EdgeSpec => []PublicInv
<1>1. EdgeTypeOK /\ PublicInv /\ [EdgeNext]_allVars => PublicInv'
  BY PublicFades, PublicReaders DEF EdgeNext
<1> QED
  BY <1>1, InitPublic, EdgeTypeCorrect, PTL DEF EdgeSpec

(* What a request without a verified token reads or finds cached belongs   *)
(* to a public asset: the access the origin saw (routes.go:169) is the     *)
(* access of the record, then and ever after, although a finalizer writes  *)
(* back a whole record it read long before (service.go:253), until a       *)
(* redirect to the bucket's host is followed that is not the origin's.     *)
THEOREM PublicDeliveryStaysExplicit == EdgeSpec => []PublicDeliveryIsExplicit
<1>1. PublicInv => PublicDeliveryIsExplicit
  BY DEF PublicInv, PublicDeliveryIsExplicit, Public
<1> QED
  BY <1>1, PublicInvariant, PTL

-----------------------------------------------------------------------------
(* What has been recorded for an asset stays; what was read, or is cached, *)
(* is that.                                                                *)

Genuine(a, content) == a.generation >= 1 /\ content = a.sha

Faithful(q, a) ==
  /\ q.pc = "read" => q.generation >= 1 /\ q.generation = a.generation
  /\ q.pc = "store" => Genuine(a, q.content)

DeliveryInv ==
  /\ \A m \in MediaIDs \ strayed, a \in AccessModes :
       cache[m][a].left > 0 => Genuine(assets[m], cache[m][a].content)
  /\ \A r \in Requests :
       requests[r].media \in strayed \/ Faithful(requests[r], assets[requests[r].media])

LEMMA GenuineStays ==
  ASSUME OwnInv, [Next]_vars, NEW m \in MediaIDs, assets[m].generation >= 1
  PROVE  /\ assets'[m].generation = assets[m].generation
         /\ assets'[m].sha = assets[m].sha
         /\ \A content : Genuine(assets[m], content) => Genuine(assets'[m], content)
<1>1. assets[m].status \notin Unfinished
  BY DEF OwnInv, RecordsFit, Blank
<1> QED
  BY <1>1, MetadataStep DEF OwnInv, Unfinished, Genuine

(* The service and time leave requests and the cache what they had.        *)
LEMMA DeliveryFades ==
  ASSUME EdgeTypeOK, OwnInv, DeliveryInv,
         ServiceStep \/ EdgeTick \/ UNCHANGED allVars
  PROVE  DeliveryInv'
<1>1. [EdgeNext]_allVars
  BY DEF EdgeNext
<1>2. [Next]_vars
  BY <1>1, EdgeNextIsNext
<1>4. ASSUME NEW m \in MediaIDs, assets[m].generation >= 1
      PROVE  /\ assets'[m].generation = assets[m].generation
             /\ assets'[m].sha = assets[m].sha
  BY <1>2, <1>4, GenuineStays
<1>0. strayed' = strayed
  BY <1>1, StrayedStep
<1>5. ASSUME NEW m \in MediaIDs \ strayed, NEW a \in AccessModes, cache'[m][a].left > 0
      PROVE  Genuine(assets'[m], cache'[m][a].content)
  <2>1. cache'[m][a] \in {cache[m][a], AgedEntry(cache[m][a])} /\ cache[m][a] \in Entry
    BY DEF ServiceStep, EdgeTick, allVars, edgeVars, EdgeTypeOK
  <2>2. cache[m][a].left > 0 /\ cache'[m][a].content = cache[m][a].content
    BY <1>5, <2>1 DEF AgedEntry, NoEntry, Entry
  <2> QED
    BY <1>4, <2>2 DEF DeliveryInv, Genuine
<1>6. ASSUME NEW r \in Requests
      PROVE  requests'[r].media \in strayed \/ Faithful(requests'[r], assets'[requests'[r].media])
  <2> DEFINE q == requests[r]
  <2>1. q \in Request /\ requests'[r] \in {q, AgedRequest(q)}
    BY DEF EdgeTypeOK, ServiceStep, EdgeTick, allVars, edgeVars
  <2>2. CASE requests'[r].pc = "idle"
    BY <2>2 DEF Faithful
  <2>3. CASE requests'[r].pc # "idle"
    <3>1. requests'[r] = q \/ requests'[r] = [q EXCEPT !.life = @ - 1]
      BY <2>1, <2>3, AgedTypes
    <3>2. /\ requests'[r].pc = q.pc /\ requests'[r].media = q.media
          /\ requests'[r].generation = q.generation /\ requests'[r].content = q.content
      BY <2>1, <3>1 DEF Request
    <3>3. q.media \in MediaIDs /\ (q.media \in strayed \/ Faithful(q, assets[q.media]))
      BY <2>3, <3>2 DEF EdgeTypeOK, DeliveryInv
    <3> QED
      BY <1>4, <3>2, <3>3 DEF Faithful, Genuine
  <2> QED
    BY <2>2, <2>3
<1> QED
  BY <1>0, <1>5, <1>6 DEF DeliveryInv

LEMMA DeliveryReaders ==
  ASSUME EdgeTypeOK, OwnInv, DeliveryInv, EdgeStep
  PROVE  DeliveryInv'
<1>0. /\ assets' = assets /\ objects' = objects /\ calls' = calls
      /\ requests \in [Requests -> Request]
      /\ cache \in [MediaIDs -> [AccessModes -> Entry]] /\ strayed \subseteq strayed'
  BY EdgeStepStutters, StrayedStep DEF vars, EdgeTypeOK, EdgeNext
<1>2. CASE \/ \E m \in MediaIDs, s \in Slots : AuthorizeMediaAccess(m, s)
           \/ \E m \in MediaIDs : AccessToken(m)
           \/ \E m \in MediaIDs, a \in AccessModes : Evict(m, a)
  <2>1. /\ requests' = requests
        /\ \/ cache' = cache
           \/ \E m \in MediaIDs, a \in AccessModes : cache' = [cache EXCEPT ![m][a] = NoEntry]
    BY <1>2 DEF AuthorizeMediaAccess, AccessToken, Evict
  <2>2. \A m \in MediaIDs, a \in AccessModes : cache'[m][a] \in {cache[m][a], NoEntry}
    BY <1>0, <2>1
  <2>3. NoEntry.left = 0
    BY DEF NoEntry
  <2> QED
    BY <1>0, <2>1, <2>2, <2>3 DEF DeliveryInv, Faithful
<1>3. ASSUME NEW r \in Requests, NEW m \in MediaIDs, NEW a \in AccessModes, Fetch(r, m, a)
      PROVE  DeliveryInv'
  <2>1. requests'[r].pc = "match" /\ \A x \in Requests \ {r} : requests'[x] = requests[x]
    BY <1>0, <1>3 DEF Fetch, Done
  <2>2. cache' = cache
    BY <1>3 DEF Fetch
  <2> QED
    BY <1>0, <2>1, <2>2 DEF DeliveryInv, Faithful
<1>4. ASSUME NEW r \in Requests,
             RequestRuns(r)
      PROVE  DeliveryInv'
  <2> DEFINE q == requests[r]
             n == requests'[r]
  <2>1. q \in Request /\ q.media \in MediaIDs
    BY <1>0, <1>4, RequestStep
  <2>2. n = Done => Faithful(n, assets'[n.media])
    BY DEF Done, Faithful
  <2>3. ASSUME Origin(r), n # Done
        PROVE  Faithful(n, assets'[n.media])
    <3> DEFINE g == assets[q.media].generation
    <3>1. Servable(assets[q.media], q.access)
          /\ n = [q EXCEPT !.pc = "read", !.generation = g]
      BY <1>0, <2>3 DEF Origin, Answer
    <3>2. n.pc = "read" /\ n.generation = g /\ n.media = q.media
      BY <2>1, <3>1 DEF Request
    <3>3. g >= 1
      BY <2>1, <3>1 DEF Servable, OwnInv, RecordsFit, Served, Finished
    <3> QED
      BY <1>0, <3>2, <3>3 DEF Faithful
  <2>4. ASSUME ReadOriginal(r), n # Done
        PROVE  n.media \in strayed' \/ Faithful(n, assets'[n.media])
    <3> DEFINE c == objects[q.media].content
    <3>1. /\ q.pc = "read" /\ objects[q.media].live
          /\ Pinned(q.generation, objects[q.media])
          /\ n = [q EXCEPT !.pc = "store", !.content = c]
      BY <1>0, <2>4 DEF ReadOriginal, Answer
    <3>2. n.pc = "store" /\ n.content = c /\ n.media = q.media
      BY <2>1, <3>1 DEF Request
    <3> SUFFICES ASSUME q.media \notin strayed PROVE Faithful(n, assets'[n.media])
      BY <1>0, <3>2
    <3>3. q.generation >= 1 /\ q.generation = assets[q.media].generation
      BY <3>1 DEF DeliveryInv, Faithful
    <3>4. objects[q.media].generation = assets[q.media].generation
      BY <2>1, <3>1, <3>3 DEF Pinned, Request
    <3>5. Genuine(assets[q.media], c)
      BY <2>1, <3>3, <3>4 DEF OwnInv, PinInv, Authentic, Belongs, Genuine
    <3> QED
      BY <1>0, <3>2, <3>5 DEF Faithful
  <2>5. ASSUME MatchCache(r) \/ StoreInCache(r) \/ FetchFails(r), n # Done
        PROVE  Faithful(n, assets'[n.media])
    <3>1. n = [q EXCEPT !.pc = "origin"]
      BY <1>0, <2>5 DEF MatchCache, StoreInCache, FetchFails, Answer
    <3> QED
      BY <2>1, <3>1 DEF Request, Faithful
  <2>9. StrayRedirect(r) /\ n # Done => n.media \in strayed'
    BY <1>0, <1>4, StrayedStep, RequestStep DEF Answer, EdgeNext, EdgeStep
  <2>6. ASSUME NEW m \in MediaIDs \ strayed', NEW a \in AccessModes, cache'[m][a].left > 0
        PROVE  Genuine(assets[m], cache'[m][a].content)
    <3>1. CASE StoreInCache(r) /\ m = q.media /\ a = q.access
      <4>1. cache'[m][a].content = q.content /\ q.pc = "store"
        BY <1>0, <3>1 DEF StoreInCache
      <4> QED
        BY <1>0, <3>1, <4>1 DEF DeliveryInv, Faithful
    <3>2. CASE ~(StoreInCache(r) /\ m = q.media /\ a = q.access)
      <4>1. cache'[m][a] = cache[m][a]
        <5>1. CASE StoreInCache(r)
          BY <1>0, <3>2, <5>1 DEF StoreInCache
        <5>2. CASE ~StoreInCache(r)
          BY <1>4, <5>2
             DEF RequestRuns, MatchCache, Origin, StrayRedirect, ReadOriginal, FetchFails
        <5> QED
          BY <5>1, <5>2
      <4> QED
        BY <1>0, <2>6, <4>1 DEF DeliveryInv
    <3> QED
      BY <3>1, <3>2
  <2>7. n.media \in strayed' \/ Faithful(n, assets'[n.media])
    BY <1>4, <2>2, <2>3, <2>4, <2>5, <2>9 DEF RequestRuns
  <2>8. \A x \in Requests \ {r} :
          \/ requests'[x].media \in strayed'
          \/ Faithful(requests'[x], assets'[requests'[x].media])
    BY <1>0, <1>4, RequestStep DEF DeliveryInv, Faithful
  <2> QED
    BY <1>0, <2>6, <2>7, <2>8 DEF DeliveryInv
<1> QED
  BY <1>2, <1>3, <1>4 DEF EdgeStep, RequestRuns

LEMMA DeliveryInvariant == ASSUME RunsOnce PROVE EdgeSpec => []DeliveryInv
<1>1. EdgeSpec => []OwnInv
  BY EdgeImplementsService, OwnInvariant
<1>2. EdgeInit => DeliveryInv
  <2> SUFFICES ASSUME EdgeInit PROVE DeliveryInv
    OBVIOUS
  <2>1. \A m \in MediaIDs, a \in AccessModes : cache[m][a].left = 0
    BY DEF EdgeInit, NoEntry
  <2>2. \A r \in Requests : requests[r].pc = "idle"
    BY DEF EdgeInit, Done
  <2> QED
    BY <2>1, <2>2 DEF DeliveryInv, Faithful
<1>3. EdgeTypeOK /\ OwnInv /\ DeliveryInv /\ [EdgeNext]_allVars => DeliveryInv'
  BY DeliveryFades, DeliveryReaders DEF EdgeNext
<1> QED
  BY <1>1, <1>2, <1>3, EdgeTypeCorrect, PTL DEF EdgeSpec

(* A cached variant is made from the bytes that were inspected and         *)
(* recorded: the origin pins what it saw (routes.go:179), and nothing that *)
(* is stored later has the same generation; of all other redirects only    *)
(* one to the bucket's host is followed (index.ts:82).                     *)
THEOREM CacheIsOfRecord == ASSUME RunsOnce PROVE EdgeSpec => []CachedIsRecorded
<1>1. DeliveryInv => CachedIsRecorded
  BY DEF DeliveryInv, CachedIsRecorded, Genuine
<1> QED
  BY <1>1, DeliveryInvariant, PTL

=============================================================================
