-------------------------- MODULE MediaEdge_proofs --------------------------
(* Readers change nothing of the service, and what the service guarantees  *)
(* reaches what the edge reads, caches and answers.                        *)
EXTENDS MediaEdge, MediaBytes_proofs

-----------------------------------------------------------------------------
(* Every step is a step of the service, or none *)

LEMMA EdgeStepStutters ==
  ASSUME EdgeStep
  PROVE  UNCHANGED vars
BY DEF EdgeStep, AuthorizeMediaAccess, AccessToken, Evict, Fetch, MatchCache, Origin,
       StrayRedirect, ReadOriginal, StoreInCache, FetchFails

LEMMA EdgeNextIsNext ==
  ASSUME [EdgeNext]_allVars
  PROVE  [Next]_vars
<1>1. CASE ServiceStep
  BY <1>1 DEF ServiceStep, Next
<1>2. CASE EdgeTick
  BY <1>2 DEF EdgeTick, Next
<1> QED
  BY <1>1, <1>2, EdgeStepStutters DEF EdgeNext, allVars

(* The edge, the origin and the tokens (index.ts:42, routes.go:134, 148)   *)
(* run beside the service: all that is proved of MediaService holds.       *)
THEOREM EdgeImplementsService == EdgeSpec => Spec
<1>1. EdgeInit => Init
  BY DEF EdgeInit
<1>2. [EdgeNext]_allVars => [Next]_vars
  BY EdgeNextIsNext
<1> QED
  BY <1>1, <1>2, PTL DEF EdgeSpec, Spec

-----------------------------------------------------------------------------
(* Types *)

\* A step of a request that is under way.
RequestRuns(r) ==
  \/ MatchCache(r) \/ Origin(r) \/ StrayRedirect(r) \/ ReadOriginal(r)
  \/ StoreInCache(r) \/ FetchFails(r)

LEMMA DoneType == Done \in Request
BY AccessAssumption DEF Done, Request, Readable

LEMMA AgedTypes ==
  /\ \A e \in Entry : AgedEntry(e) \in Entry
  /\ \A q \in Request : /\ AgedRequest(q) \in Request
                        /\ AgedRequest(q).pc # "idle" =>
                             /\ AgedRequest(q) = [q EXCEPT !.life = @ - 1]
                             /\ q.pc # "idle" /\ q.life > 1
BY DoneType DEF AgedEntry, AgedRequest, Entry, NoEntry, Request, Done, Readable

(* One request goes on; a request under way keeps its media. *)
LEMMA RequestTypes ==
  ASSUME EdgeTypeOK, NEW r \in Requests, NEW q \in Request,
         q.pc # "idle" => q.media \in MediaIDs,
         requests' = [requests EXCEPT ![r] = q]
  PROVE  /\ requests' \in [Requests -> Request]
         /\ \A x \in Requests : requests'[x].pc # "idle" => requests'[x].media \in MediaIDs
BY DEF EdgeTypeOK

LEMMA EdgeStepTypes ==
  ASSUME EdgeTypeOK, EdgeStep
  PROVE  EdgeTypeOK'
<1>1. TypeOK'
  BY EdgeStepStutters, StepTypeOK DEF EdgeTypeOK
<1>2. ASSUME NEW m \in MediaIDs, NEW s \in Slots, AuthorizeMediaAccess(m, s)
      PROVE  EdgeTypeOK'
  BY <1>1, <1>2, LifetimeAssumption DEF AuthorizeMediaAccess, EdgeTypeOK
<1>3. ASSUME NEW m \in MediaIDs, AccessToken(m)
      PROVE  EdgeTypeOK'
  BY <1>1, <1>3, LifetimeAssumption DEF AccessToken, EdgeTypeOK
<1>4. ASSUME NEW m \in MediaIDs, NEW a \in AccessModes, Evict(m, a)
      PROVE  EdgeTypeOK'
  <2>1. NoEntry \in Entry
    BY DEF NoEntry, Entry, Readable
  <2> QED
    BY <1>1, <1>4, <2>1 DEF Evict, EdgeTypeOK
<1>5. ASSUME NEW r \in Requests,
             \/ \E m \in MediaIDs, a \in AccessModes : Fetch(r, m, a)
             \/ RequestRuns(r)
      PROVE  EdgeTypeOK'
  <2> DEFINE q == requests[r]
  <2>0. q \in Request /\ (q.pc # "idle" => q.media \in MediaIDs)
    BY DEF EdgeTypeOK
  <2>1. authorized' = authorized /\ tokens' = tokens
    BY <1>5 DEF RequestRuns, Fetch, MatchCache, Origin, StrayRedirect, ReadOriginal,
                StoreInCache, FetchFails
  <2>2. PICK n \in Request : /\ n.pc # "idle" => n.media \in MediaIDs
                             /\ requests' = [requests EXCEPT ![r] = n]
    <3>1. CASE Answer(r)
      BY <3>1, DoneType DEF Answer, Done
    <3>2. ASSUME NEW m \in MediaIDs, NEW a \in AccessModes, Fetch(r, m, a)
          PROVE  \E n \in Request : /\ n.pc # "idle" => n.media \in MediaIDs
                                    /\ requests' = [requests EXCEPT ![r] = n]
      <4>1. [Done EXCEPT !.pc = "match", !.media = m, !.access = a, !.life = RequestTTL] \in Request
        BY DoneType, LifetimeAssumption DEF Request
      <4>2. [Done EXCEPT !.pc = "match", !.media = m, !.access = a, !.life = RequestTTL].media = m
        BY DEF Done
      <4> QED
        BY <3>2, <4>1, <4>2 DEF Fetch
    <3>3. CASE MatchCache(r)
      <4>1. [q EXCEPT !.pc = "origin"] \in Request /\ [q EXCEPT !.pc = "origin"].media = q.media
        BY <2>0 DEF Request
      <4> QED
        BY <2>0, <3>1, <3>3, <4>1 DEF MatchCache
    <3>4. CASE Origin(r)
      <4> DEFINE n == [q EXCEPT !.pc = "read", !.generation = assets[q.media].generation]
      <4>1. assets[q.media].generation \in Nat
        BY <2>0, <3>4 DEF Origin, EdgeTypeOK, TypeOK, Asset
      <4>2. n \in Request /\ n.media = q.media
        BY <2>0, <4>1 DEF Request
      <4>3. requests' = [requests EXCEPT ![r] = n] \/ Answer(r)
        BY <3>4 DEF Origin
      <4> QED
        BY <2>0, <3>1, <3>4, <4>2, <4>3 DEF Origin
    <3>5. CASE ReadOriginal(r)
      <4> DEFINE n == [q EXCEPT !.pc = "store", !.content = objects[q.media].content]
      <4>1. objects[q.media].content \in Readable
        BY <2>0, <3>5 DEF ReadOriginal, EdgeTypeOK, TypeOK, Object, Readable
      <4>2. n \in Request /\ n.media = q.media
        BY <2>0, <4>1 DEF Request
      <4>3. requests' = [requests EXCEPT ![r] = n] \/ Answer(r)
        BY <3>5 DEF ReadOriginal
      <4> QED
        BY <2>0, <3>1, <3>5, <4>2, <4>3 DEF ReadOriginal
    <3>6. CASE StrayRedirect(r)
      <4> DEFINE n(c) == [q EXCEPT !.pc = "store", !.content = c]
      <4>1. \A c \in StrayContents : n(c) \in Request /\ n(c).media = q.media
        BY <2>0 DEF Request, Readable
      <4>2. \/ \E c \in StrayContents : requests' = [requests EXCEPT ![r] = n(c)]
            \/ Answer(r)
        BY <3>6 DEF StrayRedirect
      <4>3. q.media \in MediaIDs
        BY <2>0, <3>6 DEF StrayRedirect
      <4> HIDE DEF n
      <4> QED
        BY <3>1, <4>1, <4>2, <4>3
    <3> QED
      BY <1>5, <3>1, <3>2, <3>3, <3>4, <3>5, <3>6 DEF RequestRuns, StoreInCache, FetchFails
  <2>3. cache' \in [MediaIDs -> [AccessModes -> Entry]]
    <3>1. CASE StoreInCache(r)
      <4>1. [left |-> Kept(q.access), content |-> q.content] \in Entry
        BY <2>0, LifetimeAssumption DEF Request, Entry, Kept
      <4> QED
        BY <3>1, <4>1 DEF StoreInCache, EdgeTypeOK
    <3>2. CASE ~StoreInCache(r)
      BY <1>5, <3>2 DEF RequestRuns, Fetch, MatchCache, Origin, StrayRedirect, ReadOriginal,
                        FetchFails, EdgeTypeOK
    <3> QED
      BY <3>1, <3>2
  <2>4. strayed' \subseteq MediaIDs
    BY <1>5, <2>0 DEF RequestRuns, Fetch, MatchCache, Origin, StrayRedirect, ReadOriginal,
                      StoreInCache, FetchFails, EdgeTypeOK
  <2> QED
    BY <1>1, <2>1, <2>2, <2>3, <2>4, RequestTypes DEF EdgeTypeOK
<1> QED
  BY <1>2, <1>3, <1>4, <1>5 DEF EdgeStep, RequestRuns

LEMMA EdgeTickTypes ==
  ASSUME EdgeTypeOK, EdgeTick
  PROVE  EdgeTypeOK'
<1>1. TypeOK'
  BY TickTypeOK DEF EdgeTick, EdgeTypeOK
<1>2. authorized' \in [MediaIDs -> 0..RequestTTL] /\ tokens' \in [MediaIDs -> 0..TokenTTL]
  BY LifetimeAssumption DEF EdgeTick, EdgeTypeOK, Less
<1>3. cache' \in [MediaIDs -> [AccessModes -> Entry]]
  BY AgedTypes DEF EdgeTick, EdgeTypeOK
<1>4. requests' \in [Requests -> Request]
  BY AgedTypes DEF EdgeTick, EdgeTypeOK
<1>5. ASSUME NEW r \in Requests, requests'[r].pc # "idle"
      PROVE  requests'[r].media \in MediaIDs
  <2>1. requests[r] \in Request /\ requests'[r] = AgedRequest(requests[r])
    BY DEF EdgeTypeOK, EdgeTick
  <2>2. requests[r].pc # "idle" /\ requests'[r] = [requests[r] EXCEPT !.life = @ - 1]
    BY <1>5, <2>1, AgedTypes
  <2> QED
    BY <2>1, <2>2 DEF EdgeTypeOK, Request
<1>6. strayed' \subseteq MediaIDs
  BY DEF EdgeTick, EdgeTypeOK
<1> QED
  BY <1>1, <1>2, <1>3, <1>4, <1>5, <1>6 DEF EdgeTypeOK

LEMMA EdgeNextTypes ==
  ASSUME EdgeTypeOK, [EdgeNext]_allVars
  PROVE  EdgeTypeOK'
<1>1. TypeOK'
  BY EdgeNextIsNext, StepTypeOK DEF EdgeTypeOK
<1>2. CASE UNCHANGED edgeVars
  BY <1>1, <1>2 DEF edgeVars, EdgeTypeOK
<1> QED
  BY <1>2, EdgeStepTypes, EdgeTickTypes DEF EdgeNext, ServiceStep, allVars

LEMMA InitEdgeTypes == EdgeInit => EdgeTypeOK
<1> SUFFICES ASSUME EdgeInit PROVE EdgeTypeOK
  OBVIOUS
<1>1. NoEntry \in Entry
  BY DEF NoEntry, Entry, Readable
<1>2. 0 \in 0..RequestTTL /\ 0 \in 0..TokenTTL
  BY LifetimeAssumption
<1>3. \A r \in Requests : requests[r].pc = "idle"
  BY DEF EdgeInit, Done
<1> QED
  BY <1>1, <1>2, <1>3, InitTypeOK, DoneType DEF EdgeInit, EdgeTypeOK

(* The right to sign and tokens never live longer than they were granted   *)
(* for (routes.go:144); requests and cache entries are well typed.         *)
THEOREM EdgeTypeCorrect == EdgeSpec => []EdgeTypeOK
BY InitEdgeTypes, EdgeNextTypes, PTL DEF EdgeSpec

-----------------------------------------------------------------------------
(* The windows: whoever may still sign, use a token, run or be cached has  *)
(* more time before him on the link or the asset than on his own clock.    *)

Lasts(l, n) == l.status = "active" \/ (l.status = "deleted" /\ l.left >= n)

Lasting(ls, n) == \E s \in Slots : Lasts(ls[s], n)

Lingering(a, n) ==
  a.status = "ready" \/ (a.status = "orphaned" /\ a.purgeLeft >= n)

Verified(r) == requests[r].pc # "idle" /\ requests[r].access = "private"

WindowInv ==
  /\ \A m \in MediaIDs :
       /\ authorized[m] > 0 => Lasting(links[m], authorized[m] + TokenTTL)
       /\ tokens[m] > 0 => Lasting(links[m], tokens[m])
       /\ cache[m]["private"].left <= PrivateTTL
       /\ cache[m]["private"].left > 0 => Lingering(assets[m], cache[m]["private"].left)
  /\ \A r \in Requests : Verified(r) =>
       /\ requests[r].life \in 1..RequestTTL
       /\ Lingering(assets[requests[r].media], requests[r].life + PrivateTTL)

LEMMA LastingIsReady ==
  ASSUME GraphInv, NEW m \in MediaIDs, NEW n, Lasting(links[m], n)
  PROVE  assets[m].status = "ready"
<1>1. PICK s \in Slots : links[m][s].status # "none"
  BY DEF Lasting, Lasts
<1>2. Recorded(m) # {}
  BY <1>1 DEF Recorded
<1> QED
  BY <1>2, GraphInvImplies DEF LinkedIsReady

(* A link record is made active, soft-deleted afresh, or dropped when its  *)
(* window is over.                                                         *)
LEMMA LinkRecordStep ==
  ASSUME TypeOK, ServiceStep, NEW m \in MediaIDs, NEW s \in Slots
  PROVE  \/ links'[m][s] \in {links[m][s], ActiveLink, DeletedLink}
         \/ (links[m][s].status = "deleted" /\ links[m][s].left = 0)
<1>1. CASE ClientStep \/ \E w \in Workers : UploadStep(w) \/ PurgeStep(w) \/ Crash(w)
  <2>1. links' = links
    BY <1>1 DEF ClientStep, BeginUpload, PutObject, Crash, UploadStep, FinalizeUpload,
                ReadAttrs, HashObject, DecodeObject, CommitFinalize, PurgeStep, PurgeOrphan,
                PurgeStaleUpload, Claim, ClaimAborted, ClaimLeaked, DeleteObject, DeleteFails,
                Rollback, Complete
  <2> QED
    BY <2>1
<1>2. ASSUME NEW x \in MediaIDs, NEW t \in Slots, Link(x, t)
      PROVE  links'[m][s] \in {links[m][s], ActiveLink, DeletedLink}
  BY <1>2 DEF Link, TypeOK
<1>3. ASSUME NEW t \in Slots, Unlink(t)
      PROVE  links'[m][s] \in {links[m][s], ActiveLink, DeletedLink}
  <2>1. refs[t] \in MediaIDs
    BY <1>3 DEF Unlink, TypeOK
  <2>2. links' \in {links, [links EXCEPT ![refs[t]][t] = DeletedLink]}
    BY <1>3 DEF Unlink
  <2>3. links \in [MediaIDs -> [Slots -> MediaLink]]
    BY DEF TypeOK
  <2> QED
    BY <2>1, <2>2, <2>3
<1>4. ASSUME NEW x \in MediaIDs, NEW t \in Slots, Restore(x, t)
      PROVE  links'[m][s] \in {links[m][s], ActiveLink, DeletedLink}
  BY <1>4 DEF Restore, TypeOK
<1>5. ASSUME NEW x \in MediaIDs, NEW t \in Slots, PurgeExpiredLink(x, t)
      PROVE  \/ links'[m][s] = links[m][s]
             \/ (links[m][s].status = "deleted" /\ links[m][s].left = 0)
  BY <1>5 DEF PurgeExpiredLink, TypeOK
<1> QED
  BY <1>1, <1>2, <1>3, <1>4, <1>5 DEF ServiceStep, LinkStep

LEMMA LastingStays ==
  ASSUME TypeOK, ServiceStep, NEW m \in MediaIDs, NEW n \in 1..Recovery, Lasting(links[m], n)
  PROVE  Lasting(links'[m], n)
<1>1. PICK s \in Slots : Lasts(links[m][s], n)
  BY DEF Lasting
<1>2. links'[m][s] \in {links[m][s], ActiveLink, DeletedLink}
  BY <1>1, LinkRecordStep DEF Lasts
<1>3. Lasts(links'[m][s], n)
  BY <1>1, <1>2, GraceAssumption DEF ActiveLink, DeletedLink, Lasts
<1> QED
  BY <1>3 DEF Lasting

LEMMA LastingTick ==
  ASSUME TypeOK, Tick, NEW m \in MediaIDs, NEW n \in Nat \ {0}, Lasting(links[m], n)
  PROVE  Lasting(links'[m], n - 1)
<1>1. PICK s \in Slots : Lasts(links[m][s], n)
  BY DEF Lasting
<1>2. links[m][s] \in MediaLink /\ links'[m][s] = AgedLink(links[m][s])
  BY DEF Tick, TypeOK
<1>3. Lasts(links'[m][s], n - 1)
  BY <1>1, <1>2 DEF AgedLink, MediaLink, Less, Lasts
<1> QED
  BY <1>3 DEF Lasting

LEMMA LingeringStays ==
  ASSUME GraphInv, ServiceStep, NEW m \in MediaIDs, NEW n \in 1..OrphanGrace, Lingering(assets[m], n)
  PROVE  Lingering(assets'[m], n)
<1>0. TypeOK /\ assets[m] \in Asset /\ assets[m].purgeLeft \in Nat
  BY DEF GraphInv, TypeOK, Asset
<1>1. CASE ClientStep
  <2>1. assets'[m] = assets[m]
    BY <1>0, <1>1 DEF ClientStep, BeginUpload, PutObject, Lingering, TypeOK
  <2> QED
    BY <2>1 DEF Lingering
<1>2. ASSUME NEW w \in Workers, UploadStep(w) \/ Crash(w)
      PROVE  Lingering(assets'[m], n)
  <2>1. assets'[m] = assets[m]
    BY <1>0, <1>2 DEF UploadStep, FinalizeUpload, ReadAttrs, HashObject, DecodeObject,
                      CommitFinalize, Crash, Lingering, TypeOK
  <2> QED
    BY <2>1 DEF Lingering
<1>3. ASSUME NEW w \in Workers, PurgeStep(w)
      PROVE  Lingering(assets'[m], n)
  <2>1. ASSUME NEW x \in MediaIDs, NEW kind \in PurgeKinds, Claim(w, x, kind)
        PROVE  assets'[m] = assets[m]
    <3>1. ~Claimable(kind, assets[m])
      BY <1>0 DEF Lingering, Claimable, OrphanClaimable, StaleClaimable
    <3> QED
      BY <1>0, <2>1, <3>1 DEF Claim, TypeOK
  <2>2. CASE Rollback(w) \/ Complete(w)
    <3>1. assets[m].status # "purging"
      BY DEF Lingering
    <3>2. assets'[m] = assets[m]
      BY <1>0, <2>2, <3>1 DEF Rollback, Complete, Completable, TypeOK
    <3> QED
      BY <3>2 DEF Lingering
  <2>3. CASE ClaimLeaked(w) \/ DeleteObject(w) \/ DeleteFails(w)
             \/ \E x \in MediaIDs, kind \in PurgeKinds : ClaimAborted(w, x, kind)
    BY <2>3 DEF ClaimLeaked, DeleteObject, DeleteFails, ClaimAborted, Lingering
  <2>4. "orphan" \in PurgeKinds /\ "stale" \in PurgeKinds
    BY DEF PurgeKinds
  <2>5. ASSUME NEW x \in MediaIDs, NEW kind \in PurgeKinds, Claim(w, x, kind)
        PROVE  Lingering(assets'[m], n)
    BY <2>1, <2>5 DEF Lingering
  <2> QED
    BY <1>3, <2>2, <2>3, <2>4, <2>5 DEF PurgeStep, PurgeOrphan, PurgeStaleUpload
<1>4. ASSUME NEW x \in MediaIDs, NEW s \in Slots, Link(x, s)
      PROVE  Lingering(assets'[m], n)
  <2>1. assets'[m] \in {assets[m], Attached(assets[m], links[m][s]), Detached(assets[m])}
    BY <1>4 DEF Link
  <2>2. Attached(assets[m], links[m][s]).status = "ready"
    BY <1>0 DEF Attached, Asset
  <2>3. /\ Detached(assets[m]).status = assets[m].status
        /\ Detached(assets[m]).purgeLeft = assets[m].purgeLeft
    BY <1>0 DEF Detached, Asset
  <2> QED
    BY <2>1, <2>2, <2>3 DEF Lingering
<1>5. ASSUME NEW s \in Slots, Unlink(s) \/ \E x \in MediaIDs : Restore(x, s)
      PROVE  Lingering(assets'[m], n)
  <2>1. assets'[m] \in {assets[m], Detached(assets[m]), Reattached(assets[m])}
    BY <1>0, <1>5 DEF Unlink, Restore, TypeOK
  <2>2. \A a \in {Detached(assets[m]), Reattached(assets[m])} :
          a.status = assets[m].status /\ a.purgeLeft = assets[m].purgeLeft
    BY <1>0 DEF Detached, Reattached, Asset
  <2> QED
    BY <2>1, <2>2 DEF Lingering
<1>6. ASSUME NEW x \in MediaIDs, NEW s \in Slots, PurgeExpiredLink(x, s)
      PROVE  Lingering(assets'[m], n)
  <2>1. CASE x # m
    <3>1. assets'[m] = assets[m]
      BY <1>0, <1>6, <2>1 DEF PurgeExpiredLink, TypeOK
    <3> QED
      BY <3>1 DEF Lingering
  <2>2. CASE x = m
    <3>1. assets[m].status = "ready"
      BY <1>6, <2>2, GraphInvImplies DEF PurgeExpiredLink, LinkedIsReady, Recorded
    <3>2. assets'[m] = Dropped(assets[m])
      BY <1>0, <1>6, <2>2 DEF PurgeExpiredLink, TypeOK
    <3>3. \/ Dropped(assets[m]).status = "ready"
          \/ /\ Dropped(assets[m]).status = "orphaned"
             /\ Dropped(assets[m]).purgeLeft = OrphanGrace
      BY <1>0, <3>1 DEF Dropped, Asset
    <3> QED
      BY <3>2, <3>3, GraceAssumption DEF Lingering
  <2> QED
    BY <2>1, <2>2
<1> QED
  BY <1>1, <1>2, <1>3, <1>4, <1>5, <1>6 DEF ServiceStep, LinkStep

LEMMA LingeringTick ==
  ASSUME TypeOK, Tick, NEW m \in MediaIDs, NEW n \in Nat \ {0}, Lingering(assets[m], n)
  PROVE  Lingering(assets'[m], n - 1)
<1>1. assets[m] \in Asset /\ assets'[m] = AgedAsset(assets[m])
  BY DEF Tick, TypeOK
<1> QED
  BY <1>1 DEF Lingering, AgedAsset, Asset, Less

(* The service changes neither what a reader holds nor, for its time, the  *)
(* link or the asset it depends on.                                        *)
LEMMA ServiceWindows ==
  ASSUME GraphInv, EdgeTypeOK, WindowInv, ServiceStep
  PROVE  WindowInv'
<1>0. TypeOK /\ UNCHANGED edgeVars
  BY DEF GraphInv, ServiceStep
<1>1. ASSUME NEW m \in MediaIDs
      PROVE  /\ authorized'[m] > 0 => Lasting(links'[m], authorized'[m] + TokenTTL)
             /\ tokens'[m] > 0 => Lasting(links'[m], tokens'[m])
             /\ cache'[m]["private"].left <= PrivateTTL
             /\ cache'[m]["private"].left > 0 => Lingering(assets'[m], cache'[m]["private"].left)
  <2>1. authorized[m] \in 0..RequestTTL /\ tokens[m] \in 0..TokenTTL
    BY DEF EdgeTypeOK
  <2>2. cache[m]["private"].left \in Nat /\ cache[m]["private"].left <= PrivateTTL
    BY AccessAssumption DEF EdgeTypeOK, Entry, WindowInv
  <2>3. authorized' = authorized /\ tokens' = tokens /\ cache' = cache
    BY <1>0 DEF edgeVars
  <2>4. ASSUME authorized[m] > 0
        PROVE  Lasting(links'[m], authorized[m] + TokenTTL)
    <3>1. authorized[m] + TokenTTL \in 1..Recovery
      BY <2>1, <2>4, WindowAssumption, LifetimeAssumption, GraceAssumption
    <3> QED
      BY <1>0, <2>4, <3>1, LastingStays DEF WindowInv
  <2>5. ASSUME tokens[m] > 0
        PROVE  Lasting(links'[m], tokens[m])
    <3>1. tokens[m] \in 1..Recovery
      BY <2>1, <2>5, WindowAssumption, LifetimeAssumption, GraceAssumption
    <3> QED
      BY <1>0, <2>5, <3>1, LastingStays DEF WindowInv
  <2>6. ASSUME cache[m]["private"].left > 0
        PROVE  Lingering(assets'[m], cache[m]["private"].left)
    <3>1. cache[m]["private"].left \in 1..OrphanGrace
      BY <2>2, <2>6, WindowAssumption, LifetimeAssumption, GraceAssumption
    <3> QED
      BY <2>6, <3>1, LingeringStays DEF WindowInv
  <2> QED
    BY <2>2, <2>3, <2>4, <2>5, <2>6
<1>2. ASSUME NEW r \in Requests, Verified(r)'
      PROVE  /\ requests'[r].life \in 1..RequestTTL
             /\ Lingering(assets'[requests'[r].media], requests'[r].life + PrivateTTL)
  <2>1. requests' = requests
    BY <1>0 DEF edgeVars
  <2>2. /\ requests[r].media \in MediaIDs /\ requests[r].life \in 1..RequestTTL
        /\ Lingering(assets[requests[r].media], requests[r].life + PrivateTTL)
    BY <1>2, <2>1 DEF Verified, WindowInv, EdgeTypeOK
  <2>3. requests[r].life + PrivateTTL \in 1..OrphanGrace
    BY <2>2, WindowAssumption, LifetimeAssumption, GraceAssumption
  <2> QED
    BY <2>1, <2>2, <2>3, LingeringStays
<1> QED
  BY <1>1, <1>2 DEF WindowInv, Verified

LEMMA TickWindows ==
  ASSUME GraphInv, EdgeTypeOK, WindowInv, EdgeTick
  PROVE  WindowInv'
<1>0. TypeOK /\ Tick
  BY DEF GraphInv, EdgeTick
<1>1. ASSUME NEW m \in MediaIDs
      PROVE  /\ authorized'[m] > 0 => Lasting(links'[m], authorized'[m] + TokenTTL)
             /\ tokens'[m] > 0 => Lasting(links'[m], tokens'[m])
             /\ cache'[m]["private"].left <= PrivateTTL
             /\ cache'[m]["private"].left > 0 => Lingering(assets'[m], cache'[m]["private"].left)
  <2>1. authorized[m] \in Nat /\ tokens[m] \in Nat /\ TokenTTL \in Nat
    BY LifetimeAssumption DEF EdgeTypeOK
  <2>2. cache[m]["private"] \in Entry /\ cache[m]["private"].left <= PrivateTTL
    BY AccessAssumption DEF EdgeTypeOK, WindowInv
  <2>3. /\ authorized'[m] = Less(authorized[m]) /\ tokens'[m] = Less(tokens[m])
        /\ cache'[m]["private"] = AgedEntry(cache[m]["private"])
    BY AccessAssumption DEF EdgeTick
  <2>4. ASSUME authorized'[m] > 0
        PROVE  Lasting(links'[m], authorized'[m] + TokenTTL)
    <3>1. authorized[m] > 0 /\ authorized'[m] = authorized[m] - 1
      BY <2>1, <2>3, <2>4 DEF Less
    <3>2. Lasting(links'[m], (authorized[m] + TokenTTL) - 1)
      <4>1. authorized[m] + TokenTTL \in Nat \ {0}
        BY <2>1, <3>1
      <4> QED
        BY <1>0, <3>1, <4>1, LastingTick DEF WindowInv
    <3>3. (authorized[m] + TokenTTL) - 1 = authorized'[m] + TokenTTL
      BY <2>1, <3>1
    <3> QED
      BY <3>2, <3>3
  <2>5. ASSUME tokens'[m] > 0
        PROVE  Lasting(links'[m], tokens'[m])
    <3>1. tokens[m] \in Nat \ {0} /\ tokens'[m] = tokens[m] - 1
      BY <2>1, <2>3, <2>5 DEF Less
    <3>2. Lasting(links'[m], tokens[m] - 1)
      BY <1>0, <2>1, <3>1, LastingTick DEF WindowInv
    <3> QED
      BY <3>1, <3>2
  <2>6. ASSUME cache'[m]["private"].left > 0
        PROVE  Lingering(assets'[m], cache'[m]["private"].left)
    <3> DEFINE n == cache[m]["private"].left
    <3>1. n \in Nat \ {0} /\ cache'[m]["private"].left = n - 1
      BY <2>2, <2>3, <2>6 DEF AgedEntry, NoEntry, Entry
    <3>2. Lingering(assets'[m], n - 1)
      BY <1>0, <3>1, LingeringTick DEF WindowInv
    <3> QED
      BY <3>1, <3>2
  <2>7. cache'[m]["private"].left <= PrivateTTL
    BY <2>2, <2>3, LifetimeAssumption DEF AgedEntry, NoEntry, Entry
  <2> QED
    BY <2>4, <2>5, <2>6, <2>7
<1>2. ASSUME NEW r \in Requests, Verified(r)'
      PROVE  /\ requests'[r].life \in 1..RequestTTL
             /\ Lingering(assets'[requests'[r].media], requests'[r].life + PrivateTTL)
  <2> DEFINE q == requests[r]
  <2>1. q \in Request /\ requests'[r] = AgedRequest(q)
    BY DEF EdgeTypeOK, EdgeTick
  <2>2. requests'[r] = [q EXCEPT !.life = @ - 1] /\ q.pc # "idle" /\ q.life > 1
    BY <1>2, <2>1, AgedTypes DEF Verified
  <2>3. /\ requests'[r].life = q.life - 1 /\ requests'[r].media = q.media
        /\ requests'[r].access = q.access
    BY <2>1, <2>2 DEF Request
  <2>4. q.media \in MediaIDs /\ Verified(r)
    BY <1>2, <2>2, <2>3 DEF Verified, EdgeTypeOK
  <2>5. q.life \in 1..RequestTTL /\ Lingering(assets[q.media], q.life + PrivateTTL)
    BY <2>4 DEF WindowInv
  <2>6. q.life + PrivateTTL \in Nat \ {0} /\ requests'[r].life \in 1..RequestTTL
    BY <2>2, <2>3, <2>5, LifetimeAssumption
  <2>7. Lingering(assets'[q.media], (q.life + PrivateTTL) - 1)
    BY <1>0, <2>4, <2>5, <2>6, LingeringTick
  <2>8. (q.life + PrivateTTL) - 1 = requests'[r].life + PrivateTTL
    BY <2>3, <2>5, LifetimeAssumption
  <2> QED
    BY <2>3, <2>6, <2>7, <2>8
<1> QED
  BY <1>1, <1>2 DEF WindowInv, Verified

(* A request that goes on keeps its media, its access and its time.        *)
LEMMA RequestStep ==
  ASSUME EdgeTypeOK, NEW r \in Requests,
         RequestRuns(r)
  PROVE  /\ requests[r].pc # "idle" /\ requests[r].media \in MediaIDs
         /\ \A x \in Requests \ {r} : requests'[x] = requests[x]
         /\ \/ requests'[r] = Done
            \/ /\ requests'[r].media = requests[r].media
               /\ requests'[r].access = requests[r].access
               /\ requests'[r].life = requests[r].life
<1>1. requests \in [Requests -> Request] /\ requests[r] \in Request
  BY DEF EdgeTypeOK
<1>2. CASE MatchCache(r)
  <2>1. \/ requests' = [requests EXCEPT ![r] = Done]
        \/ requests' = [requests EXCEPT ![r] = [requests[r] EXCEPT !.pc = "origin"]]
    BY <1>2 DEF MatchCache, Answer
  <2>2. requests[r].pc # "idle"
    BY <1>2 DEF MatchCache
  <2> QED
    BY <1>1, <2>1, <2>2 DEF Request, EdgeTypeOK
<1>3. CASE Origin(r)
  <2> DEFINE n == [requests[r] EXCEPT !.pc = "read",
                   !.generation = assets[requests[r].media].generation]
  <2>1. \/ requests' = [requests EXCEPT ![r] = Done]
        \/ requests' = [requests EXCEPT ![r] = n]
    BY <1>3 DEF Origin, Answer
  <2>2. requests[r].pc # "idle"
    BY <1>3 DEF Origin
  <2>3. /\ n.media = requests[r].media /\ n.access = requests[r].access
        /\ n.life = requests[r].life
    BY <1>1 DEF Request
  <2> HIDE DEF n
  <2> QED
    BY <1>1, <2>1, <2>2, <2>3 DEF EdgeTypeOK
<1>4. CASE ReadOriginal(r)
  <2> DEFINE n == [requests[r] EXCEPT !.pc = "store",
                   !.content = objects[requests[r].media].content]
  <2>1. \/ requests' = [requests EXCEPT ![r] = Done]
        \/ requests' = [requests EXCEPT ![r] = n]
    BY <1>4 DEF ReadOriginal, Answer
  <2>2. requests[r].pc # "idle"
    BY <1>4 DEF ReadOriginal
  <2>3. /\ n.media = requests[r].media /\ n.access = requests[r].access
        /\ n.life = requests[r].life
    BY <1>1 DEF Request
  <2> HIDE DEF n
  <2> QED
    BY <1>1, <2>1, <2>2, <2>3 DEF EdgeTypeOK
<1>5. CASE StoreInCache(r) \/ FetchFails(r)
  BY <1>1, <1>5 DEF StoreInCache, FetchFails, Answer, EdgeTypeOK
<1>6. CASE StrayRedirect(r)
  <2> DEFINE n(c) == [requests[r] EXCEPT !.pc = "store", !.content = c]
  <2>1. \/ requests' = [requests EXCEPT ![r] = Done]
        \/ \E c \in StrayContents : requests' = [requests EXCEPT ![r] = n(c)]
    BY <1>6 DEF StrayRedirect, Answer
  <2>2. requests[r].pc # "idle"
    BY <1>6 DEF StrayRedirect
  <2>3. \A c \in StrayContents :
          /\ n(c).media = requests[r].media /\ n(c).access = requests[r].access
          /\ n(c).life = requests[r].life
    BY <1>1 DEF Request
  <2> HIDE DEF n
  <2> QED
    BY <1>1, <2>1, <2>2, <2>3 DEF EdgeTypeOK
<1> QED
  BY <1>2, <1>3, <1>4, <1>5, <1>6 DEF RequestRuns

LEMMA ReaderWindows ==
  ASSUME GraphInv, EdgeTypeOK, WindowInv, EdgeStep
  PROVE  WindowInv'
<1>0. /\ links' = links /\ assets' = assets
      /\ cache \in [MediaIDs -> [AccessModes -> Entry]]
      /\ {RequestTTL, TokenTTL, PrivateTTL} \subseteq Nat \ {0}
  BY EdgeStepStutters, LifetimeAssumption DEF vars, EdgeTypeOK
<1>1. ASSUME NEW m \in MediaIDs, NEW s \in Slots, AuthorizeMediaAccess(m, s)
      PROVE  WindowInv'
  <2>1. Lasting(links[m], RequestTTL + TokenTTL)
    BY <1>1 DEF AuthorizeMediaAccess, Lasting, Lasts
  <2>2. authorized' = [authorized EXCEPT ![m] = RequestTTL]
        /\ tokens' = tokens /\ requests' = requests /\ cache' = cache
    BY <1>1 DEF AuthorizeMediaAccess
  <2>3. authorized \in [MediaIDs -> 0..RequestTTL]
    BY DEF EdgeTypeOK
  <2> QED
    BY <1>0, <2>1, <2>2, <2>3 DEF WindowInv, Verified
<1>2. ASSUME NEW m \in MediaIDs, AccessToken(m)
      PROVE  WindowInv'
  <2>1. authorized[m] \in Nat /\ authorized[m] > 0
    BY <1>2, <1>0 DEF AccessToken, EdgeTypeOK
  <2>2. PICK s \in Slots : Lasts(links[m][s], authorized[m] + TokenTTL)
    BY <2>1 DEF WindowInv, Lasting
  <2>3. links[m][s].left \in Nat
    BY DEF EdgeTypeOK, TypeOK, MediaLink
  <2>4. Lasting(links[m], TokenTTL)
    BY <1>0, <2>1, <2>2, <2>3 DEF Lasting, Lasts
  <2>5. tokens' = [tokens EXCEPT ![m] = TokenTTL]
        /\ authorized' = authorized /\ requests' = requests /\ cache' = cache
    BY <1>2 DEF AccessToken
  <2>6. tokens \in [MediaIDs -> 0..TokenTTL]
    BY DEF EdgeTypeOK
  <2> QED
    BY <1>0, <2>4, <2>5, <2>6 DEF WindowInv, Verified
<1>3. ASSUME NEW m \in MediaIDs, NEW a \in AccessModes, Evict(m, a)
      PROVE  WindowInv'
  <2>1. /\ authorized' = authorized /\ tokens' = tokens /\ requests' = requests
        /\ cache' = [cache EXCEPT ![m][a] = NoEntry]
    BY <1>3 DEF Evict
  <2>2. \A x \in MediaIDs :
          cache'[x]["private"] = cache[x]["private"] \/ cache'[x]["private"].left = 0
    BY <1>0, <2>1, AccessAssumption DEF NoEntry
  <2> QED
    BY <1>0, <2>1, <2>2 DEF WindowInv, Verified
<1>4. ASSUME NEW r \in Requests, NEW m \in MediaIDs, NEW a \in AccessModes, Fetch(r, m, a)
      PROVE  WindowInv'
  <2>1. authorized' = authorized /\ tokens' = tokens /\ cache' = cache
    BY <1>4 DEF Fetch
  <2>2. \A x \in Requests \ {r} : requests'[x] = requests[x]
    BY <1>4 DEF Fetch, EdgeTypeOK
  <2>3. /\ requests'[r].media = m /\ requests'[r].access = a
        /\ requests'[r].life = RequestTTL
    BY <1>4 DEF Fetch, EdgeTypeOK, Done
  <2>4. a = "private" => assets[m].status = "ready"
    BY <1>4, LastingIsReady DEF Fetch, WindowInv
  <2>5. Verified(r)' => /\ requests'[r].life \in 1..RequestTTL
                        /\ Lingering(assets'[m], requests'[r].life + PrivateTTL)
    BY <1>0, <2>3, <2>4 DEF Verified, Lingering
  <2> QED
    BY <1>0, <2>1, <2>2, <2>3, <2>5 DEF WindowInv, Verified
<1>5. ASSUME NEW r \in Requests,
             RequestRuns(r)
      PROVE  WindowInv'
  <2> DEFINE q == requests[r]
  <2>1. authorized' = authorized /\ tokens' = tokens
    BY <1>5 DEF RequestRuns, MatchCache, Origin, StrayRedirect, ReadOriginal, StoreInCache,
                FetchFails
  <2>2. ASSUME NEW x \in Requests, Verified(x)'
        PROVE  /\ requests'[x].life \in 1..RequestTTL
               /\ Lingering(assets'[requests'[x].media], requests'[x].life + PrivateTTL)
    <3>1. /\ requests'[x].media = requests[x].media /\ requests'[x].life = requests[x].life
          /\ Verified(x)
      BY <1>5, <2>2, RequestStep DEF Verified, Done
    <3> QED
      BY <1>0, <3>1 DEF WindowInv
  <2>3. ASSUME NEW m \in MediaIDs, cache'[m]["private"] # cache[m]["private"]
        PROVE  /\ cache'[m]["private"].left = PrivateTTL
               /\ Lingering(assets'[m], PrivateTTL)
    <3>1. StoreInCache(r)
      BY <1>5, <2>3 DEF RequestRuns, MatchCache, Origin, StrayRedirect, ReadOriginal, FetchFails
    <3>2. q.pc # "idle" /\ q.access = "private" /\ q.media = m
      BY <1>0, <1>5, <2>3, <3>1, RequestStep, AccessAssumption DEF StoreInCache
    <3>3. cache'[m]["private"].left = PrivateTTL
      BY <1>0, <3>1, <3>2, AccessAssumption DEF StoreInCache, Kept
    <3>4. q.life \in 1..RequestTTL /\ Lingering(assets[m], q.life + PrivateTTL)
      BY <3>2 DEF WindowInv, Verified
    <3>5. assets[m].purgeLeft \in Nat
      BY DEF EdgeTypeOK, TypeOK, Asset
    <3> QED
      BY <1>0, <3>3, <3>4, <3>5 DEF Lingering
  <2>4. ASSUME NEW m \in MediaIDs
        PROVE  /\ cache'[m]["private"].left <= PrivateTTL
               /\ cache'[m]["private"].left > 0 =>
                    Lingering(assets'[m], cache'[m]["private"].left)
    BY <1>0, <2>3 DEF WindowInv
  <2> QED
    BY <1>0, <2>1, <2>2, <2>4 DEF WindowInv, Verified
<1> QED
  BY <1>1, <1>2, <1>3, <1>4, <1>5 DEF EdgeStep, RequestRuns

LEMMA WindowStep ==
  ASSUME GraphInv, EdgeTypeOK, WindowInv, [EdgeNext]_allVars
  PROVE  WindowInv'
<1>1. CASE UNCHANGED allVars
  BY <1>1 DEF allVars, vars, edgeVars, WindowInv, Verified
<1> QED
  BY <1>1, ServiceWindows, TickWindows, ReaderWindows DEF EdgeNext

LEMMA InitWindows == EdgeInit => WindowInv
<1> SUFFICES ASSUME EdgeInit PROVE WindowInv
  OBVIOUS
<1>1. \A m \in MediaIDs : authorized[m] = 0 /\ tokens[m] = 0 /\ cache[m]["private"].left = 0
  BY AccessAssumption DEF EdgeInit, NoEntry
<1>2. \A r \in Requests : ~Verified(r)
  BY DEF EdgeInit, Done, Verified
<1> QED
  BY <1>1, <1>2, LifetimeAssumption DEF WindowInv

THEOREM WindowInvariant == EdgeSpec => []WindowInv
<1>1. EdgeSpec => []GraphInv
  BY EdgeImplementsService, GraphInvariant
<1> QED
  BY <1>1, EdgeTypeCorrect, InitWindows, WindowStep, PTL DEF EdgeSpec

(* A valid token asks for an asset that is ready: fifteen minutes are less *)
(* than the seven days a removed link is kept (routes.go:140-144).         *)
THEOREM TokensAreAlwaysServed == EdgeSpec => []TokensAreServed
<1>1. GraphInv /\ WindowInv => TokensAreServed
  BY LastingIsReady DEF WindowInv, TokensAreServed
<1>2. EdgeSpec => []GraphInv
  BY EdgeImplementsService, GraphInvariant
<1> QED
  BY <1>1, <1>2, WindowInvariant, PTL

(* Private bytes leave the cache before their asset can be purged, and no  *)
(* purge overtakes a verified request (index.ts:53, 99).                   *)
THEOREM PrivateCacheStaysLive == EdgeSpec => []PrivateCacheIsLive
<1>1. WindowInv => PrivateCacheIsLive
  BY DEF WindowInv, PrivateCacheIsLive, Lingering, Verified
<1> QED
  BY <1>1, WindowInvariant, PTL

=============================================================================
