------------------------ MODULE MediaPlatform_proofs ------------------------
(* What the Worker adds to MediaEdge keeps what is proved of it; browsers  *)
(* are given what the edge may give them, for no longer than revocation    *)
(* allows; and sweeps and readers together are each what they are alone.   *)
EXTENDS MediaPlatform, MediaDelivery_proofs, MediaSweep_proofs, MediaPromise_proofs

-----------------------------------------------------------------------------
(* Every step of the Worker is a step of MediaEdge, or none *)

LEMMA WorkerRequestIsEdgeStep ==
  ASSUME NEW r \in Requests, WorkerRequest(r)
  PROVE  EdgeStep
<1>1. HeadOrigin(r) => FetchFails(r)
  BY DEF HeadOrigin, FetchFails
<1>2. \/ \E m \in MediaIDs, a \in AccessModes : Fetch(r, m, a)
      \/ RequestRuns(r)
  BY <1>1
     DEF WorkerRequest, WorkerFetch, WorkerMatch, WorkerOrigin, WorkerStray, WorkerRead,
         WorkerStore, WorkerFails, RequestRuns
<1> QED
  BY <1>2 DEF EdgeStep, RequestRuns

LEMMA WorkerNextIsNext ==
  ASSUME [WorkerNext]_everyVar
  PROVE  [EdgeNext]_allVars
<1>1. CASE ServiceStep \/ WorkerTick \/ UNCHANGED everyVar
  BY <1>1 DEF WorkerTick, EdgeNext, everyVar
<1>2. CASE TokenStep
  BY <1>2 DEF TokenStep, EdgeStep, EdgeNext
<1> QED
  BY <1>1, <1>2, WorkerRequestIsEdgeStep DEF WorkerNext, EdgeNext

(* HEAD requests (index.ts:68) and the copies browsers keep (index.ts:52)  *)
(* add nothing to what MediaEdge lets the edge do: all that is proved of   *)
(* it, stray redirects included, holds of the Worker.                      *)
THEOREM WorkerImplementsEdge == WorkerSpec => EdgeSpec
<1>1. WorkerInit => EdgeInit
  BY DEF WorkerInit
<1> QED
  BY <1>1, WorkerNextIsNext, PTL DEF WorkerSpec, EdgeSpec

-----------------------------------------------------------------------------
(* What browsers get *)

\* An answer r gets for m with access a.
Answered(r, m, a, e) ==
  /\ requests[r].pc # "idle" /\ requests[r].media = m /\ requests[r].access = a
  /\ \/ cache[m][a].left > 0 /\ e = Received(cache[m][a].content, a)
     \/ requests[r].pc = "store" /\ e = Received(requests[r].content, a)

FreshCopy(m, a) ==
  UNCHANGED vars /\ \E r \in Requests : Answered(r, m, a, copies'[m][a])

\* WorkerTypeOK without its bounds.
WorkerTypes ==
  /\ EdgeTypeOK
  /\ methods \in [Requests -> Methods \cup {"none"}]
  /\ copies \in [MediaIDs -> [AccessModes -> Entry]]

LEMMA CopyStep ==
  ASSUME WorkerTypes, [WorkerNext]_everyVar, NEW m \in MediaIDs, NEW a \in AccessModes
  PROVE  \/ copies'[m][a] = copies[m][a]
         \/ EdgeTick /\ copies'[m][a] = AgedEntry(copies[m][a])
         \/ FreshCopy(m, a)
<1>1. copies \in [MediaIDs -> [AccessModes -> Entry]]
  BY DEF WorkerTypes
<1>2. CASE WorkerTick
  BY <1>2 DEF WorkerTick
<1>3. CASE UNCHANGED copies
  BY <1>3
<1>4. ASSUME NEW r \in Requests, NEW c, ClientResponse(r, c), UNCHANGED vars,
             requests[r].pc # "idle",
             \/ /\ cache[requests[r].media][requests[r].access].left > 0
                /\ c = cache[requests[r].media][requests[r].access].content
             \/ requests[r].pc = "store" /\ c = requests[r].content
      PROVE  copies'[m][a] = copies[m][a] \/ FreshCopy(m, a)
  <2> DEFINE x == requests[r].media  b == requests[r].access
  <2>1. UNCHANGED copies \/ copies' = [copies EXCEPT ![x][b] = Received(c, b)]
    BY <1>4 DEF ClientResponse, Control
  <2>2. x \in MediaIDs /\ b \in AccessModes
    BY <1>4 DEF WorkerTypes, EdgeTypeOK, Request
  <2>3. \/ copies'[m][a] = copies[m][a]
        \/ m = x /\ a = b /\ copies'[m][a] = Received(c, b)
    BY <1>1, <2>1, <2>2
  <2> QED
    BY <1>4, <2>3 DEF FreshCopy, Answered
<1>5. ASSUME NEW r \in Requests, WorkerRequest(r)
      PROVE  copies'[m][a] = copies[m][a] \/ FreshCopy(m, a)
  <2>1. CASE WorkerMatch(r)
    <3>1. requests[r].pc = "match" /\ UNCHANGED vars
      BY <2>1 DEF WorkerMatch, MatchCache
    <3>2. \/ UNCHANGED copies
          \/ /\ cache[requests[r].media][requests[r].access].left > 0
             /\ ClientResponse(r, cache[requests[r].media][requests[r].access].content)
      BY <2>1 DEF WorkerMatch
    <3> QED
      BY <1>4, <3>1, <3>2
  <2>2. CASE WorkerStore(r)
    <3>1. requests[r].pc = "store" /\ UNCHANGED vars /\ ClientResponse(r, requests[r].content)
      BY <2>2 DEF WorkerStore, StoreInCache
    <3> QED
      BY <1>4, <3>1
  <2>3. CASE ~WorkerMatch(r) /\ ~WorkerStore(r)
    <3>1. UNCHANGED copies
      BY <1>5, <2>3
         DEF WorkerRequest, WorkerFetch, WorkerOrigin, HeadOrigin, WorkerStray, WorkerRead,
             WorkerFails
    <3> QED
      BY <3>1
  <2> QED
    BY <2>1, <2>2, <2>3
<1> QED
  BY <1>2, <1>3, <1>5 DEF WorkerNext, workerVars, everyVar

LEMMA ReceivedType ==
  ASSUME EdgeTypeOK, NEW r \in Requests, NEW m \in MediaIDs, NEW a \in AccessModes, NEW e,
         Answered(r, m, a, e)
  PROVE  e \in Entry /\ e.left = Kept(a)
<1>1. Kept(a) \in Nat
  BY LifetimeAssumption DEF Kept
<1>2. cache[m][a].content \in Readable /\ requests[r].content \in Readable
  BY DEF EdgeTypeOK, Entry, Request
<1> QED
  BY <1>1, <1>2 DEF Answered, Received, Entry

LEMMA WorkerNextTypes ==
  ASSUME WorkerTypes, [WorkerNext]_everyVar
  PROVE  WorkerTypes'
<1>1. EdgeTypeOK'
  BY WorkerNextIsNext, EdgeNextTypes DEF WorkerTypes
<1>2. methods' \in [Requests -> Methods \cup {"none"}]
  <2>1. methods \in [Requests -> Methods \cup {"none"}]
    BY DEF WorkerTypes
  <2>2. MethodsKept => methods' \in [Requests -> Methods \cup {"none"}]
    BY <2>1 DEF MethodsKept
  <2>3. ASSUME NEW r \in Requests, NEW m \in MediaIDs, NEW a \in AccessModes,
               NEW method \in Methods, WorkerFetch(r, m, a, method)
        PROVE  methods' \in [Requests -> Methods \cup {"none"}]
    BY <2>1, <2>3 DEF WorkerFetch
  <2> QED
    BY <2>1, <2>2, <2>3 DEF WorkerNext, WorkerRequest, WorkerTick, workerVars, everyVar
<1>3. \A m \in MediaIDs, a \in AccessModes : copies'[m][a] \in Entry
  BY CopyStep, ReceivedType, AgedTypes DEF WorkerTypes, FreshCopy
<1>4. copies' = [m \in MediaIDs |-> [a \in AccessModes |-> copies'[m][a]]]
  <2>1. copies \in [MediaIDs -> [AccessModes -> Entry]]
    BY DEF WorkerTypes
  <2>2. CASE WorkerTick
    BY <2>2 DEF WorkerTick
  <2>3. CASE UNCHANGED copies
    BY <2>1, <2>3
  <2>4. ASSUME NEW r \in Requests, NEW c, ClientResponse(r, c)
        PROVE  copies' = [m \in MediaIDs |-> [a \in AccessModes |-> copies'[m][a]]]
    <3> DEFINE x == requests[r].media  b == requests[r].access  e == Received(c, b)
    <3>1. UNCHANGED copies \/ copies' = [copies EXCEPT ![x][b] = e]
      BY <2>4 DEF ClientResponse, Control
    <3> HIDE DEF x, b, e
    <3> QED
      BY <2>1, <2>3, <3>1
  <2> QED
    BY <2>2, <2>3, <2>4
       DEF WorkerNext, WorkerRequest, WorkerFetch, WorkerMatch, WorkerOrigin, HeadOrigin,
           WorkerStray, WorkerRead, WorkerStore, WorkerFails, workerVars, everyVar
<1> QED
  BY <1>1, <1>2, <1>3, <1>4 DEF WorkerTypes

LEMMA WorkerTypesInvariant == WorkerSpec => []WorkerTypes
<1>1. WorkerInit => WorkerTypes
  <2>1. NoEntry \in Entry
    BY DEF NoEntry, Entry, Readable
  <2> QED
    BY <2>1, InitEdgeTypes DEF WorkerInit, WorkerTypes
<1> QED
  BY <1>1, WorkerNextTypes, PTL DEF WorkerSpec

-----------------------------------------------------------------------------
(* Copies are of public assets, and of what was recorded *)

SharedInv ==
  /\ PublicInv
  /\ \A m \in MediaIDs \ strayed : copies[m]["public"].left > 0 => Public(assets[m])

\* Growing older adds no copy.
LEMMA AgedCopy ==
  ASSUME NEW e \in Entry, AgedEntry(e).left > 0
  PROVE  e.left > 0 /\ AgedEntry(e).left = e.left - 1 /\ AgedEntry(e).content = e.content
BY DEF AgedEntry, NoEntry, Entry

LEMMA SharedStep ==
  ASSUME WorkerTypes, SharedInv, PublicInv', [WorkerNext]_everyVar
  PROVE  SharedInv'
<1>1. TypeOK /\ [Next]_vars /\ CopiesAgree
  BY WorkerNextIsNext, EdgeNextIsNext DEF WorkerTypes, EdgeTypeOK, SharedInv, PublicInv
<1>3. strayed \subseteq strayed'
  BY WorkerNextIsNext, StrayedStep
<1>2. ASSUME NEW m \in MediaIDs \ strayed', copies'[m]["public"].left > 0
      PROVE  Public(assets'[m])
  <2>1. copies[m]["public"] \in Entry
    BY AccessAssumption DEF WorkerTypes
  <2>2. CASE copies[m]["public"].left > 0
    BY <1>1, <1>3, <2>2, PublicStays DEF SharedInv
  <2>3. CASE ~(copies[m]["public"].left > 0)
    <3>1. FreshCopy(m, "public")
      BY <1>2, <2>1, <2>3, CopyStep, AgedCopy, AccessAssumption
    <3>2. Public(assets[m]) /\ assets' = assets
      BY <1>3, <3>1 DEF FreshCopy, Answered, SharedInv, PublicInv, vars
    <3> QED
      BY <3>2
  <2> QED
    BY <2>2, <2>3
<1> QED
  BY <1>2 DEF SharedInv

(* An answer that anyone may keep is made of a public asset: the header is *)
(* made from the request (index.ts:99), although every entry is stored as  *)
(* public (index.ts:54), until a redirect to the bucket's host is followed *)
(* that is not the origin's (index.ts:82).                                 *)
THEOREM SharedStaysPublic == WorkerSpec => []SharedIsPublic
<1>1. WorkerSpec => []PublicInv
  BY WorkerImplementsEdge, PublicInvariant
<1>2. WorkerInit /\ PublicInv => SharedInv
  BY AccessAssumption DEF WorkerInit, SharedInv, NoEntry
<1>3. SharedInv => SharedIsPublic
  BY DEF SharedInv, SharedIsPublic, Public
<1> QED
  BY <1>1, <1>2, <1>3, SharedStep, WorkerTypesInvariant, PTL DEF WorkerSpec

RecordedInv ==
  /\ DeliveryInv
  /\ \A m \in MediaIDs \ strayed, a \in AccessModes :
       copies[m][a].left > 0 => Genuine(assets[m], copies[m][a].content)

LEMMA RecordedStep ==
  ASSUME WorkerTypes, OwnInv, RecordedInv, DeliveryInv', [WorkerNext]_everyVar
  PROVE  RecordedInv'
<1>1. [Next]_vars
  BY WorkerNextIsNext, EdgeNextIsNext
<1>3. strayed \subseteq strayed'
  BY WorkerNextIsNext, StrayedStep
<1>2. ASSUME NEW m \in MediaIDs \ strayed', NEW a \in AccessModes, copies'[m][a].left > 0
      PROVE  Genuine(assets'[m], copies'[m][a].content)
  <2>1. copies[m][a] \in Entry
    BY DEF WorkerTypes
  <2>2. CASE FreshCopy(m, a)
    <3>1. PICK r \in Requests : Answered(r, m, a, copies'[m][a])
      BY <2>2 DEF FreshCopy
    <3>2. Genuine(assets[m], copies'[m][a].content)
      BY <1>3, <3>1 DEF Answered, Received, RecordedInv, DeliveryInv, Faithful
    <3> QED
      BY <2>2, <3>2 DEF FreshCopy, vars
  <2>3. CASE ~FreshCopy(m, a)
    <3>1. copies[m][a].left > 0 /\ copies'[m][a].content = copies[m][a].content
      BY <1>2, <2>1, <2>3, CopyStep, AgedCopy
    <3> QED
      BY <1>1, <1>3, <3>1, GenuineStays DEF RecordedInv, Genuine
  <2> QED
    BY <2>2, <2>3
<1> QED
  BY <1>2 DEF RecordedInv

LEMMA RecordedInvariant == ASSUME RunsOnce PROVE WorkerSpec => [](RecordedInv /\ OwnInv)
<1>1. WorkerSpec => []DeliveryInv
  BY WorkerImplementsEdge, DeliveryInvariant
<1>2. WorkerSpec => []OwnInv
  BY WorkerImplementsEdge, EdgeImplementsService, OwnInvariant
<1>3. WorkerInit /\ DeliveryInv => RecordedInv
  BY DEF WorkerInit, RecordedInv, NoEntry
<1> QED
  BY <1>1, <1>2, <1>3, RecordedStep, WorkerTypesInvariant, PTL DEF WorkerSpec

(* Browsers hold what was inspected and recorded, although the object may  *)
(* be deleted and stored again while requests run (routes.go:179).  An     *)
(* answer that is not the origin's ends the request, and can change this   *)
(* only if it names the bucket's host, which is all that is looked at      *)
(* (index.ts:82).                                                          *)
THEOREM CopiesAreOfRecord == ASSUME RunsOnce PROVE WorkerSpec => []CopiesAreRecorded
<1>1. RecordedInv => CopiesAreRecorded
  BY DEF RecordedInv, CopiesAreRecorded, Genuine
<1> QED
  BY <1>1, RecordedInvariant, PTL

(* The cache or some browser delivers c as m. *)
Delivers(m, c) ==
  \E a \in AccessModes :
    \/ cache[m][a].left > 0 /\ cache[m][a].content = c
    \/ copies[m][a].left > 0 /\ copies[m][a].content = c

(* An ID names one picture: no reader ever gets another one than any       *)
(* reader before, from the edge or a browser, with or without a token,     *)
(* although entries fade and are evicted and the object may be stored      *)
(* again between two reads (routes.go:179, index.ts:62, 99).  It ends, if  *)
(* ever, with a redirect to the bucket's host that is not the origin's     *)
(* (index.ts:82).                                                          *)
THEOREM ReadersSeeOnePicture ==
  ASSUME RunsOnce, NEW m \in MediaIDs, NEW c
  PROVE  WorkerSpec => [](m \notin strayed /\ Delivers(m, c) =>
                            [](m \in strayed \/ \A d : Delivers(m, d) => d = c))
<1> DEFINE Strays == m \in strayed
           Shown == m \notin strayed /\ Delivers(m, c)
           Known == assets[m].generation >= 1 /\ assets[m].sha = c
           Only == \A d : Delivers(m, d) => d = c
<1>1. RecordedInv /\ Shown => Known
  BY DEF Delivers, RecordedInv, DeliveryInv, Genuine
<1>2. RecordedInv /\ Known => Strays \/ Only
  BY DEF Delivers, RecordedInv, DeliveryInv, Genuine
<1>3. OwnInv /\ Known /\ [WorkerNext]_everyVar => Known'
  BY WorkerNextIsNext, EdgeNextIsNext, GenuineStays
<1> HIDE DEF Strays, Shown, Known, Only
<1>4. WorkerSpec => [](Shown => [](Strays \/ Only))
  BY <1>1, <1>2, <1>3, RecordedInvariant, PTL DEF WorkerSpec
<1> QED
  BY <1>4 DEF Strays, Shown, Only

-----------------------------------------------------------------------------
(* Revocation: who was granted n, and has k of it left, was granted it     *)
(* n - k ago, and the link was checked before that.                        *)

Since(l, n) == l.status = "active" \/ (l.status = "deleted" /\ l.left + n >= Recovery)

Recent(ls, n) == \E s \in Slots : Since(ls[s], n)

SignedBy == RequestTTL - 1
AskedBy == SignedBy + (TokenTTL - 1)
AnsweredBy == AskedBy + (RequestTTL - 1)

RevocationInv ==
  /\ \A m \in MediaIDs :
       /\ authorized[m] > 0 => Recent(links[m], RequestTTL - authorized[m])
       /\ tokens[m] > 0 => Recent(links[m], SignedBy + (TokenTTL - tokens[m]))
       /\ copies[m]["private"].left > 0 =>
            /\ copies[m]["private"].left <= PrivateTTL
            /\ Recent(links[m], AnsweredBy + (PrivateTTL - copies[m]["private"].left))
  /\ \A r \in Requests : Verified(r) =>
       /\ requests[r].life \in 1..RequestTTL
       /\ Recent(links[requests[r].media], AskedBy + (RequestTTL - requests[r].life))

LEMMA RecentStays ==
  ASSUME TypeOK, ServiceStep, NEW m \in MediaIDs, NEW n \in Nat, n < Recovery, Recent(links[m], n)
  PROVE  Recent(links'[m], n)
<1>1. PICK s \in Slots : Since(links[m][s], n)
  BY DEF Recent
<1>2. links[m][s] \in MediaLink
  BY DEF TypeOK
<1>3. links'[m][s] \in {links[m][s], ActiveLink, DeletedLink}
  BY <1>1, <1>2, LinkRecordStep, GraceAssumption DEF Since, MediaLink
<1>4. Since(links'[m][s], n)
  BY <1>1, <1>3, GraceAssumption DEF Since, ActiveLink, DeletedLink
<1> QED
  BY <1>4 DEF Recent

LEMMA RecentTick ==
  ASSUME TypeOK, Tick, NEW m \in MediaIDs, NEW n \in Nat, Recent(links[m], n)
  PROVE  Recent(links'[m], n + 1)
<1>1. PICK s \in Slots : Since(links[m][s], n)
  BY DEF Recent
<1>2. links[m][s] \in MediaLink /\ links'[m][s] = AgedLink(links[m][s])
  BY DEF Tick, TypeOK
<1>3. Since(links'[m][s], n + 1)
  BY <1>1, <1>2, GraceAssumption DEF AgedLink, MediaLink, Less, Since
<1> QED
  BY <1>3 DEF Recent

LEMMA RecentLater ==
  ASSUME TypeOK, NEW m \in MediaIDs, NEW n \in Nat, NEW k \in Nat, n <= k, Recent(links[m], n)
  PROVE  Recent(links[m], k)
<1>1. PICK s \in Slots : Since(links[m][s], n)
  BY DEF Recent
<1>2. links[m][s].left \in Nat
  BY DEF TypeOK, MediaLink
<1>3. Since(links[m][s], k)
  BY <1>1, <1>2, GraceAssumption DEF Since
<1> QED
  BY <1>3 DEF Recent

\* What is granted is granted for a time, and all four times end in time.
LEMMA Lifetimes ==
  /\ {RequestTTL, TokenTTL, PrivateTTL} \subseteq Nat \ {0}
  /\ SignedBy \in Nat /\ AskedBy \in Nat /\ AnsweredBy \in Nat
  /\ AfterAuthorizing = AnsweredBy + (PrivateTTL - 1)
  /\ \A k \in 1..RequestTTL : RequestTTL - k \in 0..SignedBy
  /\ \A k \in 1..TokenTTL : SignedBy + (TokenTTL - k) \in SignedBy..AskedBy
  /\ \A k \in 1..RequestTTL : AskedBy + (RequestTTL - k) \in AskedBy..AnsweredBy
  /\ \A k \in 1..PrivateTTL : AnsweredBy + (PrivateTTL - k) \in AnsweredBy..AfterAuthorizing
BY LifetimeAssumption DEF SignedBy, AskedBy, AnsweredBy, AfterAuthorizing

LEMMA RevocationServes ==
  ASSUME AfterAuthorizing < Recovery, WorkerTypes, RevocationInv,
         ServiceStep, UNCHANGED <<edgeVars, workerVars>>
  PROVE  RevocationInv'
<1>1. TypeOK /\ Recovery \in Nat
  BY GraceAssumption DEF WorkerTypes, EdgeTypeOK
<1>2. ASSUME NEW m \in MediaIDs, NEW n \in 0..AfterAuthorizing, Recent(links[m], n)
      PROVE  Recent(links'[m], n)
  <2>1. n \in Nat /\ n < Recovery
    BY <1>1, Lifetimes
  <2> QED
    BY <1>1, <1>2, <2>1, RecentStays
<1>3. /\ authorized' = authorized /\ tokens' = tokens /\ requests' = requests /\ copies' = copies
  BY DEF edgeVars, workerVars
<1>4. ASSUME NEW m \in MediaIDs
      PROVE  /\ authorized[m] > 0 => Recent(links'[m], RequestTTL - authorized[m])
             /\ tokens[m] > 0 => Recent(links'[m], SignedBy + (TokenTTL - tokens[m]))
             /\ copies[m]["private"].left > 0 =>
                  Recent(links'[m], AnsweredBy + (PrivateTTL - copies[m]["private"].left))
  <2>1. /\ authorized[m] \in 0..RequestTTL /\ tokens[m] \in 0..TokenTTL
        /\ copies[m]["private"].left \in Nat
    BY AccessAssumption DEF WorkerTypes, EdgeTypeOK, Entry
  <2>2. authorized[m] > 0 => RequestTTL - authorized[m] \in 0..AfterAuthorizing
    BY <2>1, Lifetimes
  <2>3. tokens[m] > 0 => SignedBy + (TokenTTL - tokens[m]) \in 0..AfterAuthorizing
    BY <2>1, Lifetimes
  <2>4. copies[m]["private"].left > 0 =>
          AnsweredBy + (PrivateTTL - copies[m]["private"].left) \in 0..AfterAuthorizing
    BY <2>1, Lifetimes DEF RevocationInv
  <2> QED
    BY <1>2, <2>2, <2>3, <2>4 DEF RevocationInv
<1>5. ASSUME NEW r \in Requests, Verified(r)
      PROVE  Recent(links'[requests[r].media], AskedBy + (RequestTTL - requests[r].life))
  <2>1. requests[r].life \in 1..RequestTTL /\ requests[r].media \in MediaIDs
    BY <1>5 DEF RevocationInv, WorkerTypes, EdgeTypeOK, Verified
  <2>2. AskedBy + (RequestTTL - requests[r].life) \in 0..AfterAuthorizing
    BY <2>1, Lifetimes
  <2> QED
    BY <1>2, <1>5, <2>1, <2>2 DEF RevocationInv
<1> QED
  BY <1>3, <1>4, <1>5 DEF RevocationInv, Verified

LEMMA RevocationAges ==
  ASSUME WorkerTypes, RevocationInv, WorkerTick
  PROVE  RevocationInv'
<1>1. TypeOK /\ Tick /\ {RequestTTL, TokenTTL, PrivateTTL} \subseteq Nat \ {0}
  BY Lifetimes DEF WorkerTypes, EdgeTypeOK, WorkerTick, EdgeTick
<1>2. ASSUME NEW m \in MediaIDs, NEW base \in Nat, NEW ttl \in Nat, NEW k \in 1..ttl,
             Recent(links[m], base + (ttl - k))
      PROVE  Recent(links'[m], base + (ttl - (k - 1)))
  <2>1. base + (ttl - k) \in Nat /\ (base + (ttl - k)) + 1 = base + (ttl - (k - 1))
    OBVIOUS
  <2> QED
    BY <1>1, <1>2, <2>1, RecentTick
<1>3. ASSUME NEW m \in MediaIDs, authorized'[m] > 0
      PROVE  Recent(links'[m], RequestTTL - authorized'[m])
  <2>1. authorized[m] \in 0..RequestTTL /\ authorized'[m] = Less(authorized[m])
    BY DEF WorkerTypes, EdgeTypeOK, WorkerTick, EdgeTick
  <2>2. authorized[m] \in 1..RequestTTL /\ authorized'[m] = authorized[m] - 1
    BY <1>1, <1>3, <2>1 DEF Less
  <2>3. Recent(links[m], 0 + (RequestTTL - authorized[m]))
    BY <1>1, <2>2 DEF RevocationInv
  <2>4. Recent(links'[m], 0 + (RequestTTL - (authorized[m] - 1)))
    BY <1>1, <1>2, <2>2, <2>3
  <2> QED
    BY <1>1, <2>2, <2>4
<1>4. ASSUME NEW m \in MediaIDs, tokens'[m] > 0
      PROVE  Recent(links'[m], SignedBy + (TokenTTL - tokens'[m]))
  <2>1. tokens[m] \in 0..TokenTTL /\ tokens'[m] = Less(tokens[m])
    BY DEF WorkerTypes, EdgeTypeOK, WorkerTick, EdgeTick
  <2>2. tokens[m] \in 1..TokenTTL /\ tokens'[m] = tokens[m] - 1
    BY <1>1, <1>4, <2>1 DEF Less
  <2>3. Recent(links[m], SignedBy + (TokenTTL - tokens[m]))
    BY <2>2 DEF RevocationInv
  <2>4. Recent(links'[m], SignedBy + (TokenTTL - (tokens[m] - 1)))
    BY <1>1, <1>2, <2>2, <2>3, Lifetimes
  <2> QED
    BY <2>2, <2>4
<1>5. ASSUME NEW m \in MediaIDs, copies'[m]["private"].left > 0
      PROVE  /\ copies'[m]["private"].left <= PrivateTTL
             /\ Recent(links'[m], AnsweredBy + (PrivateTTL - copies'[m]["private"].left))
  <2> DEFINE e == copies[m]["private"]
  <2>1. e \in Entry /\ copies'[m]["private"] = AgedEntry(e)
    BY AccessAssumption DEF WorkerTypes, WorkerTick
  <2>2. e.left \in Nat /\ e.left > 0 /\ copies'[m]["private"].left = e.left - 1
    BY <1>5, <2>1, AgedCopy DEF Entry
  <2>3. e.left \in 1..PrivateTTL /\ Recent(links[m], AnsweredBy + (PrivateTTL - e.left))
    BY <1>1, <2>2 DEF RevocationInv
  <2>4. Recent(links'[m], AnsweredBy + (PrivateTTL - (e.left - 1)))
    BY <1>1, <1>2, <2>3, Lifetimes
  <2> QED
    BY <1>1, <2>2, <2>3, <2>4
<1>6. ASSUME NEW r \in Requests, Verified(r)'
      PROVE  /\ requests'[r].life \in 1..RequestTTL
             /\ Recent(links'[requests'[r].media], AskedBy + (RequestTTL - requests'[r].life))
  <2> DEFINE q == requests[r]
  <2>1. q \in Request /\ requests'[r] = AgedRequest(q)
    BY DEF WorkerTypes, EdgeTypeOK, WorkerTick, EdgeTick
  <2>2. requests'[r] = [q EXCEPT !.life = @ - 1] /\ q.pc # "idle" /\ q.life > 1
    BY <1>6, <2>1, AgedTypes DEF Verified
  <2>3. /\ requests'[r].life = q.life - 1 /\ requests'[r].media = q.media
        /\ requests'[r].access = q.access
    BY <2>1, <2>2 DEF Request
  <2>4. q.media \in MediaIDs /\ Verified(r)
    BY <1>6, <2>2, <2>3 DEF Verified, WorkerTypes, EdgeTypeOK
  <2>5. /\ q.life \in 1..RequestTTL
        /\ Recent(links[q.media], AskedBy + (RequestTTL - q.life))
    BY <2>4 DEF RevocationInv
  <2>6. Recent(links'[q.media], AskedBy + (RequestTTL - (q.life - 1)))
    BY <1>1, <1>2, <2>4, <2>5, Lifetimes
  <2> QED
    BY <1>1, <2>2, <2>3, <2>5, <2>6
<1> QED
  BY <1>3, <1>4, <1>5, <1>6 DEF RevocationInv

\* Tokens and requests; what browsers hold is the next lemma's.
LEMMA RevocationReads ==
  ASSUME WorkerTypes, RevocationInv, EdgeStep
  PROVE  /\ links' = links
         /\ \A m \in MediaIDs :
              /\ authorized'[m] > 0 => Recent(links[m], RequestTTL - authorized'[m])
              /\ tokens'[m] > 0 => Recent(links[m], SignedBy + (TokenTTL - tokens'[m]))
         /\ \A r \in Requests : Verified(r)' =>
              /\ requests'[r].life \in 1..RequestTTL
              /\ Recent(links[requests'[r].media], AskedBy + (RequestTTL - requests'[r].life))
<1> DEFINE Granting == \A m \in MediaIDs :
              /\ authorized'[m] > 0 => Recent(links[m], RequestTTL - authorized'[m])
              /\ tokens'[m] > 0 => Recent(links[m], SignedBy + (TokenTTL - tokens'[m]))
           Running == \A r \in Requests : Verified(r)' =>
              /\ requests'[r].life \in 1..RequestTTL
              /\ Recent(links[requests'[r].media], AskedBy + (RequestTTL - requests'[r].life))
<1>1. /\ EdgeTypeOK /\ TypeOK /\ {RequestTTL, TokenTTL} \subseteq Nat \ {0}
      /\ authorized \in [MediaIDs -> 0..RequestTTL] /\ tokens \in [MediaIDs -> 0..TokenTTL]
  BY Lifetimes DEF WorkerTypes, EdgeTypeOK
<1>2. links' = links
  BY EdgeStepStutters DEF vars
<1>3. UNCHANGED <<authorized, tokens>> => Granting
  BY DEF RevocationInv
<1>4. UNCHANGED requests => Running
  BY DEF RevocationInv, Verified
<1>5. ASSUME NEW m \in MediaIDs, NEW s \in Slots, AuthorizeMediaAccess(m, s)
      PROVE  Granting /\ Running
  <2>1. Recent(links[m], 0)
    BY <1>5 DEF AuthorizeMediaAccess, Recent, Since
  <2>2. authorized' = [authorized EXCEPT ![m] = RequestTTL] /\ UNCHANGED <<tokens, requests>>
    BY <1>5 DEF AuthorizeMediaAccess
  <2>3. RequestTTL - RequestTTL = 0
    BY <1>1
  <2> QED
    BY <1>1, <1>4, <2>1, <2>2, <2>3 DEF RevocationInv
<1>6. ASSUME NEW m \in MediaIDs, AccessToken(m)
      PROVE  Granting /\ Running
  <2>1. authorized[m] \in 1..RequestTTL
    BY <1>1, <1>6 DEF AccessToken
  <2>2. Recent(links[m], RequestTTL - authorized[m])
    BY <2>1 DEF RevocationInv
  <2>3. Recent(links[m], SignedBy)
    BY <1>1, <2>1, <2>2, Lifetimes, RecentLater
  <2>4. SignedBy + (TokenTTL - TokenTTL) = SignedBy
    BY <1>1, Lifetimes
  <2>5. tokens' = [tokens EXCEPT ![m] = TokenTTL] /\ UNCHANGED <<authorized, requests>>
    BY <1>6 DEF AccessToken
  <2> QED
    BY <1>1, <1>4, <2>3, <2>4, <2>5 DEF RevocationInv
<1>7. ASSUME NEW m \in MediaIDs, NEW a \in AccessModes, Evict(m, a)
      PROVE  Granting /\ Running
  BY <1>3, <1>4, <1>7 DEF Evict
<1>8. ASSUME NEW r \in Requests, NEW m \in MediaIDs, NEW a \in AccessModes, Fetch(r, m, a)
      PROVE  Granting /\ Running
  <2>1. UNCHANGED <<authorized, tokens>> /\ (a = "private" => tokens[m] > 0)
    BY <1>8 DEF Fetch
  <2>2. \A x \in Requests \ {r} : requests'[x] = requests[x]
    BY <1>1, <1>8 DEF Fetch, EdgeTypeOK
  <2>3. /\ requests'[r].media = m /\ requests'[r].access = a
        /\ requests'[r].life = RequestTTL
    BY <1>1, <1>8 DEF Fetch, EdgeTypeOK, Done
  <2>4. a = "private" => Recent(links[m], AskedBy + (RequestTTL - RequestTTL))
    <3>1. tokens[m] \in 0..TokenTTL
      BY <1>1
    <3>2. AskedBy + (RequestTTL - RequestTTL) = AskedBy
      BY <1>1, Lifetimes
    <3>3. tokens[m] > 0 => Recent(links[m], SignedBy + (TokenTTL - tokens[m]))
      BY DEF RevocationInv
    <3>4. tokens[m] > 0 => /\ SignedBy + (TokenTTL - tokens[m]) \in Nat
                           /\ SignedBy + (TokenTTL - tokens[m]) <= AskedBy
      BY <3>1, Lifetimes
    <3>5. tokens[m] > 0 => Recent(links[m], AskedBy)
      BY <1>1, <3>3, <3>4, Lifetimes, RecentLater
    <3> QED
      BY <2>1, <3>2, <3>5
  <2>5. RequestTTL \in 1..RequestTTL
    BY <1>1
  <2>6. Running
    BY <2>2, <2>3, <2>4, <2>5 DEF RevocationInv, Verified
  <2> QED
    BY <1>3, <2>1, <2>6
<1>9. ASSUME NEW r \in Requests, RequestRuns(r)
      PROVE  Granting /\ Running
  <2>1. UNCHANGED <<authorized, tokens>>
    BY <1>9
       DEF RequestRuns, MatchCache, Origin, StrayRedirect, ReadOriginal, StoreInCache, FetchFails
  <2>2. ASSUME NEW x \in Requests, Verified(x)'
        PROVE  /\ requests'[x].media = requests[x].media /\ requests'[x].life = requests[x].life
               /\ Verified(x)
    BY <1>1, <1>9, <2>2, RequestStep DEF Verified, Done
  <2>3. Running
    BY <2>2 DEF RevocationInv
  <2> QED
    BY <1>3, <2>1, <2>3
<1> QED
  BY <1>2, <1>5, <1>6, <1>7, <1>8, <1>9 DEF EdgeStep, RequestRuns

LEMMA RevocationCopies ==
  ASSUME WorkerTypes, RevocationInv, [WorkerNext]_everyVar, links' = links,
         NEW m \in MediaIDs, copies'[m]["private"].left > 0
  PROVE  /\ copies'[m]["private"].left <= PrivateTTL
         /\ Recent(links[m], AnsweredBy + (PrivateTTL - copies'[m]["private"].left))
<1> DEFINE e == copies[m]["private"]
           f == copies'[m]["private"]
<1>1. TypeOK /\ e \in Entry /\ e.left \in Nat /\ PrivateTTL \in Nat \ {0} /\ AnsweredBy \in Nat
  BY Lifetimes, AccessAssumption DEF WorkerTypes, EdgeTypeOK, Entry
<1>2. CASE f = e
  BY <1>2 DEF RevocationInv
<1>3. CASE f = AgedEntry(e)
  <2>1. e.left > 0 /\ f.left = e.left - 1
    BY <1>1, <1>3, AgedCopy
  <2>2. e.left <= PrivateTTL /\ Recent(links[m], AnsweredBy + (PrivateTTL - e.left))
    BY <2>1 DEF RevocationInv
  <2>3. /\ AnsweredBy + (PrivateTTL - e.left) \in Nat
        /\ AnsweredBy + (PrivateTTL - f.left) \in Nat
        /\ AnsweredBy + (PrivateTTL - e.left) <= AnsweredBy + (PrivateTTL - f.left)
        /\ f.left <= PrivateTTL
    BY <1>1, <2>1, <2>2
  <2> QED
    BY <1>1, <2>2, <2>3, RecentLater
<1>4. CASE FreshCopy(m, "private")
  <2>1. PICK r \in Requests : Answered(r, m, "private", f)
    BY <1>4 DEF FreshCopy
  <2>2. f.left = PrivateTTL
    BY <2>1, ReceivedType, AccessAssumption DEF WorkerTypes, Kept
  <2>3. Verified(r) /\ requests[r].media = m
    BY <2>1 DEF Answered, Verified
  <2>4. /\ requests[r].life \in 1..RequestTTL
        /\ Recent(links[m], AskedBy + (RequestTTL - requests[r].life))
    BY <2>3 DEF RevocationInv
  <2>5. /\ AskedBy + (RequestTTL - requests[r].life) \in Nat
        /\ AskedBy + (RequestTTL - requests[r].life) <= AnsweredBy
        /\ AnsweredBy + (PrivateTTL - f.left) = AnsweredBy
    BY <1>1, <2>2, <2>4, Lifetimes
  <2> QED
    BY <1>1, <2>2, <2>4, <2>5, RecentLater
<1> QED
  BY <1>2, <1>3, <1>4, CopyStep, AccessAssumption

LEMMA RevocationStep ==
  ASSUME AfterAuthorizing < Recovery, WorkerTypes, RevocationInv, [WorkerNext]_everyVar
  PROVE  RevocationInv'
<1>1. CASE UNCHANGED everyVar
  BY <1>1 DEF everyVar, allVars, vars, edgeVars, workerVars, RevocationInv, Verified
<1>2. CASE ServiceStep /\ UNCHANGED workerVars
  BY <1>2, RevocationServes DEF ServiceStep
<1>3. CASE EdgeStep
  BY <1>3, RevocationReads, RevocationCopies DEF RevocationInv
<1>4. TokenStep => EdgeStep
  BY DEF TokenStep, EdgeStep
<1> QED
  BY <1>1, <1>2, <1>3, <1>4, WorkerRequestIsEdgeStep, RevocationAges DEF WorkerNext

(* Private access ends in bounded time: a token lives TokenTTL after a     *)
(* check of the link (routes.go:140, 144), a request that used it runs on, *)
(* and its answer is kept (index.ts:52); nothing renews any of them once   *)
(* the link is removed.  Links must be recoverable for longer than that.   *)
THEOREM RevocationStaysBounded ==
  ASSUME AfterAuthorizing < Recovery
  PROVE  WorkerSpec => []RevocationIsBounded
<1>1. WorkerInit => RevocationInv
  BY AccessAssumption
     DEF WorkerInit, EdgeInit, RevocationInv, NoEntry, Done, Verified
<1>2. WorkerTypes /\ RevocationInv => RevocationIsBounded
  <2> SUFFICES ASSUME WorkerTypes, RevocationInv, NEW m \in MediaIDs,
                      \/ tokens[m] > 0
                      \/ copies[m]["private"].left > 0
                      \/ \E r \in Requests : Verified(r) /\ requests[r].media = m
               PROVE  Recent(links[m], AfterAuthorizing)
    BY DEF RevocationIsBounded, RecentlyLinked, Recent, Since, Verified
  <2>1. TypeOK /\ tokens[m] \in 0..TokenTTL /\ copies[m]["private"].left \in Nat
    BY AccessAssumption DEF WorkerTypes, EdgeTypeOK, Entry
  <2>2. AfterAuthorizing \in Nat
    BY Lifetimes
  <2>3. CASE tokens[m] > 0
    <3>1. SignedBy + (TokenTTL - tokens[m]) \in 0..AfterAuthorizing
      BY <2>1, <2>3, Lifetimes
    <3> QED
      BY <2>1, <2>2, <2>3, <3>1, RecentLater DEF RevocationInv
  <2>4. CASE copies[m]["private"].left > 0
    <3>1. AnsweredBy + (PrivateTTL - copies[m]["private"].left) \in 0..AfterAuthorizing
      BY <2>1, <2>4, Lifetimes DEF RevocationInv
    <3> QED
      BY <2>1, <2>2, <2>4, <3>1, RecentLater DEF RevocationInv
  <2>5. ASSUME NEW r \in Requests, Verified(r), requests[r].media = m
        PROVE  Recent(links[m], AfterAuthorizing)
    <3>1. AskedBy + (RequestTTL - requests[r].life) \in 0..AfterAuthorizing
      BY <2>5, Lifetimes DEF RevocationInv
    <3> QED
      BY <2>1, <2>2, <2>5, <3>1, RecentLater DEF RevocationInv
  <2> QED
    BY <2>3, <2>4, <2>5
<1> QED
  BY <1>1, <1>2, RevocationStep, WorkerTypesInvariant, PTL DEF WorkerSpec

-----------------------------------------------------------------------------
(* Fading: what was delivered before the origin refused is handed on for   *)
(* as long as requests, entries and copies last, one after the other.      *)

\* The origin's answer was followed: bytes can come of this request.
Reads(q, m, a) == q.pc \in {"read", "store"} /\ q.media = m /\ q.access = a

RunsUntil(q, a, n) == (q.life - 1) + (Kept(a) - 1) + Kept(a) <= n

LifeInv ==
  /\ \A r \in Requests : requests[r].pc # "idle" => requests[r].life \in 1..RequestTTL
  /\ \A m \in MediaIDs, a \in AccessModes :
       cache[m][a].left <= Kept(a) /\ copies[m][a].left <= Kept(a)

LEMMA KeptBounds ==
  ASSUME NEW a \in AccessModes
  PROVE  Kept(a) \in Nat \ {0} /\ Kept(a) <= PublicTTL
BY LifetimeAssumption DEF Kept

\* A request that reads already read, or the origin has just served it, or
\* something else has.
LEMMA ReadsStep ==
  ASSUME EdgeTypeOK, [EdgeNext]_allVars, NEW r \in Requests, requests'[r].pc # "idle"
  PROVE  \/ requests'[r].pc = "match" /\ requests'[r].life = RequestTTL
         \/ /\ requests[r].pc # "idle" /\ requests'[r].media = requests[r].media
            /\ requests'[r].access = requests[r].access
            /\ \/ requests'[r].life = requests[r].life
               \/ EdgeTick /\ requests[r].life > 1 /\ requests'[r].life = requests[r].life - 1
            /\ \/ requests'[r].pc = "origin"
               \/ requests[r].pc \in {"read", "store"}
               \/ requests'[r].pc = requests[r].pc
               \/ assets[requests[r].media].status \in {"ready", "orphaned"}
               \/ requests[r].media \in strayed'
<1>1. requests \in [Requests -> Request]
  BY DEF EdgeTypeOK
<1>2. CASE requests'[r] = requests[r]
  BY <1>2
<1>3. CASE EdgeTick
  <2>1. requests[r] \in Request /\ requests'[r] = AgedRequest(requests[r])
    BY <1>1, <1>3 DEF EdgeTick
  <2>2. /\ requests'[r] = [requests[r] EXCEPT !.life = @ - 1]
        /\ requests[r].pc # "idle" /\ requests[r].life > 1
    BY <2>1, AgedTypes
  <2> QED
    BY <1>3, <2>1, <2>2 DEF Request
<1>4. ASSUME NEW x \in Requests, NEW m \in MediaIDs, NEW a \in AccessModes, Fetch(x, m, a),
             requests'[r] # requests[r]
      PROVE  requests'[r].pc = "match" /\ requests'[r].life = RequestTTL
  BY <1>1, <1>4 DEF Fetch, Done
<1>5. ASSUME NEW x \in Requests, requests'[r] # requests[r], RequestRuns(x)
      PROVE  /\ requests[r].pc # "idle" /\ requests'[r].media = requests[r].media
             /\ requests'[r].access = requests[r].access
             /\ requests'[r].life = requests[r].life
             /\ \/ requests'[r].pc = "origin"
                \/ requests[r].pc \in {"read", "store"}
                \/ assets[requests[r].media].status \in {"ready", "orphaned"}
                \/ requests[r].media \in strayed'
  <2>1. x = r /\ requests'[r] # Done
    BY <1>5, RequestStep DEF Done
  <2>2. MatchCache(r) => requests'[r].pc = "origin"
    BY <1>1, <2>1 DEF MatchCache, Answer, Request
  <2>3. ReadOriginal(r) \/ StoreInCache(r) => requests[r].pc \in {"read", "store"}
    BY DEF ReadOriginal, StoreInCache
  <2>4. Origin(r) => assets[requests[r].media].status \in {"ready", "orphaned"}
    BY <1>1, <2>1 DEF Origin, Answer, Servable
  <2>5. ~FetchFails(r)
    BY <1>1, <2>1 DEF FetchFails, Answer
  <2>6. StrayRedirect(r) => requests[r].media \in strayed'
    BY <1>1, <2>1, StrayedStep DEF Answer
  <2> QED
    BY <1>5, <2>1, <2>2, <2>3, <2>4, <2>5, <2>6, RequestStep DEF RequestRuns
<1>6. CASE UNCHANGED requests
  BY <1>2, <1>6
<1> QED
  BY <1>2, <1>3, <1>4, <1>5, <1>6
     DEF EdgeNext, EdgeStep, RequestRuns, ServiceStep, AuthorizeMediaAccess, AccessToken,
         Evict, edgeVars, allVars

\* An entry is made by a request that has read what it stores.
LEMMA EntryStep ==
  ASSUME EdgeTypeOK, [EdgeNext]_allVars, NEW m \in MediaIDs, NEW a \in AccessModes
  PROVE  \/ cache'[m][a] \in {cache[m][a], NoEntry}
         \/ EdgeTick /\ cache'[m][a] = AgedEntry(cache[m][a])
         \/ \E r \in Requests : /\ requests[r].pc = "store" /\ Reads(requests[r], m, a)
                                /\ cache'[m][a] = Received(requests[r].content, a)
<1>1. cache \in [MediaIDs -> [AccessModes -> Entry]]
  BY DEF EdgeTypeOK
<1>2. CASE EdgeTick
  BY <1>2 DEF EdgeTick
<1>3. CASE UNCHANGED cache
  BY <1>3
<1>4. ASSUME NEW x \in MediaIDs, NEW b \in AccessModes, Evict(x, b)
      PROVE  cache'[m][a] \in {cache[m][a], NoEntry}
  BY <1>1, <1>4 DEF Evict
<1>5. ASSUME NEW r \in Requests, StoreInCache(r), cache'[m][a] # cache[m][a]
      PROVE  /\ requests[r].pc = "store" /\ Reads(requests[r], m, a)
             /\ cache'[m][a] = Received(requests[r].content, a)
  <2> DEFINE x == requests[r].media  b == requests[r].access
             e == [left |-> Kept(b), content |-> requests[r].content]
  <2>1. requests[r].pc = "store" /\ cache' = [cache EXCEPT ![x][b] = e]
    BY <1>5 DEF StoreInCache
  <2>2. x \in MediaIDs /\ b \in AccessModes
    BY <2>1 DEF EdgeTypeOK, Request
  <2> HIDE DEF x, b, e
  <2>3. x = m /\ b = a /\ cache'[m][a] = e
    BY <1>1, <1>5, <2>1, <2>2
  <2> QED
    BY <2>1, <2>3 DEF x, b, e, Reads, Received
<1> QED
  BY <1>2, <1>3, <1>4, <1>5
     DEF EdgeNext, EdgeStep, ServiceStep, AuthorizeMediaAccess, AccessToken, Fetch,
         MatchCache, Origin, StrayRedirect, ReadOriginal, FetchFails, edgeVars, allVars

LEMMA LifeStep ==
  ASSUME WorkerTypes, LifeInv, [WorkerNext]_everyVar
  PROVE  LifeInv'
<1>1. EdgeTypeOK /\ [EdgeNext]_allVars
  BY WorkerNextIsNext DEF WorkerTypes
<1>2. ASSUME NEW r \in Requests, requests'[r].pc # "idle"
      PROVE  requests'[r].life \in 1..RequestTTL
  BY <1>1, <1>2, ReadsStep, LifetimeAssumption DEF LifeInv
<1>3. ASSUME NEW m \in MediaIDs, NEW a \in AccessModes
      PROVE  cache'[m][a].left <= Kept(a) /\ copies'[m][a].left <= Kept(a)
  <2>1. Kept(a) \in Nat /\ NoEntry.left = 0
    BY KeptBounds DEF NoEntry
  <2>2. cache[m][a] \in Entry /\ copies[m][a] \in Entry
    BY DEF WorkerTypes, EdgeTypeOK
  <2>3. \A e \in Entry : e.left <= Kept(a) => AgedEntry(e).left <= Kept(a)
    BY <2>1 DEF AgedEntry, Entry
  <2>4. \A c : Received(c, a).left = Kept(a)
    BY DEF Received
  <2>5. cache'[m][a].left <= Kept(a)
    BY <1>1, <2>1, <2>2, <2>3, <2>4, EntryStep DEF LifeInv
  <2>6. FreshCopy(m, a) => copies'[m][a].left = Kept(a)
    BY <2>4 DEF FreshCopy, Answered
  <2>7. copies'[m][a].left <= Kept(a)
    BY <2>1, <2>2, <2>3, <2>6, CopyStep DEF LifeInv
  <2> QED
    BY <2>5, <2>7
<1> QED
  BY <1>2, <1>3 DEF LifeInv

LEMMA LifeInvariant == WorkerSpec => []LifeInv
<1>1. WorkerInit => LifeInv
  <2>1. \A a \in AccessModes : 0 <= Kept(a)
    BY KeptBounds
  <2> QED
    BY <2>1 DEF WorkerInit, EdgeInit, LifeInv, NoEntry, Done
<1> QED
  BY <1>1, LifeStep, WorkerTypesInvariant, PTL DEF WorkerSpec

\* However late it is, there is a time by which all of it is gone.
LEMMA GoneByLongest ==
  ASSUME WorkerTypes, LifeInv, NEW m \in MediaIDs
  PROVE  GoneBy(m, Longest)
<1>1. /\ RequestTTL \in Nat \ {0} /\ PublicTTL \in Nat \ {0}
      /\ Longest = (RequestTTL - 1) + (PublicTTL - 1) + PublicTTL
  BY LifetimeAssumption DEF Longest
<1>2. ASSUME NEW a \in AccessModes
      PROVE  /\ copies[m][a].left <= Longest
             /\ cache[m][a].left > 0 => (cache[m][a].left - 1) + Kept(a) <= Longest
             /\ \A r \in Requests : Reads(requests[r], m, a) => RunsUntil(requests[r], a, Longest)
  <2>1. copies[m][a].left \in Nat /\ cache[m][a].left \in Nat
    BY DEF WorkerTypes, EdgeTypeOK, Entry
  <2>2. \A r \in Requests : Reads(requests[r], m, a) => requests[r].life \in 1..RequestTTL
    BY DEF LifeInv, Reads
  <2> QED
    BY <1>1, <2>1, <2>2, KeptBounds DEF LifeInv, RunsUntil
<1> QED
  BY <1>2 DEF GoneBy, Reads, RunsUntil

LEMMA FadesTo ==
  ASSUME WorkerTypes, LifeInv, [WorkerNext]_everyVar, NEW m \in MediaIDs \ strayed',
         assets[m].status \notin {"ready", "orphaned"}, NEW n \in Nat, GoneBy(m, n),
         NEW k \in Nat, k = IF WorkerTick THEN Less(n) ELSE n
  PROVE  GoneBy(m, k)'
<1>1. EdgeTypeOK /\ [EdgeNext]_allVars
  BY WorkerNextIsNext DEF WorkerTypes
<1>2. \A a \in AccessModes, r \in Requests :
        Reads(requests[r], m, a) => RunsUntil(requests[r], a, n)
  BY DEF GoneBy, Reads, RunsUntil
<1>3. k <= n /\ Less(n) <= n /\ (n > 0 => Less(n) = n - 1)
  BY DEF Less
<1>4. ASSUME NEW a \in AccessModes, NEW e \in Entry
      PROVE  AgedEntry(e).left \in Nat /\ AgedEntry(e).left = Less(e.left)
  BY DEF AgedEntry, NoEntry, Less, Entry
<1>5. ASSUME NEW a \in AccessModes
      PROVE  copies'[m][a].left <= k
  <2>1. copies[m][a] \in Entry /\ copies[m][a].left \in Nat /\ copies[m][a].left <= n
    BY DEF WorkerTypes, GoneBy, Entry
  <2>2. CASE WorkerTick
    <3>1. copies'[m][a].left = Less(copies[m][a].left)
      BY <1>4, <2>1, <2>2 DEF WorkerTick
    <3> QED
      BY <2>1, <2>2, <3>1 DEF Less
  <2>3. CASE ~WorkerTick /\ FreshCopy(m, a)
    <3>1. PICK r \in Requests : Answered(r, m, a, copies'[m][a])
      BY <2>3 DEF FreshCopy
    <3>2. copies'[m][a].left = Kept(a)
      BY <3>1 DEF Answered, Received
    <3>3. \/ cache[m][a].left > 0 /\ cache[m][a].left \in Nat
          \/ Reads(requests[r], m, a) /\ requests[r].life \in 1..RequestTTL
      BY <1>1, <3>1 DEF Answered, Reads, LifeInv, EdgeTypeOK, Entry
    <3> QED
      BY <1>2, <2>3, <3>2, <3>3, KeptBounds DEF GoneBy, RunsUntil
  <2>4. CASE ~WorkerTick /\ ~FreshCopy(m, a)
    <3>1. copies'[m][a].left <= copies[m][a].left
      BY <1>4, <2>1, <2>4, CopyStep DEF Less
    <3>2. copies'[m][a].left \in Nat
      BY WorkerNextTypes DEF WorkerTypes, Entry
    <3> QED
      BY <2>1, <2>4, <3>1, <3>2
  <2> QED
    BY <2>2, <2>3, <2>4
<1>6. ASSUME NEW a \in AccessModes, cache'[m][a].left > 0
      PROVE  (cache'[m][a].left - 1) + Kept(a) <= k
  <2>1. cache[m][a] \in Entry /\ cache[m][a].left \in Nat /\ cache'[m][a].left \in Nat
    BY <1>1, EdgeNextTypes DEF EdgeTypeOK, Entry
  <2>2. cache[m][a].left > 0 => (cache[m][a].left - 1) + Kept(a) <= n
    BY DEF GoneBy
  <2>3. CASE WorkerTick
    <3>1. cache'[m][a].left = Less(cache[m][a].left)
      BY <1>4, <2>1, <2>3 DEF WorkerTick, EdgeTick
    <3>2. cache[m][a].left > 1 /\ cache'[m][a].left = cache[m][a].left - 1
      BY <1>6, <2>1, <3>1 DEF Less
    <3>3. n > 0 /\ k = n - 1
      BY <1>3, <2>1, <2>2, <2>3, <3>2, KeptBounds
    <3> QED
      BY <2>1, <2>2, <3>2, <3>3, KeptBounds
  <2>4. CASE ~WorkerTick
    <3>1. CASE cache'[m][a].left <= cache[m][a].left
      BY <1>6, <2>1, <2>2, <2>4, <3>1, KeptBounds
    <3>2. ASSUME NEW r \in Requests, Reads(requests[r], m, a), cache'[m][a].left = Kept(a)
          PROVE  (cache'[m][a].left - 1) + Kept(a) <= n
      <4>1. requests[r].life \in 1..RequestTTL
        BY <3>2 DEF LifeInv, Reads
      <4> QED
        BY <1>2, <3>2, <4>1, KeptBounds DEF RunsUntil
    <3>3. cache'[m][a] # NoEntry
      BY <1>6 DEF NoEntry
    <3>4. AgedEntry(cache[m][a]).left <= cache[m][a].left
      BY <1>4, <2>1 DEF Less
    <3>5. \/ cache'[m][a].left <= cache[m][a].left
          \/ \E r \in Requests : Reads(requests[r], m, a) /\ cache'[m][a].left = Kept(a)
      <4>1. \A c : Received(c, a).left = Kept(a)
        BY DEF Received
      <4> QED
        BY <1>1, <2>1, <3>3, <3>4, <4>1, EntryStep
    <3> QED
      BY <2>4, <3>1, <3>2, <3>5
  <2> QED
    BY <2>3, <2>4
<1>7. ASSUME NEW a \in AccessModes, NEW r \in Requests, Reads(requests'[r], m, a)
      PROVE  RunsUntil(requests'[r], a, k)
  <2>1. Reads(requests[r], m, a)
    BY <1>1, <1>7, ReadsStep DEF Reads
  <2>2. requests[r].life \in 1..RequestTTL /\ RunsUntil(requests[r], a, n)
    BY <1>2, <2>1 DEF LifeInv, Reads
  <2>3. CASE WorkerTick
    <3>1. requests[r] \in Request /\ requests'[r] = AgedRequest(requests[r])
      BY <1>1, <2>3 DEF WorkerTick, EdgeTick, EdgeTypeOK
    <3>2. requests'[r] = [requests[r] EXCEPT !.life = @ - 1] /\ requests[r].life > 1
      BY <1>7, <3>1, AgedTypes DEF Reads
    <3>3. requests'[r].life = requests[r].life - 1
      BY <3>1, <3>2 DEF Request
    <3>4. n > 0 /\ k = n - 1
      BY <1>3, <2>2, <2>3, <3>2, KeptBounds DEF RunsUntil
    <3> QED
      BY <2>2, <3>3, <3>4, KeptBounds DEF RunsUntil
  <2>4. CASE ~WorkerTick
    <3>1. requests'[r].life \in {requests[r].life, requests[r].life - 1}
      BY <1>1, <1>7, ReadsStep DEF Reads
    <3> QED
      BY <2>2, <2>4, <3>1, KeptBounds DEF RunsUntil
  <2> QED
    BY <2>3, <2>4
<1> QED
  BY <1>5, <1>6, <1>7 DEF GoneBy, Reads, RunsUntil

LEMMA FadeStep ==
  ASSUME WorkerTypes, LifeInv, [WorkerNext]_everyVar, NEW m \in MediaIDs \ strayed',
         assets[m].status \notin {"ready", "orphaned"}, NEW n \in Nat, GoneBy(m, n)
  PROVE  GoneBy(m, n)' /\ (WorkerTick => GoneBy(m, Less(n))')
<1>1. Less(n) \in Nat /\ Less(n) <= n
  BY DEF Less
<1>2. CASE WorkerTick
  <2>1. GoneBy(m, Less(n))'
    BY <1>1, <1>2, FadesTo
  <2>2. /\ \A a \in AccessModes : cache'[m][a].left \in Nat /\ copies'[m][a].left \in Nat
        /\ \A r \in Requests : requests'[r].life \in Nat
    BY WorkerNextTypes DEF WorkerTypes, EdgeTypeOK, Entry, Request
  <2>3. GoneBy(m, n)'
    BY <1>1, <2>1, <2>2, KeptBounds DEF GoneBy
  <2> QED
    BY <2>1, <2>3
<1>3. CASE ~WorkerTick
  BY <1>3, FadesTo
<1> QED
  BY <1>2, <1>3

(* What was delivered fades in bounded time once the origin refuses more   *)
(* (routes.go:165) and nothing else is read for it (index.ts:82): no       *)
(* answer from the cache is kept longer than the entry and one more        *)
(* max-age, and using an entry does not renew it (index.ts:52, 62, 99).    *)
THEOREM DeliveriesFade == WorkerSpec => FadesInTime
<1>1. WorkerTypes /\ LifeInv => \A m \in MediaIDs : GoneBy(m, Longest)
  BY GoneByLongest
<1>2. Longest \in Nat
  BY LifetimeAssumption DEF Longest
<1>3. WorkerTypes /\ LifeInv /\ [WorkerNext]_everyVar =>
        [\A m \in MediaIDs \ strayed' : assets[m].status \notin {"ready", "orphaned"} =>
           \A n \in 0..Longest :
             GoneBy(m, n) => /\ GoneBy(m, n)'
                             /\ WorkerTick => GoneBy(m, Less(n))']_everyVar
  BY <1>2, FadeStep
<1> QED
  BY <1>1, <1>3, LifeInvariant, WorkerTypesInvariant, PTL DEF WorkerSpec, FadesInTime

(* No request, entry or copy is kept for longer than it was granted for,   *)
(* however often it is used (index.ts:52, 62, 99), and what is held of     *)
(* each is well-typed, in every behaviour of the Worker.                   *)
THEOREM WorkerTypeCorrect == WorkerSpec => []WorkerTypeOK
<1>1. WorkerTypes /\ LifeInv => WorkerTypeOK
  BY DEF WorkerTypes, LifeInv, WorkerTypeOK
<1> QED
  BY <1>1, LifeInvariant, WorkerTypesInvariant, PTL

-----------------------------------------------------------------------------
(* The platform *)

LEMMA UserServes ==
  ASSUME UserStep
  PROVE  Untimed
BY DEF UserStep, Untimed, LinkStep

LEMMA ReaderStepStutters ==
  ASSUME ReaderStep
  PROVE  UNCHANGED vars
<1>1. TokenStep => EdgeStep
  BY DEF TokenStep, EdgeStep
<1> QED
  BY <1>1, WorkerRequestIsEdgeStep, EdgeStepStutters DEF ReaderStep

(* Readers change nothing a sweep looks at, so a platform with readers     *)
(* sweeps as MediaSweep says.                                              *)
THEOREM PlatformSweeps == PlatformSpec => SweepSpec
<1>1. PlatformInit => SweepInit
  BY DEF PlatformInit
<1>2. [PlatformNext]_platformVars => [SweepNext]_sweepVars
  BY ReaderStepStutters
     DEF PlatformNext, SweepNext, SweeperStep, PlatformTick, platformVars, sweepVars
<1> QED
  BY <1>1, <1>2, PTL DEF PlatformSpec, SweepSpec

(* Sweeps do nothing to the service that MediaEdge's clients do not, so a  *)
(* platform with sweeps serves readers as EdgeWorker says: none of what is *)
(* proved of delivery is lost when Sweep (service.go:577) runs beside it.  *)
THEOREM PlatformServes == PlatformSpec => WorkerSpec
<1>1. PlatformInit => WorkerInit
  BY DEF PlatformInit
<1>2. SweepInv /\ [PlatformNext]_platformVars => [WorkerNext]_everyVar
  <2> SUFFICES ASSUME SweepInv, [PlatformNext]_platformVars PROVE [WorkerNext]_everyVar
    OBVIOUS
  <2>1. CASE Untimed /\ UNCHANGED readerVars
    BY <2>1 DEF Untimed, ServiceStep, WorkerNext, readerVars, workerVars
  <2>2. CASE ReaderStep
    BY <2>2 DEF ReaderStep, WorkerNext
  <2>3. CASE PlatformTick
    BY <2>3 DEF PlatformTick, WorkerNext
  <2>4. CASE UNCHANGED <<vars, readerVars>>
    BY <2>4 DEF readerVars, everyVar, allVars
  <2> QED
    BY <2>1, <2>2, <2>3, <2>4, UserServes, SweepStepIsStep
       DEF PlatformNext, SweeperStep, platformVars, sweepVars
<1>3. PlatformSpec => []SweepInv
  BY PlatformSweeps, SweepInvariant, PTL
<1> QED
  BY <1>1, <1>2, <1>3, PTL DEF PlatformSpec, WorkerSpec

(* With sweeps and readers at once, the promise is kept: an image that is  *)
(* held is shown, unchanged, and nothing comes back from where it went.    *)
THEOREM PlatformKeepsPromise == ASSUME RunsOnce PROVE PlatformSpec => KeepsPromise
BY PlatformServes, WorkerImplementsEdge, EdgeImplementsService, PromiseIsKept, PTL

(* Sweeps whose deletes report errors and readers who come late find the   *)
(* recorded bytes under a recorded generation, or nothing (gcs.go:42).     *)
THEOREM PlatformKeepsPins == PlatformSpec => []PinnedIsRecorded
BY PlatformSweeps, SweepsImplementService, PinnedStaysRecorded, PTL

(* An asset that was purged, and of which nothing is left at the edge or   *)
(* in a browser, never comes back: no token, entry or copy of it is made   *)
(* again, and no bytes with the generation that was recorded, although     *)
(* others may be stored with an upload URL (service.go:656) and the edge   *)
(* has a place for them (index.ts:100), until a redirect to the bucket's   *)
(* host is followed for it that is not the origin's (index.ts:82).         *)
THEOREM GoneIsForGood ==
  ASSUME RunsOnce, NEW m \in MediaIDs
  PROVE  PlatformSpec => [](assets[m].status = "deleted" /\ GoneBy(m, 0) =>
                              [](m \in strayed \/ OutOfReach(m)))
<1> DEFINE Gone == assets[m].status = "deleted" /\ GoneBy(m, 0)
           Strays == m \in strayed
           Inv == GraphInv /\ WindowInv /\ PurgedInv /\ WorkerTypes /\ LifeInv
<1>1. WorkerSpec => []Inv
  BY WorkerImplementsEdge, EdgeImplementsService, GraphInvariant, WindowInvariant,
     PurgedInvariant, WorkerTypesInvariant, LifeInvariant, PTL
<1>2. Inv /\ Gone /\ [WorkerNext]_everyVar => Strays' \/ Gone'
  <2> SUFFICES ASSUME Inv, Gone, [WorkerNext]_everyVar, ~Strays' PROVE Gone'
    OBVIOUS
  <2>1. assets'[m].status = "deleted"
    BY WorkerNextIsNext, EdgeNextIsNext, EndStep
  <2>2. GoneBy(m, 0)'
    BY FadeStep
  <2> QED
    BY <2>1, <2>2
<1>3. Inv /\ Gone => OutOfReach(m)
  <2> SUFFICES ASSUME Inv, Gone PROVE OutOfReach(m)
    OBVIOUS
  <2>1. tokens[m] = 0
    <3>1. tokens[m] \in 0..TokenTTL /\ ~(tokens[m] > 0)
      BY LastingIsReady, LifetimeAssumption DEF WindowInv, WorkerTypes, EdgeTypeOK
    <3> QED
      BY <3>1, LifetimeAssumption
  <2>2. ASSUME NEW a \in AccessModes
        PROVE  cache[m][a].left = 0 /\ copies[m][a].left = 0
    <3>1. cache[m][a].left \in Nat /\ copies[m][a].left \in Nat
      BY DEF WorkerTypes, EdgeTypeOK, Entry
    <3> QED
      BY <3>1, KeptBounds DEF GoneBy
  <2>3. objects[m].live => objects[m].generation # assets[m].generation
    BY DEF PurgedInv, Removed
  <2> QED
    BY <2>1, <2>2, <2>3 DEF OutOfReach
<1>4. [WorkerNext]_everyVar /\ Strays => Strays'
  BY WorkerNextIsNext, StrayedStep
<1> HIDE DEF Inv, Gone, Strays
<1>5. WorkerSpec => [](Gone => [](Strays \/ OutOfReach(m)))
  BY <1>1, <1>2, <1>3, <1>4, PTL DEF WorkerSpec
<1> QED
  BY <1>5, PlatformServes, PTL DEF Gone, Strays

=============================================================================
