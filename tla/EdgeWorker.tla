------------------------------ MODULE EdgeWorker ------------------------------
(* What MediaEdge leaves out of the Worker of edge/src/index.ts: HEAD      *)
(* requests, and its answers, which browsers keep for as long as the       *)
(* Cache-Control of clientResponse allows.  Every step is a step of        *)
(* MediaEdge, or none.                                                     *)
EXTENDS MediaEdge

CONSTANTS
  Methods  \* the ones readers use, of those the Worker accepts

ASSUME MethodAssumption == Methods \subseteq {"GET", "HEAD"} /\ Methods # {}

VARIABLES
  methods,  \* the method of each request, "none" when it is answered
  copies    \* the newest copy kept by a browser, for each media and Cache-Control

workerVars == <<methods, copies>>
everyVar == <<allVars, workerVars>>

WorkerInit ==
  /\ EdgeInit
  /\ methods = [r \in Requests |-> "none"]
  /\ copies = [m \in MediaIDs |-> [a \in AccessModes |-> NoEntry]]

-----------------------------------------------------------------------------
(* Answers *)

\* Mutant: the answer keeps the header its cache entry was stored with.
ControlAsStored(access) == "public"

(* Cache-Control follows the request, not the entry: entries are stored as *)
(* public, or the cache would not take them.                               *)
Control(access) == access

\* The header's max-age is what the edge keeps too.
Received(c, control) == [left |-> Kept(control), content |-> c]

(* An answer with a body may be kept by a browser; HEAD has none. *)
ClientResponse(r, c) ==
  LET m == requests[r].media  control == Control(requests[r].access) IN
  \/ /\ methods[r] = "GET"
     /\ copies' = [copies EXCEPT ![m][control] = Received(c, control)]
  \/ UNCHANGED copies

-----------------------------------------------------------------------------
(* Requests *)

WorkerFetch(r, m, a, method) ==
  /\ Fetch(r, m, a)
  /\ methods' = [methods EXCEPT ![r] = method]
  /\ UNCHANGED copies

WorkerMatch(r) ==
  LET entry == cache[requests[r].media][requests[r].access] IN
  /\ MatchCache(r)
  /\ IF entry.left > 0 THEN ClientResponse(r, entry.content) ELSE UNCHANGED copies

WorkerOrigin(r) == methods[r] = "GET" /\ Origin(r) /\ UNCHANGED copies

(* The origin answers HEAD from the record alone, and the edge passes its  *)
(* status on: nothing is read, stored or kept.                             *)
HeadOrigin(r) ==
  /\ methods[r] = "HEAD"
  /\ requests[r].pc = "origin"
  /\ Answer(r)
  /\ UNCHANGED <<vars, authorized, tokens, cache, strayed, copies>>

WorkerStray(r) == methods[r] = "GET" /\ StrayRedirect(r) /\ UNCHANGED copies

WorkerRead(r) == ReadOriginal(r) /\ UNCHANGED copies

(* The answer is a copy of what is stored. *)
WorkerStore(r) == StoreInCache(r) /\ ClientResponse(r, requests[r].content)

WorkerFails(r) == FetchFails(r) /\ UNCHANGED copies

MethodsKept ==
  methods' = [r \in Requests |-> IF requests'[r].pc = "idle" THEN "none" ELSE methods[r]]

WorkerRequest(r) ==
  \/ \E m \in MediaIDs, a \in AccessModes, method \in Methods : WorkerFetch(r, m, a, method)
  \/ /\ \/ WorkerMatch(r) \/ WorkerOrigin(r) \/ HeadOrigin(r) \/ WorkerStray(r)
        \/ WorkerRead(r) \/ WorkerStore(r) \/ WorkerFails(r)
     /\ MethodsKept

TokenStep ==
  \/ \E m \in MediaIDs, s \in Slots : AuthorizeMediaAccess(m, s)
  \/ \E m \in MediaIDs : AccessToken(m)
  \/ \E m \in MediaIDs, a \in AccessModes : Evict(m, a)

WorkerTick ==
  /\ EdgeTick
  /\ copies' = [m \in MediaIDs |-> [a \in AccessModes |-> AgedEntry(copies[m][a])]]
  /\ MethodsKept

WorkerNext ==
  \/ (ServiceStep \/ TokenStep) /\ UNCHANGED workerVars
  \/ \E r \in Requests : WorkerRequest(r)
  \/ WorkerTick

WorkerSpec == WorkerInit /\ [][WorkerNext]_everyVar

-----------------------------------------------------------------------------
(* Properties *)

WorkerTypeOK ==
  /\ EdgeTypeOK
  /\ methods \in [Requests -> Methods \cup {"none"}]
  /\ copies \in [MediaIDs -> [AccessModes -> Entry]]
  /\ \A r \in Requests : requests[r].pc # "idle" => requests[r].life \in 1..RequestTTL
  /\ \A m \in MediaIDs, a \in AccessModes :
       cache[m][a].left <= Kept(a) /\ copies[m][a].left <= Kept(a)

(* Bytes that left with a public Cache-Control, which anyone on the way    *)
(* may keep and hand on, are those of a public asset, although private     *)
(* entries are stored as public ones (index.ts:52, 54, 99), until a        *)
(* redirect is followed for it that is not the origin's (index.ts:82).     *)
SharedIsPublic ==
  \A m \in MediaIDs \ strayed : copies[m]["public"].left > 0 => assets[m].access = "public"

(* What browsers hold is what was inspected and recorded, whatever was     *)
(* stored meanwhile, and whoever answered for the origin, unless he sent   *)
(* the Worker to the host of the bucket: no other answer is read           *)
(* (index.ts:82, 85).                                                      *)
CopiesAreRecorded ==
  \A m \in MediaIDs \ strayed, a \in AccessModes :
    copies[m][a].left > 0 => copies[m][a].content = assets[m].sha

(* What is granted for n sees n - 1 ticks and ends at the next.  A caller   *)
(* signs, the token is used, the request runs, and its answer is kept.     *)
AfterAuthorizing ==
  (RequestTTL - 1) + (TokenTTL - 1) + (RequestTTL - 1) + (PrivateTTL - 1)

(* A link that is active, or was removed at most n ago. *)
RecentlyLinked(m, n) ==
  \E s \in Slots :
    \/ links[m][s].status = "active"
    \/ links[m][s].status = "deleted" /\ links[m][s].left + n >= Recovery

(* Removing the last link ends private access in bounded time: no token,   *)
(* no verified request and no browser's copy is left after the four        *)
(* lifetimes that follow a check of the link (routes.go:140, 144,          *)
(* index.ts:52).                                                           *)
RevocationIsBounded ==
  \A m \in MediaIDs :
    \/ tokens[m] > 0
    \/ copies[m]["private"].left > 0
    \/ \E r \in Requests :
         requests[r].pc # "idle" /\ requests[r].media = m /\ requests[r].access = "private"
    => RecentlyLinked(m, AfterAuthorizing)

(* Nothing of m is found n ticks from now, as long as the origin refuses   *)
(* it: what a request has a capability for is cached when the request is   *)
(* done, and given to one more browser while it is cached.                 *)
GoneBy(m, n) ==
  \A a \in AccessModes :
    /\ copies[m][a].left <= n
    /\ cache[m][a].left > 0 => (cache[m][a].left - 1) + Kept(a) <= n
    /\ \A r \in Requests :
         requests[r].pc \in {"read", "store"} /\ requests[r].media = m /\ requests[r].access = a =>
           (requests[r].life - 1) + (Kept(a) - 1) + Kept(a) <= n

Longest == (RequestTTL - 1) + (PublicTTL - 1) + PublicTTL

(* What was delivered fades in bounded time once the origin refuses more   *)
(* (routes.go:165) and nobody answers for it: the edge's cache and the     *)
(* browsers' copies hand each other nothing that is new, however often     *)
(* readers ask (index.ts:52, 62, 99).                                      *)
FadesInTime ==
  /\ [](\A m \in MediaIDs : GoneBy(m, Longest))
  /\ [][\A m \in MediaIDs \ strayed' : assets[m].status \notin {"ready", "orphaned"} =>
          \A n \in 0..Longest :
            GoneBy(m, n) => /\ GoneBy(m, n)'
                            /\ WorkerTick => GoneBy(m, Less(n))']_everyVar

=============================================================================
