------------------------------ MODULE MediaEdge ------------------------------
(* How media is read: the access tokens of the service, the origin handler *)
(* of backend/api4media/routes.go, and the Worker of edge/src/index.ts     *)
(* with its cache, beside everything MediaService does.                    *)
(*                                                                         *)
(* Variants of one media never share a cache entry, so there is one.  A    *)
(* read capability's two minutes are left out: they can only make a read   *)
(* fail, and any step of a request may fail.                               *)
EXTENDS MediaService

CONSTANTS
  Requests,    \* requests the edge works on at once
  RequestTTL,  \* how long the platforms let a request run
  TokenTTL,    \* routes.go:144
  PrivateTTL, PublicTTL,  \* index.ts:53 and 99
  StrayLocations,  \* where answers that the origin did not give may redirect to
  StrayContents    \* and what may be read there

ASSUME AccessAssumption == AccessModes = {"public", "private"}
\* 5 minutes against a year.
ASSUME LifetimeAssumption ==
  /\ {RequestTTL, TokenTTL, PrivateTTL, PublicTTL} \subseteq Nat \ {0}
  /\ PrivateTTL <= PublicTTL
\* 15 minutes against 7 days, 5 minutes against 30 days.
ASSUME WindowAssumption ==
  RequestTTL + TokenTTL <= Recovery /\ RequestTTL + PrivateTTL <= OrphanGrace

ReadHost == "storage.googleapis.com"

ASSUME StrayAssumption == StrayLocations \subseteq {"none", "elsewhere", ReadHost}

VARIABLES
  authorized,  \* time left to sign for the last caller whose link was checked
  tokens,      \* time left of the last token signed
  requests,    \* what the edge is doing for each request
  cache,       \* the edge's entry for each media and access
  strayed      \* media read elsewhere than the origin said: only properties look

edgeVars == <<authorized, tokens, requests, cache, strayed>>
allVars == <<vars, edgeVars>>

\* What can be read and handed on.
Readable == Contents \cup StrayContents \cup {NoContent}

Entry == [left : Nat, content : Readable]
NoEntry == [left |-> 0, content |-> NoContent]

Request ==
  [pc : {"idle", "match", "origin", "read", "store"}, media : MediaIDs \cup {NoMedia},
   access : AccessModes, life : Nat, generation : Nat, content : Readable]

Done ==
  [pc |-> "idle", media |-> NoMedia, access |-> "public", life |-> 0,
   generation |-> 0, content |-> NoContent]

EdgeInit ==
  /\ Init
  /\ authorized = [m \in MediaIDs |-> 0]
  /\ tokens = [m \in MediaIDs |-> 0]
  /\ requests = [r \in Requests |-> Done]
  /\ cache = [m \in MediaIDs |-> [a \in AccessModes |-> NoEntry]]
  /\ strayed = {}

-----------------------------------------------------------------------------
(* Tokens.  The link is read first and the token signed later; many may be *)
(* under way, and the latest can do whatever an earlier one can.           *)

\* Mutant: a removed link still grants access.
AuthorizedByAnyLink(m, s) ==
  /\ links[m][s].status # "none"
  /\ authorized' = [authorized EXCEPT ![m] = RequestTTL]
  /\ UNCHANGED <<vars, tokens, requests, cache, strayed>>

AuthorizeMediaAccess(m, s) ==
  /\ links[m][s].status = "active"
  /\ authorized' = [authorized EXCEPT ![m] = RequestTTL]
  /\ UNCHANGED <<vars, tokens, requests, cache, strayed>>

AccessToken(m) ==
  /\ authorized[m] > 0
  /\ tokens' = [tokens EXCEPT ![m] = TokenTTL]
  /\ UNCHANGED <<vars, authorized, requests, cache, strayed>>

-----------------------------------------------------------------------------
(* The Worker *)

Answer(r) == requests' = [requests EXCEPT ![r] = Done]

(* A request with a token is private if the token is valid, and refused    *)
(* otherwise; one without a token is public, whatever it asks for.         *)
Fetch(r, m, access) ==
  /\ requests[r].pc = "idle"
  /\ access = "private" => tokens[m] > 0
  /\ requests' = [requests EXCEPT ![r] =
       [Done EXCEPT !.pc = "match", !.media = m, !.access = access, !.life = RequestTTL]]
  /\ UNCHANGED <<vars, authorized, tokens, cache, strayed>>

\* Mutant: all variants are immutable, so all are kept alike.
KeptAlike(access) == PublicTTL

Kept(access) == IF access = "private" THEN PrivateTTL ELSE PublicTTL

\* Mutant: an entry that is used is kept anew.
MatchAndKeep(r) ==
  LET m == requests[r].media  a == requests[r].access IN
  /\ requests[r].pc = "match"
  /\ IF cache[m][a].left > 0
     THEN Answer(r) /\ cache' = [cache EXCEPT ![m][a] = [@ EXCEPT !.left = Kept(a)]]
     ELSE /\ requests' = [requests EXCEPT ![r] = [@ EXCEPT !.pc = "origin"]]
          /\ UNCHANGED cache
  /\ UNCHANGED <<vars, authorized, tokens, strayed>>

(* The token is not part of the key; that one was verified is. *)
MatchCache(r) ==
  /\ requests[r].pc = "match"
  /\ IF cache[requests[r].media][requests[r].access].left > 0
     THEN Answer(r)
     ELSE requests' = [requests EXCEPT ![r] = [@ EXCEPT !.pc = "origin"]]
  /\ UNCHANGED <<vars, authorized, tokens, cache, strayed>>

\* Mutant: the origin leaves private media to the edge.
ServableToAll(a, access) == a.status \in {"ready", "orphaned"}

Servable(a, access) ==
  /\ a.status \in {"ready", "orphaned"}
  /\ a.access = "private" => access = "private"

(* The origin looks at the record and redirects to one generation. *)
Origin(r) ==
  LET m == requests[r].media IN
  /\ requests[r].pc = "origin"
  /\ IF Servable(assets[m], requests[r].access)
     THEN requests' = [requests EXCEPT ![r] =
                         [@ EXCEPT !.pc = "read", !.generation = assets[m].generation]]
     ELSE Answer(r)
  /\ UNCHANGED <<vars, authorized, tokens, cache, strayed>>

\* Mutant: the capability is for whatever is stored.
PinnedToNone(generation, o) == TRUE

Pinned(generation, o) == generation > 0 => o.generation = generation

ReadOriginal(r) ==
  LET o == objects[requests[r].media] IN
  /\ requests[r].pc = "read"
  /\ IF o.live /\ Pinned(requests[r].generation, o)
     THEN requests' = [requests EXCEPT ![r] = [@ EXCEPT !.pc = "store", !.content = o.content]]
     ELSE Answer(r)
  /\ UNCHANGED <<vars, authorized, tokens, cache, strayed>>

\* Mutant: any redirect is followed.
UsableIfAny(location) == location # "none"

(* Neither the bucket, the object nor its generation is looked at.         *)
Usable(location) == location = ReadHost

(* Something answers for the origin.  What is read where it redirects to   *)
(* may be any bytes, and none of the service's, so it is read at once.     *)
StrayRedirect(r) ==
  /\ requests[r].pc = "origin"
  /\ \E location \in StrayLocations :
       /\ strayed' = strayed \cup {m \in {requests[r].media} : location = ReadHost}
       /\ IF Usable(location)
          THEN \E c \in StrayContents :
                 requests' = [requests EXCEPT ![r] = [@ EXCEPT !.pc = "store", !.content = c]]
          ELSE Answer(r)
  /\ UNCHANGED <<vars, authorized, tokens, cache>>

StoreInCache(r) ==
  LET m == requests[r].media  a == requests[r].access IN
  /\ requests[r].pc = "store"
  /\ cache' = [cache EXCEPT ![m][a] = [left |-> Kept(a), content |-> requests[r].content]]
  /\ Answer(r)
  /\ UNCHANGED <<vars, authorized, tokens, strayed>>

-----------------------------------------------------------------------------
(* Environment *)

(* Any fetch may fail, and then the request ends. *)
FetchFails(r) ==
  /\ requests[r].pc # "idle"
  /\ Answer(r)
  /\ UNCHANGED <<vars, authorized, tokens, cache, strayed>>

(* The cache may drop what it likes. *)
Evict(m, a) ==
  /\ cache[m][a].left > 0
  /\ cache' = [cache EXCEPT ![m][a] = NoEntry]
  /\ UNCHANGED <<vars, authorized, tokens, requests, strayed>>

AgedEntry(e) == IF e.left > 1 THEN [e EXCEPT !.left = @ - 1] ELSE NoEntry
AgedRequest(q) == IF q.life > 1 THEN [q EXCEPT !.life = @ - 1] ELSE Done

EdgeTick ==
  /\ Tick
  /\ authorized' = [m \in MediaIDs |-> Less(authorized[m])]
  /\ tokens' = [m \in MediaIDs |-> Less(tokens[m])]
  /\ requests' = [r \in Requests |-> AgedRequest(requests[r])]
  /\ cache' = [m \in MediaIDs |-> [a \in AccessModes |-> AgedEntry(cache[m][a])]]
  /\ UNCHANGED strayed

ServiceStep ==
  /\ ClientStep \/ LinkStep \/ \E w \in Workers : UploadStep(w) \/ PurgeStep(w) \/ Crash(w)
  /\ UNCHANGED edgeVars

EdgeStep ==
  \/ \E m \in MediaIDs, s \in Slots : AuthorizeMediaAccess(m, s)
  \/ \E m \in MediaIDs : AccessToken(m)
  \/ \E m \in MediaIDs, a \in AccessModes : Evict(m, a)
  \/ \E r \in Requests :
       \/ \E m \in MediaIDs, a \in AccessModes : Fetch(r, m, a)
       \/ MatchCache(r) \/ Origin(r) \/ StrayRedirect(r) \/ ReadOriginal(r)
       \/ StoreInCache(r) \/ FetchFails(r)

EdgeNext == ServiceStep \/ EdgeStep \/ EdgeTick

EdgeSpec == EdgeInit /\ [][EdgeNext]_allVars

-----------------------------------------------------------------------------
(* Properties *)

EdgeTypeOK ==
  /\ TypeOK
  /\ authorized \in [MediaIDs -> 0..RequestTTL]
  /\ tokens \in [MediaIDs -> 0..TokenTTL]
  /\ requests \in [Requests -> Request]
  /\ \A r \in Requests : requests[r].pc # "idle" => requests[r].media \in MediaIDs
  /\ cache \in [MediaIDs -> [AccessModes -> Entry]]
  /\ strayed \subseteq MediaIDs

(* Bytes that a request without a verified token has read, or can find in  *)
(* the cache, are those of a public asset (routes.go:169, index.ts:54),    *)
(* until the Worker follows a redirect for it that is not the origin's.    *)
PublicDeliveryIsExplicit ==
  \A m \in MediaIDs \ strayed :
    \/ cache[m]["public"].left > 0
    \/ \E r \in Requests :
         requests[r].pc = "store" /\ requests[r].media = m /\ requests[r].access = "public"
    => assets[m].access = "public"

(* What the cache holds is what was inspected and recorded, although the   *)
(* object may be deleted and stored again between the origin's answer and  *)
(* the read (routes.go:179).  Of redirects that are not the origin's, only *)
(* one to the host of the bucket can end this (index.ts:82).               *)
CachedIsRecorded ==
  \A m \in MediaIDs \ strayed, a \in AccessModes :
    cache[m][a].left > 0 => cache[m][a].content = assets[m].sha

(* The holder of a valid token asks for an asset that is ready, whatever   *)
(* became of the link since (routes.go:140-144).                           *)
TokensAreServed == \A m \in MediaIDs : tokens[m] > 0 => assets[m].status = "ready"

(* No private entry outlives its asset: the cache forgets it before the    *)
(* asset can be purged, and a verified request is not overtaken by one.    *)
PrivateCacheIsLive ==
  \A m \in MediaIDs :
    \/ cache[m]["private"].left > 0
    \/ \E r \in Requests :
         requests[r].pc # "idle" /\ requests[r].media = m /\ requests[r].access = "private"
    => assets[m].status \in {"ready", "orphaned"}

=============================================================================
