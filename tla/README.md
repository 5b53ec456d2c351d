# A verification project for the shared media platform

The repository holds a small media platform: a Go backend that keeps image
records and their links in a DALgo database and the original images in a Google
Cloud Storage bucket, and a Cloudflare Worker that serves variants of them. This
directory holds TLA+ models of it, TLC instances that check them, and TLAPS
proofs. All line numbers are those of the files under `src/`; `service.go` is
`src/backend/facade4media/service.go`.

## 1. The system

| component | source | state it keeps | operations |
|---|---|---|---|
| media service | `backend/facade4media/service.go`, `backend/dbo4media` | `/media/{mediaID}` (status, access, declared type and size, hash, generation, two link counters, deadlines), `/media/{id}/links/{linkID}` (status, deadline) and, through a `TargetAdapter`, the forward reference in the target's own record | `BeginUpload`, `FinalizeUpload`, `Link`, `Unlink`, `Restore`, `PurgeExpiredLink`, `PurgeOrphan`, `PurgeStaleUpload`, `GetAsset` |
| Sweep | `service.go:575-637` | the copies of one sweep | two queries, then the three purge calls |
| originals bucket | `backend/blob4media` | one object for each media ID, with a generation | `BeginResumableUpload`, `InspectImage`, `BeginRead`, `Delete` |
| keys | `backend/dal4media/keys.go` | none | `MediaID` = hash of user and request ID, `LinkID` = hash of target and role |
| validation | `backend/dbo4media`, `Validate` methods of `service.go` | none | checks of single values |
| access tokens | `service.go:683-724` | none (a signed token with an expiry) | `AuthorizeMediaAccess`, `AccessToken` |
| HTTP API, origin | `backend/api4media/routes.go` | none | dispatch; `origin` checks the record and redirects to a signed, generation-pinned read |
| edge Worker | `edge/src/index.ts` | Cloudflare's cache, one entry for each variant and access | verify token, look in the cache, ask the origin, fetch, transform, store |

How they interact. A browser asks the service to begin an upload, sends the bytes
straight to the bucket with a signed URL, and asks the service to finalize, which
reads the object three times and then writes the record. Applications link a
finalized asset to a slot (a target and a role); the service changes the link
record, the counters of one or two assets and the target's reference in one
transaction. Removing a link keeps its record for a recovery window. A scheduled
sweep (the scheduler is not in the repository) drops expired link records, which
orphans assets, and purges orphans and abandoned uploads: claim the asset in a
transaction, delete the object, record the end in another transaction, or undo
the claim if the delete failed. The edge reads
through the origin: it asks the origin for a redirect to one generation of the
object, reads that, transforms it, and keeps the result for five minutes (private)
or a year (public). A user with an active link gets a token for private media.

What is hard: a purge is a saga over two systems with no lock but a status;
`FinalizeUpload` reads, works for a long time, and writes the whole record back;
the counters are redundant with the links; a sweep works from copies; anything may
crash anywhere; transactions may be run more than once; tokens and cache entries
outlive the grant they came from. The hazards, each at its
line and with the properties aimed at it, are listed in `PROJECT.json`.

What makes each component correct:

- the graph: counters equal links, references equal active links, only ready
  assets have links, removals stay recoverable, ended assets stay ended;
- the bytes: what may be served is what was inspected; bytes are deleted only when
  no link, active or recoverable, needs them; one purge at a time;
- the sweep: what is due goes in the end, and sweeping at any time does no harm;
- the edge: private bytes are never delivered, nor cached for delivery, without a
  verified grant, cached bytes are the recorded ones, and what is private ends in
  bounded time when its link does;
- all together: a reader is shown one fixed picture or nothing, and an image whose last
  link is removed goes from the records, the bucket, the cache and the browsers.

## 2. The modules

| module | what it is |
|---|---|
| `MediaPromise` | abstract: what the service promises whoever looks at its images |
| `MediaService` | the service, the database and the bucket; implements `MediaPromise` |
| `MediaSweep` | `MediaService` with sweeps that run beside its clients, and fairness |
| `MediaEdge` | `MediaService` with its readers: tokens, the origin, the Worker and its cache |
| `EdgeWorker` | `MediaEdge` with the rest of the Worker: HEAD, its answers and the browsers that keep them |
| `MediaPlatform` | `MediaSweep` and `EdgeWorker` beside one service, and fairness |
| `MCMediaService`, `MCMediaSweep`, `MCEdgeWorker`, `MCMediaPlatform` | constants and symmetry for TLC |
| `MediaService_proofs` | type correctness |
| `MediaGraph_proofs` | the link graph: the invariant `GraphInv` and what follows |
| `MediaBytes_proofs` | the bytes: the invariants `PinInv`, `OwnInv`, `BytesInv` and what follows |
| `MediaPromise_proofs` | the service keeps its promise |
| `MediaSweep_proofs` | sweeps implement the service, and what carries over |
| `MediaEdge_proofs` | readers implement the service; types and the windows of time |
| `MediaDelivery_proofs` | which bytes reach the cache and the readers, and under which access |
| `MediaPlatform_proofs` | the Worker implements the edge; what browsers keep and for how long; the platform implements both its parts |

Every proof module extends the module it is about and the proof modules it builds
on: `MediaService_proofs`, `MediaGraph_proofs`, `MediaBytes_proofs`, then
`MediaPromise_proofs`, `MediaSweep_proofs`, and `MediaEdge_proofs`,
`MediaDelivery_proofs` side by side, and `MediaPlatform_proofs` over all of them.

### MediaPromise

`pictures[m]` is what a reader finds of an image: nothing yet, a picture with its
content, nothing for a while, nothing for good. `holders[m]` are the slots with a link
record. Its steps are `Show`, `Hold`, `Release`, `Hide`, `Reappear` and `Vanish`: only a
shown picture can be held, a held one cannot be hidden, and a hidden one comes back with
the same content or never. There are no uploads, transactions, workers or time in it.
`MayLose` is the one weakness it allows: then a hidden picture may lose its content
(`Lose`), come back without it and never get another one, or appear without content in
the first place. A picture that is shown keeps its content in both promises.

`MediaService` implements it under the mapping `Picture`: a ready or orphaned record
shows *what the bucket holds*, not what the record says, so the mapping is
where bytes that vanish or change under a record would show; a purging one with a hash
is hidden; a deleted or failed one is gone; everything else is nothing yet. `MayLose` is
`AmbiguousDelete`: a delete that works and reports an error leads to a rollback
(`service.go:533-536`) that shows an image without bytes.

### MediaService

| variable | in the code |
|---|---|
| `assets[m]` | the `MediaAsset` record; `status = "absent"` is a missing record |
| `links[m][s]` | the `MediaLink` record of asset `m` for slot `s`; `"none"` is a missing record |
| `refs[s]` | what `TargetAdapter.Current` answers for slot `s` |
| `objects[m]` | the object `originals/{mediaID}`: live, generation, content |
| `promised[m]` | the accesses asked for by the `BeginUpload` calls that returned an upload URL |
| `calls[w]` | the local variables and the program counter of a call of several steps |

Each transaction is one atomic step, so `Link`, `Unlink`, `Restore` and
`PurgeExpiredLink` are one action each, with the early returns that change nothing
left out. `FinalizeUpload` is `FinalizeUpload` (the read, 215), `ReadAttrs`,
`HashObject`, `DecodeObject` (the three reads of `InspectImage`, with the checks of
227-236 in the last one) and `CommitFinalize` (242). `PurgeOrphan` and
`PurgeStaleUpload` are `Claim`, `DeleteObject` or `DeleteFails`, and `Complete` or
`Rollback`. `ClaimAborted` and `ClaimLeaked` are a run of the claiming body that
was not committed and a later one that finds nothing to claim: the variable
`claimed` lives outside the body (518, 642). `Crash` ends a call at any point; it
also stands for a failed database call and for a cancelled request.

Abstractions, and why they keep what the properties tell apart:

- Users. A media ID is a hash of user and request ID, so two users never share a
  record, and the checks of `CreatedBy` always compare a user with itself or end
  the call. Authorisation of a target either ends a call or changes nothing.
- Time. A deadline is the time left until it; `Tick` lowers all of them, the ones
  in a worker's copies included, so all processes read one clock.
- Contents. A content is a model value with a declared type and size (`ShapeOf`)
  that may or may not decode as a picture (`Images`); it stands for its own hash.
- The bucket. The signer of upload URLs may create objects and not replace them
  (`README.md:33-35` of the repository grants it `objectCreator`), so `PutObject`
  needs a missing object. An upload URL only opens a session, so a client may store
  bytes at any later time: `PutObject` has no deadline.
- Crops, file names, creation times and the `Retention` of a link are left out:
  nothing in the code decides by them.

Environment, as constants: `Retries` (may the database run a body again?) and
`AmbiguousDelete` (may a delete take effect and still report an error?).

### MediaSweep

`sweeps[w]` holds what a running `Sweep` remembers: the assets it still has to
visit, the records as the query returned them (`snapshot`), the links of the asset
it is at (`found`), those it has not looked at yet, and the assets it counted as
mismatches (`drift`). The query's order is the constant `Rank`: a sweep takes the first
`Limit` assets and visits them in that order, `media` being the one it is at. Every database access is a step: `Sweep`, `QueryLinks`,
`SweepLink`, `SweepAsset` (the claim), `SweepDelete`/`SweepPurge` (the rest of the
purge). A purge that fails ends the sweep. Whether something is due is read off the
copies; the calls look again. A sweeper makes its purge through the worker of the
same name; workers outside `Sweepers` finalize uploads. Transaction bodies run once
in this module (`Retries` is FALSE in its instances); repeated bodies are the
subject of `MediaService`.

Fairness: time passes; sweeps are started again and again and a started one takes
its steps (WF); a delete that is tried infinitely often succeeds infinitely often
(SF on `SweepDelete`). Nothing in the repository schedules `Sweep`, so the first two
are what a deployment has to provide; nothing else in the code deletes. Clients
have no fairness: no liveness property relies on a client.

### MediaEdge

| variable | in the code |
|---|---|
| `authorized[m]` | the time left to sign a token for the last caller that passed `AuthorizeMediaAccess` (`routes.go:140`) and has not reached `AccessToken` (144) yet |
| `tokens[m]` | the time left of the last token that was signed |
| `requests[r]` | the local variables of one call of the Worker's `fetch` and of the origin it calls, with a program counter and the time the platform still gives it |
| `cache[m][a]` | the entry of Cloudflare's cache for one media and one access, with its time left |
| `strayed` | nothing: the media for which a redirect to the bucket's host was followed that the origin did not issue; no step looks at it, only properties do |

The steps of a request are `Fetch` (parsing and `verifyToken`), `MatchCache`
(`index.ts:55`), `Origin` (`routes.go:148-186`: the record, the redirect pinned to one
generation), `ReadOriginal` (the read at 85) and `StoreInCache` (the transformation, the
put and the answer). Everything the service does, and time, may happen between two of
them. `FetchFails` ends a request anywhere; `Evict` is the cache's own right.

`StrayRedirect` is an answer to the Worker's request that is not of the origin's handler (a
proxy's, an error page's). `Usable` is the check of `Location` at 82: the scheme and the
host, and nothing else, so `Location` is none, elsewhere or on `storage.googleapis.com`
(`StrayLocations`). The first two end the request. The last is followed whatever bucket,
object and generation it names, and any bytes (`StrayContents`) become those of the media
that was asked for, are stored for up to a year and handed on. The code cannot tell them
from the origin's, so what is said of contents and access at the edge is said of media
that have not `strayed`; that none of the other answers does any harm, and that a strayed
one harms no other media, is part of the properties.

Abstractions:

- A token is the time it is valid for. The Worker checks signature, audience, media and
  expiry (`index.ts:33`) and nothing else a token says. Many tokens and callers may be
  about; the latest can do all that an earlier one can, so one number for each media
  is enough.
- Variants never share a cache entry and are made from the same original: there is one.
- The read capability lives for two minutes (`routes.go:179`). Its expiry can only make
  a read fail, which `FetchFails` does at any time.
- `RequestTTL` bounds how long the code of one request runs: no line of the repository
  does, but the platforms that run it do, in seconds or minutes.
- The shared secret of the origin and routing change no state.
- What `MediaEdge` leaves out of the Worker is in `EdgeWorker`.

`WindowAssumption` relates the lifetimes: a request and a token together (15 minutes and
the request) last no longer than the recovery window (7 days), a request and a private
cache entry (5 minutes) no longer than the orphan grace period (30 days).
`LifetimeAssumption` has private entries live no longer than public ones (5 minutes, a year).

A public variant stays cached for a year by design, whatever becomes of its asset:
`PrivateCacheIsLive` is about private entries only.

### EdgeWorker

| variable | in the code |
|---|---|
| `methods[r]` | `request.method` of the call `r`, `"none"` when it is over |
| `copies[m][control]` | the newest answer a browser keeps, for each media and each of the two `Cache-Control` headers the Worker sends (`index.ts:53`), with its time left |

Its steps are those of `MediaEdge` with what they add: `WorkerFetch` chooses a method,
`WorkerMatch` and `WorkerStore` answer through `ClientResponse`, which a browser may keep
when there is a body. `HeadOrigin` is the whole of lines 58-74: the origin answers HEAD
from the record, or refuses it (its route is registered for GET only,
`routes.go:55`), and the edge passes on the status; a HEAD never gets to a redirect.

A browser's copy is the newest one: all answers under one header have the same
lifetime, so the newest outlives the others, and `CopiesAreRecorded` holds of every copy
at the time it is made. Browsers may drop what they keep, which adds nothing to what can
be said of what they hold: copies only lapse here.

### MediaPlatform

The conjunction of the two: `SweepInit /\ WorkerInit`, users, sweeps and readers
interleaved, and one clock, `PlatformTick`, that ages what all of them hold. Users of
this module are those of `MediaSweep`, who do not purge: purging is what sweeps do.

Fairness is that of `MediaSweep`, and that time passes for readers too
(`WF` on `PlatformTick`). Readers owe nothing: they may ask for ever, never, or stop at
any point, and neither cache nor browser has to drop anything early.

## 3. The runs

| run | what it asks | answer |
|---|---|---|
| `graph` | two assets, two slots: do counters, links and references agree, and are removals recoverable, with re-run bodies and ambiguous deletes allowed? | yes |
| `upload` | one asset, three workers, three contents (two pictures of different size, one undecodable), two generations: is what is served what was inspected, are purges exclusive and harmless, is metadata frozen, are ends final however late a finalizer, a rollback or a link comes, and do all steps keep the promise of `MediaPromise`? | yes |
| `reclaim` | two assets: are expired links, orphans and abandoned uploads reclaimed, though deletes fail; and is every step of a sweep a step of the service? | yes |
| `sweep_races` | two sweeps that may die, one finalizer, users who store again after a delete, deletes that work and report an error: do stale copies or a second sweep do harm, can a recorded generation come to mean other bytes, or is the promise that allows loss broken? | no |
| `delivery` | readers by GET and HEAD, with and without tokens, beside a service that links, removes, purges and stores again, and answers that are not the origin's: is what is cached and kept recorded, allowed, labelled as it may be shared, alive if private, and does private access end after the link does? | yes, but for media that strayed |
| `platform` | sweeps and a reader beside one service: is an unlinked image linked again or gone for good from the bucket, the cache and the browsers, though bytes may be stored anew, and does what was delivered fade within `Longest` once the origin refuses? | yes |
| `retried_claim` | is what a link needs kept, if the body of a claiming transaction is run again? | linked bytes are deleted |
| `changed_access` | does a retried `BeginUpload` give the access it was asked for? | no |
| `never_linked` | is an asset without links orphaned? | not if it never had one |
| `interrupted_purge` | does a purge end if the process died? | no |
| `beyond_limit` | are orphans found when there are more records than a query returns? | no |
| `false_drift` | is reported drift real? | no |

The six violations are described, with the sentence of the repository they
disagree with, under `findings` in `PROJECT.json`.

Bounds. Two assets are what one `Link` can change; two slots let one asset have an
active link, a recoverable one and none in every combination. `Recovery = 2` in
`graph` makes a window that has begun to run out differ from a new one. Three
workers let a finalizer race a purge and another finalizer. `MaxGeneration = 2`
lets an object be deleted and stored again once, which is what a read that is not
pinned to a generation could mix up. Deadlines of 1 make "not yet" and "due" both
happen. In the liveness runs `MaxGeneration = 1`, one slot and two records keep the
state graph small; every obstacle a sweep meets (a failing asset before it, a
record beyond the limit, a restore in between) needs no more.

In `sweep_races` one slot is enough for what sweeps and users can do to one link, and
two pictures with two generations let a delete that worked, but was reported as failed,
be followed by other bytes under the same name while the record is servable again; two
slots are covered by `graph` and by the theorems, which hold for any number.
`KeepsPromise` is there the promise with `MayLose`; `upload` checks the one without.

In `delivery` the windows keep the proportions that `WindowAssumption` asks for and no
more room than that: `RequestTTL + TokenTTL = Recovery = 4` and `RequestTTL + PrivateTTL =
OrphanGrace = 3`, with requests and tokens that live for 2, so that either may be
overtaken by a tick. The four lifetimes of `RevocationIsBounded` sum to
`AfterAuthorizing = 3 < Recovery`: something granted for `n` is seen for `n - 1` ticks, so
the bound is exact, not the sum of the lifetimes. Private entries live for 1 and end
before the recovery window does, so that one of them overlaps an *orphaned* asset is left
to the theorem `PrivateCacheStaysLive`. `PublicTTL = 6` outlives the recovery window and
is still there when the asset is orphaned. Two generations let other bytes be stored
between the origin's answer and the read, and one foreign content stands for whatever a
stray redirect may bring. The edge works on one request at a time: requests share nothing
but the cache, and what one of them stores the next one, with another token and method,
finds. The theorems are about any number at once. Deletes are unambiguous here, which the
theorems do not need: `CachedIsRecorded` and `CopiesAreRecorded` are proved for bodies
that run once, the others in any case.

In `platform` one reader is enough: what it keeps asking for refreshes entries and
copies up to the last moment the record allows. Two generations let users store bytes
again while a purge runs and after it: then the bucket has an object that nobody
recorded, which `OutOfReach` allows and which the origin never redirects to. One media,
one slot, one content and windows of 1 and 2 keep the liveness check within minutes; with
`RequestTTL = 1` no request outlives a tick in it, and `DeliveriesFade` covers those that
do. `PublicTTL = 2` makes `Longest = 3`, so an entry can be read in its last moment by a
request whose answer is then kept as long again, which is the worst case `FadesInTime`
counts. Stray redirects are left out of it, since they may bring anything back at any time. Symmetry is used
in the safety runs only. Every state has a `Tick`, so nothing deadlocks.

## 4. The proofs

Proved by TLAPS for all values of the constants under the named assumptions of the
modules (finitely many slots, positive windows, sentinels outside the sets; for readers
the lifetimes of `MediaEdge`). Three environments are told apart:

- *hostile*: any `Retries`, any `AmbiguousDelete`; nothing more is assumed;
- `RunsOnce == ~Retries`: a transaction's body is not run again. The run `retried_claim`
  shows why: `claimed` lives outside the body, so two purges may own one asset;
- `Honest == ~Retries /\ ~AmbiguousDelete`: moreover a delete that reports an error has
  deleted nothing. Otherwise an orphan may be servable without bytes.

### The service

1. `TypeCorrect`: `Spec => []TypeOK` (hostile).
2. `CountsAreExact`, `ReferencesAgree`, `LinkedAssetsAreReady`, and the action
   properties `RemovalsAreRecoverable`, `EndsAreFinal`, `MetadataStaysFrozen` (hostile).
   The properties are not inductive alone: that a finalizer's old copy does no harm
   needs to know that assets which are not finalized have no link records, so the
   counters in such a copy are zero. `GraphInv` adds this.
3. The bytes, in three layers, each used where no more is needed.
   - `PinInv` (hostile): a record with a generation has the content of that generation if
     it is still there, and a finalizer's copies do so before they are committed.
     Generations only grow, so one that is gone never names bytes again:
     `PinnedStaysRecorded`.
   - `OwnInv` (`RunsOnce`, theorem `OwnInvariant`): a worker past its claim owns the
     asset, which is purging, has no link record, and is of the kind it claimed; records
     fit their status (only finalized ones have a hash). From it `PurgesAreExclusive` and
     `BytesOutliveTheirLinks`. Neither needs honest deletes, because a rollback
     after a delete that worked returns the asset to `orphaned`, without links.
   - `BytesInv` (`Honest`, theorem `BytesInvariant`): as long as an asset is uploading
     nobody has deleted its object, so the three reads of a finalizer saw one object, and
     an orphan somebody holds for purging is whole until it is deleted. From it
     `ServedMediaIsIntact`.
4. `PromiseIsKept` (`RunsOnce`): `Spec => KeepsPromise`. Every action of the service is a
   step of `MediaPromise` or none. `PromiseInv` is `OwnInv`, and `BytesInv` where deletes
   are honest: there the promise is the strict one; with ambiguous deletes it is the one
   with `MayLose`, where a lost picture may not be replaced by another, which is
   `PinInv`'s part.

### The sweeps

5. `SweepsImplementService`: `SweepSpec => Spec`. A sweep's own steps read; its writes
   are the actions of the service, which look at the database again. So every theorem
   above holds under sweeps: `SweepsKeepReferences`, `SweepsPurgeAlone`,
   `SweepsKeepLinkedBytes` (the last two under `RunsOnce`).

### The readers

6. `EdgeImplementsService`, `WorkerImplementsEdge`: `WorkerSpec => EdgeSpec => Spec`.
   Readers change nothing of the service; HEAD requests and what browsers keep add nothing
   to what the edge does. What follows about contents and access is said of media that
   have not strayed; strays never end (`StrayedStep`), so each holds until that moment.
   `WorkerTypeCorrect`: no request, entry or copy is ever kept longer than granted.
7. `TokensAreAlwaysServed` and `PrivateCacheStaysLive` (hostile), from `WindowAssumption`.
   The invariant `WindowInv` compares clocks: whoever may still sign has a link, active or
   recoverable, that lasts his own time and a token's; a token's holder one that lasts
   the token's time; a verified request an asset that is ready, or orphaned for at
   least the request's time and a private entry's; an entry likewise. A step of the
   service may only lengthen what they wait on, and `Tick` takes one from both sides.
8. `PublicDeliveryStaysExplicit`, `SharedStaysPublic` (hostile): the access of a record
   never changes once it exists, although a finalizer writes a whole record back, because
   its copy has the same access (`CopiesAgree`); so what the origin saw stays true of
   what is cached and of what browsers keep.
9. `CacheIsOfRecord`, `CopiesAreOfRecord` (`RunsOnce`): a request that was redirected to a
   generation reads that one or none, and by `PinInv` that one is the recorded content.
   `ReadersSeeOnePicture` (`RunsOnce`) says what this means for readers: once the cache or
   a browser delivers `c` as `m`, nothing else is ever delivered as `m`.
10. `RevocationStaysBounded` (hostile), assuming `AfterAuthorizing < Recovery` (which the
   code's values, under half an hour against seven days, satisfy by far). `RevocationInv`
   gives everything that was granted an age: whoever may sign has seen an active link at
   most so long ago as his time has run, a token's holder that and the token's age, a
   verified request that and its own, a copy that and its own. A link that was active then
   is active now or has at least the rest of its recovery window left, which is how the
   invariant remembers the moment of removal without a history variable.
11. `DeliveriesFade` (hostile): `WorkerSpec => FadesInTime`. `GoneBy(m, n)` is a bound on
   everything of `m` that can still be found: a copy lives its time, an entry may be
   handed to one more browser in its last moment, a request with a capability may make
   one more entry. Nothing hands time back, so outside the origin's consent the bound
   holds on and every tick lowers it. It is not inductive alone: what a
   request runs and an entry lives must be within what they were granted (`LifeInv`).

### All together

12. `PlatformSweeps`, `PlatformServes`: the platform implements `SweepSpec` and
   `WorkerSpec`; so everything above holds of it. `PlatformKeepsPromise` (`RunsOnce`) and
   `PlatformKeepsPins` (hostile) spell out two of these.
13. `GoneIsForGood` (`RunsOnce`): once an asset is deleted and its last copy has lapsed, it
   is out of every reader's reach for ever or until a stray redirect for it is followed: no
   grant, no entry, no copy, and what the bucket may hold under its name has another
   generation than was recorded. The last is `PurgedInv`: a purge that ends has removed the
   recorded generation or found it gone, and generations only grow. With `DeliveriesFade`
   this is the safety half of `UnlinkedVanishes`: TLC shows that the purge comes, the
   theorems that from then on at most `Longest` ticks are left, and that the end is one.

### What the violations rest on

A counterexample of TLC shows that something can go wrong once. These theorems say how
far each goes:

14. `AbandonedPurgesLeak` and, under sweeps, `SweepsPassTheAbandoned` (hostile; behind
   `interrupted_purge`) are no promises but the measure of a gap: an asset that is purging,
   deleted or failed and that no worker purges keeps its status, and nobody deletes bytes
   stored for it, whatever follows. The feature asks for the contrary
   (`spec/features/shared-media-platform/README.md:112-113`).
15. `NeverLinkedIsKept` (hostile; behind `never_linked`): a ready asset without link
   records stays ready.
16. `NothingPastTheLimitGoes` (hostile; behind `beyond_limit`): as long as no sweep holds
   it from earlier, an asset with `Limit` records before it keeps its links' records, its
   bytes and its status as far as a purge could end them. Records are never removed, so
   those before it do not become fewer; that needs counting, hence
   `IsFiniteSet(MediaIDs)`, which IDs of bounded length satisfy.
17. `NoDriftToReport` (hostile; behind `false_drift`): counters match the links in every
   state, so whatever a sweep reports is a difference between two moments.
18. `FirstAccessStays` (hostile; behind `changed_access`): the access of a record that
   exists never changes.

TLC checked the invariants on the instances of the runs: `GraphInv` and `PinInv` on
`graph`, `BytesInv` on `upload`, `OwnInv` on `sweep_races`, `WindowInv`, `SharedInv`,
`RecordedInv`, `RevocationInv`, `LifeInv` and `PurgedInv` on `platform` with stray redirects
added, and `PastLimitIsKept` on `beyond_limit` with crashes.

Only model-checked: liveness (`reclaim`, the other half of `UnlinkedVanishes` in
`platform`), which is out of the prover's reach, and the six violations. Nothing in the
project needs induction over data.

## 5. Not modelled, and the plan

Not modelled: HTTP decoding and routing, request validation, signing, the
result counters of `Sweep` other than drift, logging, hash collisions, the names and
sizes of variants, infrastructure. They are stateless, or no property could tell their
outcomes apart.

Of ambiguous deletes `MediaPromise` is claimed with `MayLose` only: an orphan whose bytes
went while the delete reported an error is shown as nothing until the next sweep, or for
good if it is linked first. Of bodies that are run again it is not claimed at all:
`retried_claim` is the reason. What remains true then is what is marked hostile above.

Two places where the code and its feature part are stated here and have no run.
(1) Bytes stored with an upload URL after the purge of the stale upload are never
reclaimed (`service.go:656`; `AbandonedPurgesLeak` is the proof), although the feature's
README:112-113 wants abandoned uploads to be found by an idempotent cleanup. It is the other
side of `interrupted_purge`: nothing visits a record that is purging, failed or deleted.
(2) The feature's README:42-43 has the edge check user and Space scope, while `verifyToken`
(`index.ts:33`) checks audience, media and expiry. The model has no users: whoever holds a
token for a media may use it, as in the code.

Order of work: (1) `MediaService` and its proofs; (2) `MediaSweep`; (3) the theorem that
sweeps implement the service; (4) `MediaEdge` and its safety theorems; (5) `MediaPromise`
and the refinement; (6) `EdgeWorker`; (7) `MediaPlatform`, its liveness and its theorems;
(8) theorems that rest on no more than they need, what fades, and what the violations
rest on; all done. What could follow: the expiry of upload capabilities; several variants
with their own entries, to see them disagree after an eviction; the inductive invariants
as invariants of runs of their own, where a bound makes them cheap to evaluate.
