----------------------------- MODULE MediaSweep -----------------------------
(* Sweep (service.go:577) run again and again beside the clients of the    *)
(* media service.  It reads the first records of the collection once, then *)
(* the links of one asset after the other, and purges what those copies    *)
(* say is due; the calls it makes look at the database again.              *)
EXTENDS MediaService

CONSTANTS
  Sweepers,    \* the workers that sweep; the others finalize uploads
  Rank,        \* the order in which a query returns the records
  Limit,       \* how many records one query returns
  Crashes      \* may a process die, or its database calls fail?

ASSUME SweepersAssumption == Sweepers \subseteq Workers
ASSUME QueryAssumption ==
  Rank \in [MediaIDs -> Nat] /\ Limit \in Nat \ {0} /\ Crashes \in BOOLEAN

VARIABLE sweeps  \* where each sweep is, and the copies it works from

sweepVars == <<vars, sweeps>>

SweepState ==
  [pc : {"idle", "asset", "links", "purge"},
   queue : SUBSET MediaIDs,         \* assets still to visit
   media : MediaIDs \cup {NoMedia}, \* the asset being visited
   snapshot : [MediaIDs -> Asset],  \* as the query returned them
   found : [Slots -> MediaLink],    \* the links of the asset being visited
   unseen : SUBSET Slots,           \* of those, the ones still to look at
   drift : SUBSET MediaIDs]         \* RefCountMismatches, by asset

Asleep ==
  [pc |-> "idle", queue |-> {}, media |-> NoMedia, snapshot |-> [m \in MediaIDs |-> Absent],
   found |-> [s \in Slots |-> NoLink], unseen |-> {}, drift |-> {}]

SweepInit == Init /\ sweeps = [w \in Sweepers |-> Asleep]

-----------------------------------------------------------------------------
(* One sweep *)

(* The query is neither filtered nor continued: every record ever inserted *)
(* counts against the limit.                                               *)
Queried(k) ==
  LET existing == {m \in MediaIDs : assets[m].status # "absent"} IN
  {m \in existing : Cardinality({x \in existing : Rank[x] < Rank[m]}) < k}

Sweep(w) ==
  /\ sweeps[w].pc = "idle"
  /\ sweeps' = [sweeps EXCEPT ![w] =
       [Asleep EXCEPT !.pc = "asset", !.queue = Queried(Limit), !.snapshot = assets]]
  /\ UNCHANGED vars

EndSweep(w) ==
  /\ sweeps[w].pc = "asset"
  /\ sweeps[w].queue = {}
  /\ sweeps' = [sweeps EXCEPT ![w] = Asleep]
  /\ UNCHANGED vars

\* Mutant: only the active links are asked for.
QueryActiveLinks(w) ==
  /\ sweeps[w].pc = "asset"
  /\ \E m \in sweeps[w].queue :
       /\ \A x \in sweeps[w].queue : Rank[m] <= Rank[x]
       /\ sweeps' = [sweeps EXCEPT ![w] = [@ EXCEPT !.pc = "links", !.media = m,
                        !.queue = sweeps[w].queue \ {m}, !.found = links[m], !.unseen = Active(m)]]
  /\ UNCHANGED vars

QueryLinks(w) ==
  /\ sweeps[w].pc = "asset"
  /\ \E m \in sweeps[w].queue :
       /\ \A x \in sweeps[w].queue : Rank[m] <= Rank[x]
       /\ sweeps' = [sweeps EXCEPT ![w] = [@ EXCEPT !.pc = "links", !.media = m,
                        !.queue = sweeps[w].queue \ {m}, !.found = links[m], !.unseen = Recorded(m)]]
  /\ UNCHANGED vars

Expired(l) == l.status = "deleted" /\ l.left = 0

\* Mutant: the copy is trusted, and the link dropped without another look.
SweepLinkBlindly(w, s) ==
  LET m == sweeps[w].media IN
  /\ sweeps[w].pc = "links"
  /\ s \in sweeps[w].unseen
  /\ IF Expired(sweeps[w].found[s])
     THEN /\ links' = [links EXCEPT ![m][s] = NoLink]
          /\ assets' = [assets EXCEPT ![m] = Dropped(@)]
          /\ UNCHANGED <<refs, objects, promised, calls>>
     ELSE UNCHANGED vars
  /\ sweeps' = [sweeps EXCEPT ![w] = [@ EXCEPT !.unseen = sweeps[w].unseen \ {s}]]

(* A link that was expired when it was read; it may have been restored or  *)
(* purged since, and then PurgeExpiredLink does nothing.                   *)
SweepLink(w, s) ==
  LET m == sweeps[w].media IN
  /\ sweeps[w].pc = "links"
  /\ s \in sweeps[w].unseen
  /\ IF Expired(sweeps[w].found[s]) /\ Expired(links[m][s])
     THEN PurgeExpiredLink(m, s)
     ELSE UNCHANGED vars
  /\ sweeps' = [sweeps EXCEPT ![w] = [@ EXCEPT !.unseen = sweeps[w].unseen \ {s}]]

Matching(a, f) ==
  /\ a.refCount = Cardinality({s \in Slots : f[s].status = "active"})
  /\ a.durableRefCount = Cardinality({s \in Slots : f[s].status # "none"})

NextAsset(sweep) == [sweep EXCEPT !.pc = "asset"]

WithDrift(sweep, m) ==
  IF Matching(sweep.snapshot[m], sweep.found)
  THEN sweep ELSE [sweep EXCEPT !.drift = sweep.drift \cup {m}]

Due(kind, a) ==
  IF kind = "orphan" THEN a.status = "orphaned" /\ a.purgeLeft = 0
                     ELSE a.status = "uploading" /\ a.uploadLeft = 0

\* Mutant: the copy is trusted, and the asset claimed without another look.
SweepAssetBlindly(w) ==
  LET m == sweeps[w].media
      seen == sweeps[w].snapshot[m]
  IN
  /\ sweeps[w].pc = "links"
  /\ sweeps[w].unseen = {}
  /\ \/ \E kind \in PurgeKinds :
          /\ Due(kind, seen)
          /\ assets' = [assets EXCEPT ![m] = Claimed(seen)]
          /\ calls' = [calls EXCEPT ![w] = Purging("delete", m, kind, Claimed(seen))]
          /\ sweeps' = [sweeps EXCEPT ![w] = [WithDrift(sweeps[w], m) EXCEPT !.pc = "purge"]]
     \/ /\ \A kind \in PurgeKinds : ~Due(kind, seen)
        /\ sweeps' = [sweeps EXCEPT ![w] = NextAsset(WithDrift(sweeps[w], m))]
        /\ UNCHANGED <<assets, calls>>
  /\ UNCHANGED <<links, refs, objects, promised>>

(* Whether to purge is read off the copy; the claim reads the record.      *)
SweepAsset(w) ==
  LET m == sweeps[w].media
      seen == sweeps[w].snapshot[m]
  IN
  /\ sweeps[w].pc = "links"
  /\ sweeps[w].unseen = {}
  /\ \/ \E kind \in PurgeKinds :
          /\ Due(kind, seen)
          /\ Claim(w, m, kind)
          /\ sweeps' = [sweeps EXCEPT ![w] = [WithDrift(sweeps[w], m) EXCEPT !.pc = "purge"]]
     \/ /\ \A kind \in PurgeKinds : ~(Due(kind, seen) /\ Claimable(kind, assets[m]))
        /\ sweeps' = [sweeps EXCEPT ![w] = NextAsset(WithDrift(sweeps[w], m))]
        /\ UNCHANGED vars

(* A purge that fails ends the sweep. *)
SweepPurge(w) ==
  /\ sweeps[w].pc = "purge"
  /\ \/ DeleteFails(w) /\ UNCHANGED sweeps
     \/ Rollback(w) /\ sweeps' = [sweeps EXCEPT ![w] = Asleep]
     \/ /\ Complete(w)
        /\ sweeps' = [sweeps EXCEPT ![w] =
             IF Completable(calls[w].kind, assets[calls[w].media])
             THEN NextAsset(sweeps[w]) ELSE Asleep]

SweepDelete(w) == sweeps[w].pc = "purge" /\ DeleteObject(w) /\ UNCHANGED sweeps

SweepStep(w) ==
  \/ EndSweep(w) \/ QueryLinks(w) \/ SweepAsset(w) \/ SweepPurge(w)
  \/ \E s \in Slots : SweepLink(w, s)

SweepDies(w) ==
  /\ Crashes
  /\ sweeps[w].pc # "idle"
  /\ Crash(w) \/ (calls[w].pc = "idle" /\ UNCHANGED vars)
  /\ sweeps' = [sweeps EXCEPT ![w] = Asleep]

-----------------------------------------------------------------------------
(* The clients, the clock, and the whole *)

UserStep ==
  \/ ClientStep
  \/ \E m \in MediaIDs, s \in Slots : Link(m, s) \/ Restore(m, s)
  \/ \E s \in Slots : Unlink(s)
  \/ \E w \in Workers \ Sweepers : UploadStep(w) \/ (Crashes /\ Crash(w))

AgedSweep(sweep) ==
  [sweep EXCEPT !.snapshot = [m \in MediaIDs |-> AgedAsset(sweep.snapshot[m])],
                !.found = [s \in Slots |-> AgedLink(sweep.found[s])]]

SweepTick == Tick /\ sweeps' = [w \in Sweepers |-> AgedSweep(sweeps[w])]

SweepNext ==
  \/ UserStep /\ UNCHANGED sweeps
  \/ \E w \in Sweepers : Sweep(w) \/ SweepStep(w) \/ SweepDelete(w) \/ SweepDies(w)
  \/ SweepTick

(* Sweeps are scheduled for ever and go on while they live, time passes,   *)
(* and a delete that is tried again and again succeeds at last.            *)
Fairness ==
  /\ WF_sweepVars(SweepTick)
  /\ \A w \in Sweepers : /\ WF_sweepVars(Sweep(w))
                         /\ WF_sweepVars(SweepStep(w) \/ SweepDelete(w))
                         /\ SF_sweepVars(SweepDelete(w))

SweepSpec == SweepInit /\ [][SweepNext]_sweepVars
FairSweepSpec == SweepSpec /\ Fairness

-----------------------------------------------------------------------------
(* Properties *)

SweepTypeOK == TypeOK /\ sweeps \in [Sweepers -> SweepState]

(* A soft-deleted link is restored, linked again or dropped in the end.    *)
ExpiredLinksGo ==
  \A m \in MediaIDs, s \in Slots :
    links[m][s].status = "deleted" ~> links[m][s].status # "deleted"

(* An orphan is linked again or deleted in the end, however often deleting *)
(* fails and whatever the sweep works on before it.                        *)
OrphansGo ==
  \A m \in MediaIDs : assets[m].status = "orphaned" ~> assets[m].status \in {"ready", "deleted"}

(* An upload is finalized or given up in the end. *)
UploadsEnd ==
  \A m \in MediaIDs : assets[m].status = "uploading" ~> assets[m].status \in {"ready", "failed"}

(* An asset that nothing links, or could be restored to, is marked an      *)
(* orphan or linked.                                                       *)
UnlinkedIsOrphaned ==
  \A m \in MediaIDs :
    assets[m].status = "ready" /\ Recorded(m) = {} ~>
      assets[m].status # "ready" \/ Recorded(m) # {}

(* A cleanup that was interrupted is done again. *)
PurgesEnd ==
  \A m \in MediaIDs : assets[m].status = "purging" ~> assets[m].status # "purging"

(* Drift is reported only of an asset whose counters are wrong. *)
DriftIsReal ==
  [][\A w \in Sweepers, m \in MediaIDs :
       m \in sweeps'[w].drift \ sweeps[w].drift => ~Matching(assets[m], links[m])]_sweepVars

=============================================================================
