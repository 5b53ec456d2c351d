------------------------- MODULE MediaSweep_proofs -------------------------
(* A sweep does nothing to the database and the bucket that a purge of     *)
(* MediaService could not do, so the theorems on MediaService hold with    *)
(* any number of sweeps running beside its clients.                        *)
EXTENDS MediaSweep, MediaBytes_proofs

(* While a sweep is at an asset it has one. *)
SweepInv ==
  /\ SweepTypeOK
  /\ \A w \in Sweepers : sweeps[w].pc \in {"links", "purge"} => sweeps[w].media \in MediaIDs

LEMMA AsleepType == Asleep \in SweepState
BY AbsentType, LinkTypes DEF Asleep, SweepState

LEMMA InitSweepInv == SweepInit => SweepInv
BY InitTypeOK, AsleepType DEF SweepInit, SweepInv, SweepTypeOK, Asleep

-----------------------------------------------------------------------------
(* Each step of a sweep is a step of the service, or none *)

Untimed == ClientStep \/ LinkStep \/ \E w \in Workers : UploadStep(w) \/ PurgeStep(w) \/ Crash(w)

LEMMA SweepStepIsStep ==
  ASSUME SweepInv, NEW w \in Sweepers,
         Sweep(w) \/ SweepStep(w) \/ SweepDelete(w) \/ SweepDies(w)
  PROVE  Untimed \/ UNCHANGED vars
<1>1. w \in Workers
  BY SweepersAssumption
<1>2. CASE Sweep(w) \/ EndSweep(w) \/ QueryLinks(w)
  BY <1>2 DEF Sweep, EndSweep, QueryLinks
<1>3. ASSUME NEW s \in Slots, SweepLink(w, s)
      PROVE  Untimed \/ UNCHANGED vars
  <2>1. sweeps[w].media \in MediaIDs
    BY <1>3 DEF SweepLink, SweepInv
  <2>2. PurgeExpiredLink(sweeps[w].media, s) \/ UNCHANGED vars
    BY <1>3 DEF SweepLink
  <2> QED
    BY <2>1, <2>2 DEF Untimed, LinkStep
<1>4. CASE SweepAsset(w)
  <2>1. sweeps[w].media \in MediaIDs
    BY <1>4 DEF SweepAsset, SweepInv
  <2>2. (\E kind \in PurgeKinds : Claim(w, sweeps[w].media, kind)) \/ UNCHANGED vars
    BY <1>4 DEF SweepAsset
  <2> QED
    BY <1>1, <2>1, <2>2 DEF Untimed, PurgeStep, PurgeOrphan, PurgeStaleUpload, PurgeKinds
<1>5. CASE SweepPurge(w) \/ SweepDelete(w)
  BY <1>1, <1>5 DEF SweepPurge, SweepDelete, Untimed, PurgeStep
<1>6. CASE SweepDies(w)
  BY <1>1, <1>6 DEF SweepDies, Untimed
<1> QED
  BY <1>2, <1>3, <1>4, <1>5, <1>6 DEF SweepStep

LEMMA SweepNextIsNext ==
  ASSUME SweepInv, [SweepNext]_sweepVars
  PROVE  [Next]_vars
<1>1. CASE UserStep
  BY <1>1 DEF UserStep, Next, LinkStep
<1>2. CASE SweepTick
  BY <1>2 DEF SweepTick, Next
<1>3. CASE UNCHANGED sweepVars
  BY <1>3 DEF sweepVars
<1> QED
  BY <1>1, <1>2, <1>3, SweepStepIsStep DEF SweepNext, Untimed, Next

-----------------------------------------------------------------------------
(* The invariant of the sweeps *)

(* One sweep goes on with a new state of its own. *)
LEMMA OneSweepInv ==
  ASSUME SweepInv, TypeOK', NEW w \in Sweepers, NEW sweep \in SweepState,
         sweeps' = [sweeps EXCEPT ![w] = sweep],
         sweep.pc \in {"links", "purge"} => sweep.media \in MediaIDs
  PROVE  SweepInv'
BY DEF SweepInv, SweepTypeOK

LEMMA SweepStepInv ==
  ASSUME SweepInv, TypeOK', NEW w \in Sweepers,
         Sweep(w) \/ SweepStep(w) \/ SweepDelete(w) \/ SweepDies(w)
  PROVE  SweepInv'
<1> DEFINE me == sweeps[w]
<1>1. me \in SweepState /\ TypeOK
  BY DEF SweepInv, SweepTypeOK
<1>2. me.pc \in {"links", "purge"} => me.media \in MediaIDs
  BY DEF SweepInv
<1>3. CASE EndSweep(w) \/ SweepDies(w)
  <2>1. sweeps' = [sweeps EXCEPT ![w] = Asleep]
    BY <1>3 DEF EndSweep, SweepDies
  <2> QED
    BY <2>1, OneSweepInv, AsleepType DEF Asleep
<1>4. CASE Sweep(w)
  <2>1. Queried(Limit) \in SUBSET MediaIDs
    BY DEF Queried
  <2>2. [Asleep EXCEPT !.pc = "asset", !.queue = Queried(Limit), !.snapshot = assets] \in SweepState
    BY <1>1, <2>1, AsleepType DEF SweepState, TypeOK
  <2> QED
    BY <1>4, <2>2, OneSweepInv DEF Sweep, Asleep
<1>5. CASE QueryLinks(w)
  <2>1. PICK m \in me.queue :
          sweeps' = [sweeps EXCEPT ![w] = [me EXCEPT !.pc = "links", !.media = m,
                       !.queue = @ \ {m}, !.found = links[m], !.unseen = Recorded(m)]]
    BY <1>5 DEF QueryLinks
  <2>2. m \in MediaIDs
    BY <1>1 DEF SweepState
  <2>3. links[m] \in [Slots -> MediaLink] /\ Recorded(m) \in SUBSET Slots
    BY <1>1, <2>2 DEF TypeOK, Recorded
  <2>4. [me EXCEPT !.pc = "links", !.media = m, !.queue = @ \ {m}, !.found = links[m],
                   !.unseen = Recorded(m)] \in SweepState
    BY <1>1, <2>2, <2>3 DEF SweepState
  <2> QED
    BY <1>1, <2>1, <2>2, <2>4, OneSweepInv DEF SweepState
<1>6. ASSUME NEW s \in Slots, SweepLink(w, s)
      PROVE  SweepInv'
  <2>1. sweeps' = [sweeps EXCEPT ![w] = [me EXCEPT !.unseen = @ \ {s}]]
    BY <1>6 DEF SweepLink
  <2>2. [me EXCEPT !.unseen = @ \ {s}] \in SweepState
    BY <1>1 DEF SweepState
  <2> QED
    BY <1>1, <1>2, <2>1, <2>2, OneSweepInv DEF SweepState
<1>7. CASE SweepAsset(w)
  <2>1. me.media \in MediaIDs
    BY <1>2, <1>7 DEF SweepAsset
  <2>2. WithDrift(me, me.media) \in SweepState /\ WithDrift(me, me.media).media = me.media
    BY <1>1, <2>1 DEF WithDrift, SweepState
  <2>3. PICK next \in {[WithDrift(me, me.media) EXCEPT !.pc = "purge"],
                       NextAsset(WithDrift(me, me.media))} :
          sweeps' = [sweeps EXCEPT ![w] = next]
    BY <1>7 DEF SweepAsset
  <2>4. next \in SweepState /\ next.media = me.media
    BY <2>2 DEF NextAsset, SweepState
  <2> QED
    BY <2>1, <2>3, <2>4, OneSweepInv
<1>8. CASE SweepPurge(w) \/ SweepDelete(w)
  <2>1. PICK next \in {me, Asleep, NextAsset(me)} : sweeps' = [sweeps EXCEPT ![w] = next]
    BY <1>8 DEF SweepPurge, SweepDelete, SweepInv, SweepTypeOK
  <2>2. me.pc = "purge"
    BY <1>8 DEF SweepPurge, SweepDelete
  <2>3. next \in SweepState /\ (next.pc \in {"links", "purge"} => next.media \in MediaIDs)
    BY <1>1, <1>2, <2>2, AsleepType DEF NextAsset, SweepState, Asleep
  <2> QED
    BY <2>1, <2>3, OneSweepInv
<1> QED
  BY <1>3, <1>4, <1>5, <1>6, <1>7, <1>8 DEF SweepStep

LEMMA SweepTickInv ==
  ASSUME SweepInv, TypeOK', SweepTick
  PROVE  SweepInv'
<1>1. \A sweep \in SweepState : /\ AgedSweep(sweep) \in SweepState
                                /\ AgedSweep(sweep).pc = sweep.pc
                                /\ AgedSweep(sweep).media = sweep.media
  <2> TAKE sweep \in SweepState
  <2>1. [m \in MediaIDs |-> AgedAsset(sweep.snapshot[m])] \in [MediaIDs -> Asset]
    BY AssetStepTypes DEF SweepState
  <2>2. [s \in Slots |-> AgedLink(sweep.found[s])] \in [Slots -> MediaLink]
    BY LinkTypes DEF SweepState
  <2> QED
    BY <2>1, <2>2 DEF AgedSweep, SweepState
<1>2. sweeps' = [w \in Sweepers |-> AgedSweep(sweeps[w])]
  BY DEF SweepTick
<1>3. \A w \in Sweepers : sweeps[w] \in SweepState
  BY DEF SweepInv, SweepTypeOK
<1> QED
  BY <1>1, <1>2, <1>3 DEF SweepInv, SweepTypeOK

LEMMA SweepNextInv ==
  ASSUME SweepInv, [SweepNext]_sweepVars
  PROVE  SweepInv'
<1>1. TypeOK'
  BY SweepNextIsNext, StepTypeOK DEF SweepInv, SweepTypeOK
<1>2. CASE UNCHANGED sweeps
  BY <1>1, <1>2 DEF SweepInv, SweepTypeOK
<1> QED
  BY <1>1, <1>2, SweepStepInv, SweepTickInv DEF SweepNext, sweepVars

-----------------------------------------------------------------------------
(* Theorems *)

(* What a sweep remembers keeps its type, and a sweep that looks at links  *)
(* or purges (service.go:606-634) has an asset.                            *)
THEOREM SweepInvariant == SweepSpec => []SweepInv
BY InitSweepInv, SweepNextInv, PTL DEF SweepSpec

(* The run's type invariant, for any number of sweeps. *)
THEOREM SweepTypeCorrect == SweepSpec => []SweepTypeOK
<1>1. SweepInv => SweepTypeOK
  BY DEF SweepInv
<1> QED
  BY <1>1, SweepInvariant, PTL

(* Sweeping (service.go:577), from whatever stale copies, is among the     *)
(* behaviours of the service: what is proved of MediaService holds.        *)
THEOREM SweepsImplementService == SweepSpec => Spec
<1>1. SweepInit => Init
  BY DEF SweepInit
<1>2. SweepInv /\ [SweepNext]_sweepVars => [Next]_vars
  BY SweepNextIsNext
<1> QED
  BY <1>1, <1>2, SweepInvariant, PTL DEF SweepSpec, Spec

(* Sweeps that drop links and users who restore them keep references and   *)
(* links in agreement.                                                     *)
THEOREM SweepsKeepReferences == SweepSpec => []RefsAgree
BY SweepsImplementService, ReferencesAgree, PTL

(* Any number of sweeps at once purge an asset one at a time. *)
THEOREM SweepsPurgeAlone == ASSUME RunsOnce PROVE SweepSpec => []PurgeIsExclusive
BY SweepsImplementService, PurgesAreExclusive, PTL

(* No sweep deletes bytes that a link, active or recoverable, needs. *)
THEOREM SweepsKeepLinkedBytes == ASSUME RunsOnce PROVE SweepSpec => BytesOutliveLinks
BY SweepsImplementService, BytesOutliveTheirLinks, PTL

-----------------------------------------------------------------------------
(* What sweeps leave out                                                   *)

(* The counters Sweep compares agree with the links at every moment, so a  *)
(* mismatch it reports (service.go:619) is never one: it compares counters *)
(* and links of two moments, as the run false_drift shows.                 *)
THEOREM NoDriftToReport == SweepSpec => [](\A m \in MediaIDs : Matching(assets[m], links[m]))
<1>1. CountsExact => \A m \in MediaIDs : Matching(assets[m], links[m])
  BY DEF CountsExact, Matching, Active, Recorded
<1> QED
  BY <1>1, SweepsImplementService, CountsAreExact, PTL

(* Sweeping does not help: no sweep takes up a purge that another one left *)
(* (service.go:623), and the asset of the run interrupted_purge stays      *)
(* marked for ever.                                                        *)
THEOREM SweepsPassTheAbandoned == SweepSpec => NothingCleansUp
BY SweepsImplementService, AbandonedPurgesLeak, PTL

(* Sweepers purge, and only what they are at.                              *)
SweepCalls ==
  /\ \A w \in Sweepers :
       calls[w].pc # "idle" => sweeps[w].pc = "purge" /\ calls[w].media = sweeps[w].media
  /\ \A w \in Workers \ Sweepers : calls[w].pc \notin Purgers

\* One sweeper goes on, and with it no call but its own.
LEMMA SweeperCalls ==
  ASSUME SweepInv, SweepCalls, NEW w \in Sweepers,
         \A v \in Workers \ {w} : calls'[v] = calls[v],
         \A v \in Sweepers \ {w} : sweeps'[v] = sweeps[v],
         calls'[w].pc # "idle" => sweeps'[w].pc = "purge" /\ calls'[w].media = sweeps'[w].media
  PROVE  SweepCalls'
BY SweepersAssumption DEF SweepCalls

LEMMA SweepCallsStep ==
  ASSUME SweepInv, SweepCalls, [SweepNext]_sweepVars
  PROVE  SweepCalls'
<1>0. /\ calls \in [Workers -> Call] /\ sweeps \in [Sweepers -> SweepState] /\ Idle.pc = "idle"
      /\ TypeOK /\ Asleep.pc = "idle" /\ Sweepers \subseteq Workers
  BY SweepersAssumption DEF SweepInv, SweepTypeOK, TypeOK, Idle, Asleep
<1>1. CASE UNCHANGED <<calls, sweeps>>
  BY <1>1 DEF SweepCalls
<1>2. CASE UserStep /\ UNCHANGED sweeps
  <2>1. CASE UNCHANGED calls
    BY <1>1, <1>2, <2>1
  <2>2. ASSUME NEW w \in Workers \ Sweepers, UploadStep(w) \/ Crash(w)
        PROVE  SweepCalls'
    <3>1. \A v \in Workers \ {w} : calls'[v] = calls[v]
      BY <1>0, <2>2, WorkersMindThemselves
    <3>2. calls'[w].pc \notin Purgers
      BY <1>0, <2>2, UploadersPurgeNothing DEF Crash, Return, Purgers, Holding
    <3> QED
      BY <1>0, <1>2, <3>1, <3>2 DEF SweepCalls
  <2> QED
    BY <1>2, <2>1, <2>2
       DEF UserStep, ClientStep, BeginUpload, PutObject, Link, Restore, Unlink
<1>3. ASSUME NEW w \in Sweepers, Sweep(w) \/ SweepStep(w) \/ SweepDelete(w) \/ SweepDies(w)
      PROVE  SweepCalls'
  <2> DEFINE me == sweeps[w]
  <2>0. me \in SweepState /\ calls[w] \in Call
    BY <1>0
  <2>1. CASE Sweep(w) \/ EndSweep(w) \/ QueryLinks(w) \/ \E s \in Slots : SweepLink(w, s)
    <3>1. UNCHANGED calls /\ me.pc # "purge"
      BY <2>1
         DEF Sweep, EndSweep, QueryLinks, SweepLink, PurgeExpiredLink, vars
    <3>2. calls[w].pc = "idle"
      BY <3>1 DEF SweepCalls
    <3>3. \A v \in Sweepers \ {w} : sweeps'[v] = sweeps[v]
      BY <1>0, <2>1 DEF Sweep, EndSweep, QueryLinks, SweepLink
    <3> QED
      BY <3>1, <3>2, <3>3, SweeperCalls
  <2>2. CASE SweepAsset(w)
    <3>1. WithDrift(me, me.media) \in SweepState /\ WithDrift(me, me.media).media = me.media
      BY <2>0, <2>2 DEF WithDrift, SweepState, SweepAsset, SweepInv
    <3>2. calls[w].pc = "idle"
      BY <2>2 DEF SweepAsset, SweepCalls
    <3>3. CASE UNCHANGED vars
      <4>1. \A v \in Sweepers \ {w} : sweeps'[v] = sweeps[v]
        BY <1>0, <2>2 DEF SweepAsset
      <4> QED
        BY <3>2, <3>3, <4>1, SweeperCalls DEF vars
    <3>4. ASSUME NEW kind \in PurgeKinds, Claim(w, me.media, kind),
                 sweeps' = [sweeps EXCEPT ![w] = [WithDrift(me, me.media) EXCEPT !.pc = "purge"]]
          PROVE  SweepCalls'
      <4>1. \A v \in Workers \ {w} : calls'[v] = calls[v]
        BY <1>0, <3>4 DEF Claim
      <4>2. calls'[w].media = me.media
        BY <1>0, <3>4 DEF Claim, Purging, Idle
      <4>3. \A v \in Sweepers \ {w} : sweeps'[v] = sweeps[v]
        BY <1>0, <3>4
      <4>4. sweeps'[w].pc = "purge" /\ sweeps'[w].media = me.media
        BY <1>0, <3>1, <3>4 DEF SweepState
      <4> QED
        BY <4>1, <4>2, <4>3, <4>4, SweeperCalls
    <3> QED
      BY <2>2, <3>3, <3>4 DEF SweepAsset
  <2>3. CASE (DeleteObject(w) \/ DeleteFails(w)) /\ UNCHANGED sweeps
    <3>1. calls'[w].media = calls[w].media /\ \A v \in Workers \ {w} : calls'[v] = calls[v]
      BY <1>0, <2>0, <2>3 DEF DeleteObject, DeleteFails, Proceed, Call
    <3>2. calls[w].pc = "delete"
      BY <2>3 DEF DeleteObject, DeleteFails
    <3> QED
      BY <2>3, <3>1, <3>2, SweeperCalls DEF SweepCalls
  <2>4. ASSUME NEW STATE next, sweeps' = [sweeps EXCEPT ![w] = next],
               Return(w) \/ (UNCHANGED calls /\ calls[w].pc = "idle")
        PROVE  SweepCalls'
    <3>1. calls'[w].pc = "idle" /\ \A v \in Workers \ {w} : calls'[v] = calls[v]
      BY <1>0, <2>4 DEF Return
    <3>2. \A v \in Sweepers \ {w} : sweeps'[v] = sweeps[v]
      BY <1>0, <2>4
    <3> QED
      BY <3>1, <3>2, SweeperCalls
  <2>5. CASE SweepPurge(w)
    <3>1. CASE DeleteFails(w) /\ UNCHANGED sweeps
      BY <2>3, <3>1
    <3>2. CASE Rollback(w) /\ sweeps' = [sweeps EXCEPT ![w] = Asleep]
      BY <2>4, <3>2 DEF Rollback
    <3>3. CASE Complete(w)
      BY <2>4, <2>5, <3>3 DEF SweepPurge, Complete, DeleteFails, Rollback
    <3> QED
      BY <2>5, <3>1, <3>2, <3>3 DEF SweepPurge
  <2>6. CASE SweepDies(w)
    BY <2>4, <2>6 DEF SweepDies, Crash, vars
  <2> QED
    BY <1>3, <2>1, <2>2, <2>3, <2>5, <2>6 DEF SweepStep, SweepDelete
<1>4. CASE SweepTick
  <2>1. \A w \in Workers : calls'[w].pc = calls[w].pc /\ calls'[w].media = calls[w].media
    <3> TAKE w \in Workers
    <3>1. calls[w] \in Call /\ calls'[w] = [calls[w] EXCEPT !.asset = AgedAsset(@)]
      BY <1>0, <1>4 DEF SweepTick, Tick
    <3> QED
      BY <3>1 DEF Call
  <2>2. \A w \in Sweepers : sweeps'[w].pc = sweeps[w].pc /\ sweeps'[w].media = sweeps[w].media
    BY <1>0, <1>4 DEF SweepTick, AgedSweep, SweepState
  <2> QED
    BY <1>0, <2>1, <2>2 DEF SweepCalls
<1> QED
  BY <1>1, <1>2, <1>3, <1>4 DEF SweepNext, sweepVars, vars

LEMMA SweepCallsInvariant == SweepSpec => []SweepCalls
<1>1. SweepInit => SweepCalls
  BY SweepersAssumption DEF SweepInit, Init, Idle, SweepCalls, Purgers, Holding
<1> QED
  BY <1>1, SweepCallsStep, SweepInvariant, PTL DEF SweepSpec


(* The records a query returns before m, and m is not among the next.      *)
Earlier(m) == {x \in MediaIDs : assets[x].status # "absent" /\ Rank[x] < Rank[m]}

\* The limit is used up before m, and no sweep has got m from before that.
PastLimit(m) ==
  /\ Limit <= Cardinality(Earlier(m))
  /\ \A w \in Sweepers :
       /\ m \notin sweeps[w].queue
       /\ sweeps[w].pc \in {"links", "purge"} => sweeps[w].media # m

\* Neither its links nor its bytes nor the asset itself are cleaned up.
PastLimitIsKept ==
  [][\A m \in MediaIDs : PastLimit(m) =>
       /\ PastLimit(m)'
       /\ Recorded(m) \subseteq Recorded(m)'
       /\ objects[m].live => objects'[m].live
       /\ assets'[m].status \in {"purging", "deleted", "failed"} =>
            assets'[m].status = assets[m].status]_sweepVars

LEMMA NotQueried ==
  ASSUME IsFiniteSet(MediaIDs), NEW m \in MediaIDs, Limit <= Cardinality(Earlier(m))
  PROVE  m \notin Queried(Limit)
<1>1. Earlier(m) \in SUBSET MediaIDs
  BY DEF Earlier
<1>2. Cardinality(Earlier(m)) \in Nat
  BY <1>1, FS_Subset, FS_CardinalityType
<1> DEFINE existing == {x \in MediaIDs : assets[x].status # "absent"}
<1>3. {x \in existing : Rank[x] < Rank[m]} = Earlier(m)
  BY DEF Earlier
<1>4. Queried(Limit) = {y \in existing : Cardinality({x \in existing : Rank[x] < Rank[y]}) < Limit}
  BY Zenon DEF Queried
<1>5. ~ (Cardinality(Earlier(m)) < Limit)
  BY <1>2, QueryAssumption
<1> HIDE DEF existing
<1>6. ~ (Cardinality({x \in existing : Rank[x] < Rank[m]}) < Limit)
  BY <1>3, <1>5
<1> QED
  BY <1>4, <1>6

LEMMA EarlierStay ==
  ASSUME IsFiniteSet(MediaIDs), GraphInv, PinInv, [Next]_vars, NEW m \in MediaIDs
  PROVE  Cardinality(Earlier(m)) <= Cardinality(Earlier(m)')
<1>1. \A x \in MediaIDs : assets[x].status # "absent" => assets'[x].status # "absent"
  <2> SUFFICES ASSUME NEW x \in MediaIDs, assets[x].status # "absent"
               PROVE  assets'[x].status # "absent"
    OBVIOUS
  <2>1. Committed(x) => assets'[x].status = "ready"
    BY DEF Committed, PinInv, Reading, Reader
  <2>2. PurgeEnded(x) => assets'[x].status # "absent"
    BY DEF PurgeEnded, Resting, Ended
  <2> QED
    BY <2>1, <2>2, StatusStep DEF Granted, ClaimedNow, Served
<1>2. Earlier(m) \in SUBSET Earlier(m)' /\ Earlier(m)' \in SUBSET MediaIDs
  BY <1>1 DEF Earlier
<1> QED
  BY <1>2, FS_Subset

\* A sweep does not come to m.
LEMMA PastLimitSweeps ==
  ASSUME IsFiniteSet(MediaIDs), SweepInv, [SweepNext]_sweepVars, NEW m \in MediaIDs, PastLimit(m),
         NEW w \in Sweepers
  PROVE  /\ m \notin sweeps'[w].queue
         /\ sweeps'[w].pc \in {"links", "purge"} => sweeps'[w].media # m
<1> DEFINE me == sweeps[w]
           Away(s) == m \notin s.queue /\ (s.pc \in {"links", "purge"} => s.media # m)
<1>0. sweeps \in [Sweepers -> SweepState] /\ me \in SweepState /\ Away(me)
  BY DEF SweepInv, SweepTypeOK, PastLimit
<1>1. CASE sweeps'[w] = me
  BY <1>0, <1>1
<1>2. Away(Asleep)
  BY DEF Asleep
<1>3. ASSUME Sweep(w)
      PROVE  Away(sweeps'[w])
  <2>1. sweeps'[w] = [Asleep EXCEPT !.pc = "asset", !.queue = Queried(Limit), !.snapshot = assets]
    BY <1>0, <1>3 DEF Sweep
  <2>2. m \notin Queried(Limit)
    BY NotQueried DEF PastLimit
  <2>3. sweeps'[w].queue = Queried(Limit) /\ sweeps'[w].pc = "asset"
    BY <2>1 DEF Asleep
  <2> QED
    BY <2>2, <2>3
<1>4. ASSUME QueryLinks(w)
      PROVE  Away(sweeps'[w])
  <2>1. PICK x \in me.queue :
          sweeps' = [sweeps EXCEPT ![w] = [me EXCEPT !.pc = "links", !.media = x,
                       !.queue = me.queue \ {x}, !.found = links[x], !.unseen = Recorded(x)]]
    BY <1>4 DEF QueryLinks
  <2>2. sweeps'[w].queue = me.queue \ {x} /\ sweeps'[w].media = x
    BY <1>0, <2>1 DEF SweepState
  <2> QED
    BY <1>0, <2>2
<1>5. ASSUME NEW s \in Slots, SweepLink(w, s)
      PROVE  Away(sweeps'[w])
  <2>1. sweeps'[w] = [me EXCEPT !.unseen = me.unseen \ {s}]
    BY <1>0, <1>5 DEF SweepLink
  <2>2. /\ sweeps'[w].queue = me.queue /\ sweeps'[w].media = me.media
        /\ sweeps'[w].pc = me.pc
    BY <1>0, <2>1 DEF SweepState
  <2> QED
    BY <1>0, <2>2
<1>6. ASSUME SweepAsset(w)
      PROVE  Away(sweeps'[w])
  <2> DEFINE drifted == WithDrift(me, me.media)
  <2>1. /\ drifted \in SweepState /\ drifted.media = me.media /\ drifted.queue = me.queue
        /\ me.pc = "links"
    BY <1>0, <1>6 DEF WithDrift, SweepState, SweepAsset, SweepInv
  <2>2. sweeps'[w] \in {[drifted EXCEPT !.pc = "purge"], NextAsset(drifted)}
    BY <1>0, <1>6 DEF SweepAsset
  <2> HIDE DEF drifted
  <2>3. sweeps'[w].queue = me.queue /\ sweeps'[w].media = me.media
    BY <2>1, <2>2 DEF NextAsset, SweepState
  <2> QED
    BY <1>0, <2>1, <2>3
<1>7. ASSUME SweepPurge(w) \/ SweepDelete(w) \/ EndSweep(w) \/ SweepDies(w)
      PROVE  Away(sweeps'[w])
  <2>1. sweeps'[w] \in {me, Asleep, NextAsset(me)}
    BY <1>0, <1>7 DEF SweepPurge, SweepDelete, EndSweep, SweepDies
  <2>2. Away(NextAsset(me))
    BY <1>0 DEF NextAsset, SweepState
  <2> QED
    BY <1>0, <1>2, <2>1, <2>2
<1>8. ASSUME SweepTick
      PROVE  Away(sweeps'[w])
  <2>1. sweeps'[w] = AgedSweep(me)
    BY <1>8 DEF SweepTick
  <2>2. /\ sweeps'[w].queue = me.queue /\ sweeps'[w].media = me.media
        /\ sweeps'[w].pc = me.pc
    BY <1>0, <2>1 DEF AgedSweep, SweepState
  <2> QED
    BY <1>0, <2>2
<1>9. ASSUME NEW v \in Sweepers \ {w}, Sweep(v) \/ SweepStep(v) \/ SweepDelete(v) \/ SweepDies(v)
      PROVE  sweeps'[w] = me
  BY <1>0, <1>9
     DEF Sweep, SweepStep, SweepDelete, SweepDies, EndSweep, QueryLinks, SweepAsset,
         SweepPurge, SweepLink
<1> QED
  BY <1>1, <1>3, <1>4, <1>5, <1>6, <1>7, <1>8, <1>9 DEF SweepNext, SweepStep, sweepVars

\* A link record is dropped by the sweep that is at its asset.
LEMMA PastLimitLinks ==
  ASSUME SweepInv, [SweepNext]_sweepVars, NEW m \in MediaIDs, PastLimit(m), NEW s \in Slots,
         links[m][s].status # "none"
  PROVE  links'[m][s].status # "none"
<1>0. links \in [MediaIDs -> [Slots -> MediaLink]] /\ links[m][s] \in MediaLink
  BY DEF SweepInv, SweepTypeOK, TypeOK
<1>1. CASE UNCHANGED links
  BY <1>1
<1>2. ASSUME NEW x \in MediaIDs, NEW t \in Slots, Link(x, t) \/ Restore(x, t)
      PROVE  links'[m][s].status # "none"
  <2>1. links'[m][s] \in {links[m][s], ActiveLink, DeletedLink}
    BY <1>0, <1>2 DEF Link, Restore
  <2> QED
    BY <2>1 DEF ActiveLink, DeletedLink
<1>3. ASSUME NEW t \in Slots, Unlink(t)
      PROVE  links'[m][s].status # "none"
  <2>1. links'[m][s] \in {links[m][s], DeletedLink}
    BY <1>0, <1>3 DEF Unlink
  <2> QED
    BY <2>1 DEF DeletedLink
<1>4. ASSUME NEW w \in Sweepers, NEW t \in Slots, SweepLink(w, t)
      PROVE  links'[m][s] = links[m][s]
  <2>1. sweeps[w].media # m
    BY <1>4 DEF SweepLink, PastLimit
  <2> QED
    BY <1>0, <1>4, <2>1 DEF SweepLink, PurgeExpiredLink, vars
<1>5. CASE Tick
  <2>1. links'[m][s] = AgedLink(links[m][s])
    BY <1>5 DEF Tick
  <2> QED
    BY <1>0, <2>1 DEF AgedLink, MediaLink
<1>6. ASSUME NEW w \in Sweepers, ~\E t \in Slots : SweepLink(w, t),
             Sweep(w) \/ SweepStep(w) \/ SweepDelete(w) \/ SweepDies(w)
      PROVE  UNCHANGED links
  BY <1>6
     DEF Sweep, SweepStep, SweepDelete, SweepDies, EndSweep, QueryLinks, SweepAsset, SweepPurge,
         Claim, DeleteFails, DeleteObject, Rollback, Complete, Crash, vars
<1>7. ASSUME NEW w \in Workers, UploadStep(w) \/ Crash(w)
      PROVE  UNCHANGED links
  BY <1>7
     DEF UploadStep, FinalizeUpload, ReadAttrs, HashObject, DecodeObject, CommitFinalize, Crash
<1>8. ClientStep => UNCHANGED links
  BY DEF ClientStep, BeginUpload, PutObject
<1> QED
  BY <1>1, <1>2, <1>3, <1>4, <1>5, <1>6, <1>7, <1>8
     DEF SweepNext, UserStep, SweepTick, sweepVars, vars

LEMMA PastLimitStep ==
  ASSUME IsFiniteSet(MediaIDs), SweepInv, SweepCalls, SweepCalls', GraphInv, PinInv,
         [SweepNext]_sweepVars, NEW m \in MediaIDs, PastLimit(m)
  PROVE  /\ PastLimit(m)'
         /\ Recorded(m) \subseteq Recorded(m)'
         /\ objects[m].live => objects'[m].live
         /\ assets'[m].status \in {"purging", "deleted", "failed"} =>
              assets'[m].status = assets[m].status
<1>0. TypeOK /\ [Next]_vars /\ Limit \in Nat
  BY SweepNextIsNext, QueryAssumption DEF GraphInv
<1>1. PastLimit(m)'
  <2>1. Limit <= Cardinality(Earlier(m)')
    <3>1. Earlier(m) \in SUBSET MediaIDs /\ Earlier(m)' \in SUBSET MediaIDs
      BY DEF Earlier
    <3>2. Cardinality(Earlier(m)) \in Nat /\ Cardinality(Earlier(m)') \in Nat
      BY <3>1, FS_Subset, FS_CardinalityType
    <3>3. Cardinality(Earlier(m)) <= Cardinality(Earlier(m)')
      BY <1>0, EarlierStay
    <3>4. Limit <= Cardinality(Earlier(m))
      BY DEF PastLimit
    <3> QED
      BY <1>0, <3>2, <3>3, <3>4
  <2> QED
    BY <2>1, PastLimitSweeps DEF PastLimit
<1>2. Recorded(m) \subseteq Recorded(m)'
  BY PastLimitLinks DEF Recorded
<1>3. \A w \in Workers : calls[w].pc \in Holding => calls[w].media # m
  BY DEF SweepCalls, PastLimit, Purgers, Holding
<1>4. \A w \in Workers : calls'[w].pc \in Holding => calls'[w].media # m
  BY <1>1 DEF SweepCalls, PastLimit, Purgers, Holding
<1>5. objects[m].live => objects'[m].live
  BY <1>0, <1>3, Removal DEF Holding
<1>6. ASSUME assets'[m].status \in {"purging", "deleted", "failed"}
      PROVE  assets'[m].status = assets[m].status
  <2>1. ~ClaimedNow(m)
    BY <1>4 DEF ClaimedNow, Holding
  <2>2. ~PurgeEnded(m)
    BY <1>3 DEF PurgeEnded, Holding, Ending
  <2>3. ~Committed(m)
    BY <1>6 DEF Committed, PinInv, Reading, Reader
  <2>4. ~Granted(m)
    BY <1>6 DEF Granted, NewUpload, Absent
  <2> QED
    BY <1>0, <1>6, <2>1, <2>2, <2>3, <2>4, StatusStep DEF Served
<1> QED
  BY <1>1, <1>2, <1>5, <1>6

(* A record that comes after the first Limit ones is beyond every sweep    *)
(* for ever, whatever happens to those before it (service.go:582): once no *)
(* sweep has it from earlier, no link of it is dropped, no upload of it    *)
(* given up, and no orphan's bytes are deleted.  What the run beyond_limit *)
(* finds needs no unfair schedule.  Media IDs have a bounded length.       *)
THEOREM NothingPastTheLimitGoes ==
  ASSUME IsFiniteSet(MediaIDs)
  PROVE  SweepSpec => PastLimitIsKept
<1>1. SweepInv /\ SweepCalls /\ SweepCalls' /\ GraphInv /\ PinInv /\ [SweepNext]_sweepVars =>
        [\A m \in MediaIDs : PastLimit(m) =>
           /\ PastLimit(m)'
           /\ Recorded(m) \subseteq Recorded(m)'
           /\ objects[m].live => objects'[m].live
           /\ assets'[m].status \in {"purging", "deleted", "failed"} =>
                assets'[m].status = assets[m].status]_sweepVars
  BY PastLimitStep
<1>2. SweepSpec => [](GraphInv /\ PinInv)
  BY SweepsImplementService, GraphInvariant, PinInvariant, PTL
<1> QED
  BY <1>1, <1>2, SweepInvariant, SweepCallsInvariant, PTL DEF SweepSpec, PastLimitIsKept

=============================================================================
