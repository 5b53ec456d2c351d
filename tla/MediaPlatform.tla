---------------------------- MODULE MediaPlatform ----------------------------
(* The whole platform: sweeps (MediaSweep) and readers (EdgeWorker) beside *)
(* one service, one clock for all.                                         *)
EXTENDS MediaSweep, EdgeWorker

readerVars == <<edgeVars, workerVars>>
platformVars == <<sweepVars, readerVars>>

PlatformInit == SweepInit /\ WorkerInit

SweeperStep == \E w \in Sweepers : Sweep(w) \/ SweepStep(w) \/ SweepDelete(w) \/ SweepDies(w)

ReaderStep == (TokenStep /\ UNCHANGED workerVars) \/ \E r \in Requests : WorkerRequest(r)

PlatformTick == SweepTick /\ WorkerTick

PlatformNext ==
  \/ UserStep /\ UNCHANGED <<sweeps, readerVars>>
  \/ SweeperStep /\ UNCHANGED readerVars
  \/ ReaderStep /\ UNCHANGED sweeps
  \/ PlatformTick

PlatformSpec == PlatformInit /\ [][PlatformNext]_platformVars

(* What sweeps need, and time for readers; readers owe nothing. *)
FairPlatformSpec ==
  /\ PlatformSpec
  /\ WF_platformVars(PlatformTick)
  /\ \A w \in Sweepers : /\ WF_sweepVars(Sweep(w))
                         /\ WF_sweepVars(SweepStep(w) \/ SweepDelete(w))
                         /\ SF_sweepVars(SweepDelete(w))

-----------------------------------------------------------------------------
(* Properties *)

(* Nothing of it is found: neither what was recorded of it in the bucket,  *)
(* nor a grant, a copy, or a way to a new one.  Bytes stored later, with   *)
(* an upload URL that is still good, have a generation nobody recorded.    *)
OutOfReach(m) ==
  /\ assets[m].status = "deleted"
  /\ objects[m].live => objects[m].generation # assets[m].generation
  /\ tokens[m] = 0
  /\ \A a \in AccessModes : cache[m][a].left = 0 /\ copies[m][a].left = 0

(* Once its last link is removed, an image is linked again, or what was    *)
(* delivered as it goes for good: from the bucket, the edge's cache and    *)
(* the browsers, although readers go on asking for it and its bytes may be *)
(* stored anew (service.go:507, 515, 656, index.ts:52, 99).                *)
UnlinkedVanishes ==
  \A m \in MediaIDs :
    Recorded(m) # {} /\ Active(m) = {} ~>
      Active(m) # {} \/ m \in strayed \/ []OutOfReach(m)

=============================================================================
