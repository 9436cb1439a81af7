---------------------------- MODULE FailoverProofs ----------------------------
(***************************************************************************)
(* Proofs about Failover, for every number of revisions, faults, terms and *)
(* jobs: two sidecars and the compactor keep of the bucket what a          *)
(* restoration needs (BucketProofs).                                       *)
(***************************************************************************)
EXTENDS Failover, BucketProofs

\* Both loops are past the delta snapshots since the last disturbance.
Both == Covers(pc1, prev1, lastRev1) /\ Covers(pc2, prev2, lastRev2)

\* A step of the first sidecar
LEMMA Orderly1 ==
    ASSUME Kept, Kept', Orderly, Both, UNCHANGED <<side2, jobVars>>, rev' = rev, faults' \in Nat,
           pc1 # "off" => prev1.last \in Nat,
           Affects(pc1, prev1, lastRev1, pc1', prev1', lastRev1'),
           disturbed' = IF clock' # clock /\ Disturbs THEN clock' ELSE disturbed
    PROVE  Orderly' /\ Both' /\ store \subseteq store'
<1>1. Marks(pc1, pc2 # "off") /\ (pc2 # "off") \in BOOLEAN
  BY DEF Disturbs, Marks
<1>2. /\ store \subseteq store' /\ IsFiniteSet(store') /\ disturbed' \in 0 .. clock'
      /\ CalmOrder' /\ (pc2 # "off" => Calm' \subseteq Calm)
      /\ \A d \in Calm' : /\ pc1' # "off" => d.last <= prev1'.last
                          /\ pc1' = "fullSave" => d.last <= lastRev1'
  BY <1>1, EffectKeeps DEF Orderly, Both
<1>3. Both'
  BY <1>2 DEF Both, Covers, side2
<1> QED
  BY <1>2, <1>3 DEF Orderly, JobInv, jobVars

\* and one of the second keep that.
LEMMA Orderly2 ==
    ASSUME Kept, Kept', Orderly, Both, UNCHANGED <<side1, jobVars>>, rev' = rev, faults' \in Nat,
           pc2 # "off" => prev2.last \in Nat,
           Affects(pc2, prev2, lastRev2, pc2', prev2', lastRev2'),
           disturbed' = IF clock' # clock /\ Disturbs THEN clock' ELSE disturbed
    PROVE  Orderly' /\ Both' /\ store \subseteq store'
<1>1. Marks(pc2, pc1 # "off") /\ (pc1 # "off") \in BOOLEAN
  BY DEF Disturbs, Marks
<1>2. /\ store \subseteq store' /\ IsFiniteSet(store') /\ disturbed' \in 0 .. clock'
      /\ CalmOrder' /\ (pc1 # "off" => Calm' \subseteq Calm)
      /\ \A d \in Calm' : /\ pc2' # "off" => d.last <= prev2'.last
                          /\ pc2' = "fullSave" => d.last <= lastRev2'
  BY <1>1, EffectKeeps DEF Orderly, Both
<1>3. Both'
  BY <1>2 DEF Both, Covers, side1
<1> QED
  BY <1>2, <1>3 DEF Orderly, JobInv, jobVars

\* The compactor and etcd do not run a loop.
LEMMA BothKept ==
    ASSUME Both, UNCHANGED <<side1, side2>>, Calm' \subseteq Calm
    PROVE  Both'
BY DEF Both, Covers, side1, side2

\* Etcd does nothing to the store.
EtcdStep ==
    /\ UNCHANGED <<store, clock, faults, disturbed, side1, side2, jobVars>>
    /\ rev' \in {rev, rev + 1}

\* The kinds of steps.
LEMMA Steps ==
    ASSUME [Step]_vars
    PROVE  \/ EtcdStep
           \/ /\ Sidecar1 \/ Sidecar2 \/ Job
              /\ disturbed' = IF clock' # clock /\ Disturbs THEN clock' ELSE disturbed
<1>1. CASE UNCHANGED vars
  BY <1>1 DEF EtcdStep, vars, bucket
<1>2. CASE Step /\ Elect
  BY <1>2 DEF EtcdStep, Step, Elect, bucket
<1>3. CASE Step /\ Write
  BY <1>3 DEF EtcdStep, Step, Write, S1!Write, S1!disk, S1!ssr, S1!mem, S1!Works, side1
<1> QED
  BY <1>1, <1>2, <1>3 DEF Step

-----------------------------------------------------------------------------
(***************************************************************************)
(* The two sidecars: what SnapshotterProofs shows of one beside others.    *)
(***************************************************************************)

P1 == INSTANCE SnapshotterProofs WITH
         Clients <- {}, DeltaEnabled <- TRUE, LeaseRenewal <- TRUE, TornSave <- TRUE,
         req <- <<>>, compacted <- 0,
         pc <- pc1, caller <- caller1, lastRev <- lastRev1, prev <- prev1,
         prevFull <- prevFull1, prevFullOK <- prevFullOK1, watch <- watch1, events <- events1,
         active <- active1, stopCh <- stopCh1

P2 == INSTANCE SnapshotterProofs WITH
         Clients <- {}, DeltaEnabled <- TRUE, LeaseRenewal <- TRUE, TornSave <- TRUE,
         req <- <<>>, compacted <- 0,
         pc <- pc2, caller <- caller2, lastRev <- lastRev2, prev <- prev2,
         prevFull <- prevFull2, prevFullOK <- prevFullOK2, watch <- watch2, events <- events2,
         active <- active2, stopCh <- stopCh2

\* The actions of sidecar 1 are those that the lemmas are about.
LEMMA Same1 ==
    /\ S1!Init <=> P1!Init
    /\ S1!OnStartedLeading <=> P1!OnStartedLeading
    /\ S1!OnStoppedLeading <=> P1!OnStoppedLeading
    /\ S1!Crash <=> P1!Crash
    /\ S1!Loop <=> P1!Loop
<1>1. S1!Init <=> P1!Init
  BY Zenon DEF S1!Init, P1!Init, S1!DummySnapshot, P1!DummySnapshot, S1!NilSnapshot, P1!NilSnapshot,
         S1!FullSnapshot, P1!FullSnapshot
<1>2. S1!OnStartedLeading <=> P1!OnStartedLeading
  BY Zenon DEF S1!OnStartedLeading, P1!OnStartedLeading, S1!etcd, P1!etcd, S1!disk, P1!disk, S1!ssr, P1!ssr,
         S1!mem, P1!mem, S1!Works, P1!Works, S1!Fails, P1!Fails, S1!Demand, P1!Demand,
         S1!Forget, P1!Forget, S1!FullSnapshot, P1!FullSnapshot, S1!DeltaSnapshot,
         P1!DeltaSnapshot, S1!DummySnapshot, P1!DummySnapshot, S1!NilSnapshot, P1!NilSnapshot,
         S1!Less, P1!Less, S1!Fulls, P1!Fulls, S1!LatestFull, P1!LatestFull, S1!LatestDeltas,
         P1!LatestDeltas, S1!LastDelta, P1!LastDelta, S1!LatestSnapshot, P1!LatestSnapshot
<1>3. S1!OnStoppedLeading <=> P1!OnStoppedLeading
  BY Zenon DEF S1!OnStoppedLeading, P1!OnStoppedLeading, S1!etcd, P1!etcd, S1!disk, P1!disk, S1!ssr, P1!ssr,
         S1!mem, P1!mem, S1!Works, P1!Works, S1!Fails, P1!Fails, S1!Demand, P1!Demand,
         S1!Forget, P1!Forget, S1!FullSnapshot, P1!FullSnapshot, S1!DeltaSnapshot,
         P1!DeltaSnapshot, S1!DummySnapshot, P1!DummySnapshot, S1!NilSnapshot, P1!NilSnapshot,
         S1!Less, P1!Less, S1!Fulls, P1!Fulls, S1!LatestFull, P1!LatestFull, S1!LatestDeltas,
         P1!LatestDeltas, S1!LastDelta, P1!LastDelta, S1!LatestSnapshot, P1!LatestSnapshot
<1>4. S1!Crash <=> P1!Crash
  BY Zenon DEF S1!Crash, P1!Crash, S1!etcd, P1!etcd, S1!disk, P1!disk, S1!ssr, P1!ssr, S1!mem, P1!mem,
         S1!Works, P1!Works, S1!Fails, P1!Fails, S1!Demand, P1!Demand, S1!Forget, P1!Forget,
         S1!FullSnapshot, P1!FullSnapshot, S1!DeltaSnapshot, P1!DeltaSnapshot, S1!DummySnapshot,
         P1!DummySnapshot, S1!NilSnapshot, P1!NilSnapshot, S1!Less, P1!Less, S1!Fulls, P1!Fulls,
         S1!LatestFull, P1!LatestFull, S1!LatestDeltas, P1!LatestDeltas, S1!LastDelta,
         P1!LastDelta, S1!LatestSnapshot, P1!LatestSnapshot
<1>5. S1!Loop <=> P1!Loop
  BY Zenon DEF S1!etcd, P1!etcd, S1!disk, P1!disk, S1!ssr, P1!ssr, S1!mem, P1!mem, S1!Works, P1!Works,
         S1!Fails, P1!Fails, S1!Demand, P1!Demand, S1!Forget, P1!Forget, S1!Saved, P1!Saved,
         S1!SaveFails, P1!SaveFails, S1!TakeDeltaSnapshot, P1!TakeDeltaSnapshot, S1!IsFinal,
         P1!IsFinal, S1!FullReturns, P1!FullReturns, S1!FullGet, P1!FullGet, S1!FullSave,
         P1!FullSave, S1!FullWatch, P1!FullWatch, S1!RunReturnsEarly, P1!RunReturnsEarly,
         S1!CollectSucceeds, P1!CollectSucceeds, S1!CollectFails, P1!CollectFails, S1!Collect,
         P1!Collect, S1!Response, P1!Response, S1!CollectEvent, P1!CollectEvent,
         S1!CollectStopped, P1!CollectStopped, S1!WatchEnds, P1!WatchEnds,
         S1!FullSnapshotRequired, P1!FullSnapshotRequired, S1!ProbeExit, P1!ProbeExit, S1!Probe,
         P1!Probe, S1!FirstDelta, P1!FirstDelta, S1!Run, P1!Run, S1!Stop, P1!Stop,
         S1!HandlerContinues, P1!HandlerContinues, S1!FullTimer, P1!FullTimer, S1!FullRequest,
         P1!FullRequest, S1!DeltaTimer, P1!DeltaTimer, S1!DeltaRequest, P1!DeltaRequest,
         S1!HandleWatchEvents, P1!HandleWatchEvents, S1!HandlerStopped, P1!HandlerStopped,
         S1!Loop, P1!Loop, S1!FullSnapshot, P1!FullSnapshot, S1!DeltaSnapshot, P1!DeltaSnapshot,
         S1!DummySnapshot, P1!DummySnapshot, S1!NilSnapshot, P1!NilSnapshot, S1!Torn, P1!Torn,
         S1!Less, P1!Less, S1!Fulls, P1!Fulls, S1!LatestFull, P1!LatestFull, S1!LatestDeltas,
         P1!LatestDeltas, S1!LastDelta, P1!LastDelta, S1!LatestSnapshot, P1!LatestSnapshot
<1> QED
  BY <1>1, <1>2, <1>3, <1>4, <1>5

\* The actions of sidecar 2 are those that the lemmas are about.
LEMMA Same2 ==
    /\ S2!Init <=> P2!Init
    /\ S2!OnStartedLeading <=> P2!OnStartedLeading
    /\ S2!OnStoppedLeading <=> P2!OnStoppedLeading
    /\ S2!Crash <=> P2!Crash
    /\ S2!Loop <=> P2!Loop
<1>1. S2!Init <=> P2!Init
  BY Zenon DEF S2!Init, P2!Init, S2!DummySnapshot, P2!DummySnapshot, S2!NilSnapshot, P2!NilSnapshot,
         S2!FullSnapshot, P2!FullSnapshot
<1>2. S2!OnStartedLeading <=> P2!OnStartedLeading
  BY Zenon DEF S2!OnStartedLeading, P2!OnStartedLeading, S2!etcd, P2!etcd, S2!disk, P2!disk, S2!ssr, P2!ssr,
         S2!mem, P2!mem, S2!Works, P2!Works, S2!Fails, P2!Fails, S2!Demand, P2!Demand,
         S2!Forget, P2!Forget, S2!FullSnapshot, P2!FullSnapshot, S2!DeltaSnapshot,
         P2!DeltaSnapshot, S2!DummySnapshot, P2!DummySnapshot, S2!NilSnapshot, P2!NilSnapshot,
         S2!Less, P2!Less, S2!Fulls, P2!Fulls, S2!LatestFull, P2!LatestFull, S2!LatestDeltas,
         P2!LatestDeltas, S2!LastDelta, P2!LastDelta, S2!LatestSnapshot, P2!LatestSnapshot
<1>3. S2!OnStoppedLeading <=> P2!OnStoppedLeading
  BY Zenon DEF S2!OnStoppedLeading, P2!OnStoppedLeading, S2!etcd, P2!etcd, S2!disk, P2!disk, S2!ssr, P2!ssr,
         S2!mem, P2!mem, S2!Works, P2!Works, S2!Fails, P2!Fails, S2!Demand, P2!Demand,
         S2!Forget, P2!Forget, S2!FullSnapshot, P2!FullSnapshot, S2!DeltaSnapshot,
         P2!DeltaSnapshot, S2!DummySnapshot, P2!DummySnapshot, S2!NilSnapshot, P2!NilSnapshot,
         S2!Less, P2!Less, S2!Fulls, P2!Fulls, S2!LatestFull, P2!LatestFull, S2!LatestDeltas,
         P2!LatestDeltas, S2!LastDelta, P2!LastDelta, S2!LatestSnapshot, P2!LatestSnapshot
<1>4. S2!Crash <=> P2!Crash
  BY Zenon DEF S2!Crash, P2!Crash, S2!etcd, P2!etcd, S2!disk, P2!disk, S2!ssr, P2!ssr, S2!mem, P2!mem,
         S2!Works, P2!Works, S2!Fails, P2!Fails, S2!Demand, P2!Demand, S2!Forget, P2!Forget,
         S2!FullSnapshot, P2!FullSnapshot, S2!DeltaSnapshot, P2!DeltaSnapshot, S2!DummySnapshot,
         P2!DummySnapshot, S2!NilSnapshot, P2!NilSnapshot, S2!Less, P2!Less, S2!Fulls, P2!Fulls,
         S2!LatestFull, P2!LatestFull, S2!LatestDeltas, P2!LatestDeltas, S2!LastDelta,
         P2!LastDelta, S2!LatestSnapshot, P2!LatestSnapshot
<1>5. S2!Loop <=> P2!Loop
  BY Zenon DEF S2!etcd, P2!etcd, S2!disk, P2!disk, S2!ssr, P2!ssr, S2!mem, P2!mem, S2!Works, P2!Works,
         S2!Fails, P2!Fails, S2!Demand, P2!Demand, S2!Forget, P2!Forget, S2!Saved, P2!Saved,
         S2!SaveFails, P2!SaveFails, S2!TakeDeltaSnapshot, P2!TakeDeltaSnapshot, S2!IsFinal,
         P2!IsFinal, S2!FullReturns, P2!FullReturns, S2!FullGet, P2!FullGet, S2!FullSave,
         P2!FullSave, S2!FullWatch, P2!FullWatch, S2!RunReturnsEarly, P2!RunReturnsEarly,
         S2!CollectSucceeds, P2!CollectSucceeds, S2!CollectFails, P2!CollectFails, S2!Collect,
         P2!Collect, S2!Response, P2!Response, S2!CollectEvent, P2!CollectEvent,
         S2!CollectStopped, P2!CollectStopped, S2!WatchEnds, P2!WatchEnds,
         S2!FullSnapshotRequired, P2!FullSnapshotRequired, S2!ProbeExit, P2!ProbeExit, S2!Probe,
         P2!Probe, S2!FirstDelta, P2!FirstDelta, S2!Run, P2!Run, S2!Stop, P2!Stop,
         S2!HandlerContinues, P2!HandlerContinues, S2!FullTimer, P2!FullTimer, S2!FullRequest,
         P2!FullRequest, S2!DeltaTimer, P2!DeltaTimer, S2!DeltaRequest, P2!DeltaRequest,
         S2!HandleWatchEvents, P2!HandleWatchEvents, S2!HandlerStopped, P2!HandlerStopped,
         S2!Loop, P2!Loop, S2!FullSnapshot, P2!FullSnapshot, S2!DeltaSnapshot, P2!DeltaSnapshot,
         S2!DummySnapshot, P2!DummySnapshot, S2!NilSnapshot, P2!NilSnapshot, S2!Torn, P2!Torn,
         S2!Less, P2!Less, S2!Fulls, P2!Fulls, S2!LatestFull, P2!LatestFull, S2!LatestDeltas,
         P2!LatestDeltas, S2!LastDelta, P2!LastDelta, S2!LatestSnapshot, P2!LatestSnapshot
<1> QED
  BY <1>1, <1>2, <1>3, <1>4, <1>5

\* Both speak of the store alike,
LEMMA SharedSame ==
    (P1!SharedStore <=> P2!SharedStore) /\ (P1!SharedStore' <=> P2!SharedStore')
BY Zenon DEF P1!SharedStore, P2!SharedStore, P1!Fits, P2!Fits, P1!Runs, P2!Runs,
             P1!Snapshot, P2!Snapshot, P1!Fulls, P2!Fulls

\* and as this module does,
LEMMA SharedHere ==
    /\ \A S : P1!Fulls(S) = Fulls(S) /\ P1!LatestFull(S) = LatestFull(S)
              /\ P1!LatestSnapshot(S) = LatestSnapshot(S)
    /\ \A S : P2!Fulls(S) = Fulls(S) /\ P2!LatestFull(S) = LatestFull(S)
              /\ P2!LatestSnapshot(S) = LatestSnapshot(S)
    /\ P1!Snapshot = Snapshot
BY DEF P1!Fulls, P1!LatestFull, P1!LatestSnapshot, P1!LatestDeltas, P1!LastDelta, P1!Less,
       P1!DummySnapshot, P1!NilSnapshot, P1!FullSnapshot, P1!Snapshot,
       P2!Fulls, P2!LatestFull, P2!LatestSnapshot, P2!LatestDeltas, P2!LastDelta, P2!Less,
       P2!DummySnapshot, P2!NilSnapshot, P2!FullSnapshot,
       Fulls, LatestFull, LatestSnapshot, LatestDeltas, LastDelta, Less,
       DummySnapshot, NilSnapshot, FullSnapshot, Snapshot

\* so what the sidecars keep of it is what a restoration needs.
LEMMA SharedGives == (P1!SharedStore => Kept) /\ (P1!SharedStore' => Kept')
BY DEF P1!SharedStore, P1!Fits, P1!Runs, P1!Snapshot, P1!Fulls, Kept, HoldsEvents, Restarts,
       Snapshot, Fulls

\* What a step of either does to the store
LEMMA Effect1 ==
    P1!Effect => /\ Affects(pc1, prev1, lastRev1, pc1', prev1', lastRev1')
                 /\ rev' = rev /\ (faults \in Nat => faults' \in Nat)
BY SharedHere DEF P1!Effect, P1!Nothing, P1!Adds, P1!Breaks, Affects

\* is what BucketProofs expects.
LEMMA Effect2 ==
    P2!Effect => /\ Affects(pc2, prev2, lastRev2, pc2', prev2', lastRev2')
                 /\ rev' = rev /\ (faults \in Nat => faults' \in Nat)
BY SharedHere DEF P2!Effect, P2!Nothing, P2!Adds, P2!Breaks, Affects

-----------------------------------------------------------------------------
\* The inductive invariant: the store, each sidecar beside the other, the compactor, and
\* the delta snapshots since the last disturbance.
FInv == P1!SharedStore /\ P1!Side /\ P2!Side /\ Orderly /\ Both

\* It holds at first,
LEMMA InitFInv == Init => FInv
<1> SUFFICES ASSUME Init PROVE FInv
  OBVIOUS
<1>1. P1!SharedStore /\ P1!Side /\ P2!Side
  BY Same1, Same2, P1!SideInit, P2!SideInit, FailoverAssumption DEF Init
<1>2. store = {} /\ clock = 0 /\ faults = 0 /\ disturbed = 0 /\ job = "idle"
  BY DEF Init, S1!Init, CompactorInit
<1> QED
  BY <1>1, <1>2, FS_EmptySet DEF FInv, Orderly, Both, CalmOrder, Covers, Calm, JobInv

\* and steps of the first sidecar keep it,
LEMMA Sidecar1Keeps ==
    ASSUME FInv, Sidecar1,
           disturbed' = IF clock' # clock /\ Disturbs THEN clock' ELSE disturbed
    PROVE  FInv'
<1>1. Kept /\ P1!SharedStore /\ P1!Side /\ faults \in Nat /\ UNCHANGED <<side2, jobVars>>
  BY SharedGives DEF FInv, Orderly, Sidecar1
<1>2. P1!Fulls(store) # {} =>
        P1!LatestFull(store) \in P1!Fulls(store) /\ P1!LatestSnapshot(store) \in store
  BY <1>1, SharedHere, KeptTops DEF FInv, Orderly
<1>3. P1!SharedStore' /\ P1!Side' /\ P1!Effect
  <2>1. P1!OnStartedLeading \/ P1!OnStoppedLeading \/ P1!Crash \/ P1!Loop
    BY Same1 DEF Sidecar1, Polls1
  <2> QED
    BY <1>1, <1>2, <2>1, P1!SideStep, FailoverAssumption
<1>4. pc1 # "off" => prev1.last \in Nat
  BY <1>1 DEF P1!Side, P1!SideTypes, P1!Snapshot
<1>5. Orderly' /\ Both' /\ store \subseteq store'
  BY <1>1, <1>3, <1>4, Effect1, SharedGives, Orderly1 DEF FInv
<1>6. P2!Side'
  BY <1>1, <1>3, <1>5, Effect1, P2!SideKept, FailoverAssumption DEF FInv, Kept, side2
<1> QED
  BY <1>3, <1>5, <1>6 DEF FInv

\* of the second,
LEMMA Sidecar2Keeps ==
    ASSUME FInv, Sidecar2,
           disturbed' = IF clock' # clock /\ Disturbs THEN clock' ELSE disturbed
    PROVE  FInv'
<1>1. Kept /\ P2!SharedStore /\ P2!Side /\ faults \in Nat /\ UNCHANGED <<side1, jobVars>>
  BY SharedGives, SharedSame DEF FInv, Orderly, Sidecar2
<1>2. P2!Fulls(store) # {} =>
        P2!LatestFull(store) \in P2!Fulls(store) /\ P2!LatestSnapshot(store) \in store
  BY <1>1, SharedHere, KeptTops DEF FInv, Orderly
<1>3. P2!SharedStore' /\ P2!Side' /\ P2!Effect
  <2>1. P2!OnStartedLeading \/ P2!OnStoppedLeading \/ P2!Crash \/ P2!Loop
    BY Same2 DEF Sidecar2, Polls2
  <2> QED
    BY <1>1, <1>2, <2>1, P2!SideStep, FailoverAssumption
<1>4. pc2 # "off" => prev2.last \in Nat
  BY <1>1 DEF P2!Side, P2!SideTypes, P2!Snapshot
<1>5. P1!SharedStore' /\ Kept'
  BY <1>3, SharedGives, SharedSame
<1>6. Orderly' /\ Both' /\ store \subseteq store'
  BY <1>1, <1>3, <1>4, <1>5, Effect2, Orderly2 DEF FInv
<1>7. P1!Side'
  BY <1>1, <1>3, <1>6, Effect2, P1!SideKept, FailoverAssumption DEF FInv, Kept, side1
<1> QED
  BY <1>3, <1>5, <1>6, <1>7 DEF FInv

\* of the compactor
LEMMA JobKeeps ==
    ASSUME FInv, Job,
           disturbed' = IF clock' # clock /\ Disturbs THEN clock' ELSE disturbed
    PROVE  FInv'
<1>1. /\ Kept /\ Orderly /\ CompactNext /\ UNCHANGED <<side1, side2>> /\ rev' = rev
  BY SharedGives DEF FInv, Job
<1>2. Orderly' /\ Both' /\ store \subseteq store'
  BY <1>1, OrderlyJob, BothKept DEF FInv
<1>3. P1!Side'
  BY <1>1, <1>2, P1!SideKept, FailoverAssumption DEF FInv, Kept, side1
<1>4. P2!Side'
  BY <1>1, <1>2, P2!SideKept, FailoverAssumption DEF FInv, Kept, side2
<1>5. P1!SharedStore'
  <2>1. CASE store' = store /\ clock' = clock
    BY <1>1, <2>1, P1!SharedKept, FailoverAssumption DEF FInv, Kept, P1!disk
  <2>2. ASSUME clock' = clock + 1, NEW c, Fresh(c), store' = store \cup {c}
        PROVE  P1!SharedStore'
    <3>1. P1!Fits(c) /\ c.created = clock + 1
      BY <2>2, SharedHere DEF P1!Fits, Fresh
    <3> QED
      BY <1>1, <2>2, <3>1, P1!StoreAdd, FailoverAssumption DEF FInv
  <2> QED
    BY <1>1, <2>1, <2>2, JobStep
<1> QED
  BY <1>2, <1>3, <1>4, <1>5 DEF FInv

\* and of etcd.
LEMMA EtcdKeeps ==
    ASSUME FInv, EtcdStep
    PROVE  FInv'
<1>1. Kept /\ Orderly' /\ Both' /\ store' = store /\ rev \in Nat /\ rev' \in Nat /\ rev <= rev'
  BY SharedGives, OrderlyEtcd, BothKept DEF FInv, EtcdStep, Kept
<1>2. P1!Side'
  BY <1>1, P1!SideKept, FailoverAssumption DEF FInv, EtcdStep, side1
<1>3. P2!Side'
  BY <1>1, P2!SideKept, FailoverAssumption DEF FInv, EtcdStep, side2
<1>4. P1!SharedStore'
  BY <1>1, P1!SharedKept, FailoverAssumption DEF FInv, EtcdStep, P1!disk
<1> QED
  BY <1>1, <1>2, <1>3, <1>4 DEF FInv

\* So it always holds,
LEMMA StepFInv == FInv /\ [Step]_vars => FInv'
BY Steps, Sidecar1Keeps, Sidecar2Keeps, JobKeeps, EtcdKeeps

\* and with it what a restoration needs.
LEMMA AlwaysKept == FullSpec => [](Kept /\ Orderly)
<1>1. FInv => Kept /\ Orderly
  BY SharedGives DEF FInv
<1> QED
  BY <1>1, InitFInv, StepFInv, PTL DEF FullSpec

\* The bounded specification that TLC explores is a part of the other.
THEOREM BoundedIsFull == Spec => FullSpec
<1>1. [Next]_vars => [Step]_vars
  BY DEF Next
<1> QED
  BY <1>1, PTL DEF Spec, FullSpec

\* A restoration that returns without error gives etcd's state at a revision no earlier
\* than the store claims, whatever two sidecars, failing saves and the compactor saved.
THEOREM RestorationIsSound == FullSpec => []RestoreSound
BY AlwaysKept, KeptSound, PTL

\* A replayable chain is restored, up to the last revision of its delta snapshots.
THEOREM ReplayableIsRestored == FullSpec => []ReplayableRestores
BY AlwaysKept, KeptRestores, PTL

\* Once a full snapshot comes after all that two sidecars at once or failing saves left,
\* the chain has neither gap nor overlap.
THEOREM ChainIsHealed == FullSpec => []ChainHeals
BY AlwaysKept, KeptHeals, PTL

\* A compacted snapshot that is saved beside a replayable chain leaves a store that is
\* restored to no less, although the listing it was made from may be an old one.
THEOREM CompactionIsSafe == FullSpec => CompactionKeeps
<1>1. Kept /\ Orderly /\ [Step]_vars =>
        [SaveCompacted /\ Replayable(store) =>
           LET db == Restore(store') IN db # Failed /\ db.rev >= CoveredRevision(store)]_vars
  BY KeptCompacts
<1> QED
  BY <1>1, AlwaysKept, PTL DEF FullSpec, CompactionKeeps
=============================================================================
