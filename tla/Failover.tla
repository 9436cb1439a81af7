------------------------------- MODULE Failover -------------------------------
(***************************************************************************)
(* Everything that writes to one bucket: the sidecars of two etcd members, *)
(* each a whole Snapshotter, and the compactor.  A sidecar learns from a   *)
(* poll whether its member leads, so it starts some time after its member  *)
(* won the election and goes on for some time after it lost it.  In        *)
(* between both sidecars save snapshots.                                   *)
(*                                                                         *)
(* Names of the variables of a sidecar are those of Snapshotter, with 1 or *)
(* 2 appended.  No HTTP requests; etcd's history is not compacted.         *)
(***************************************************************************)
EXTENDS Bucket

CONSTANTS
    MaxRev,        \* bound: revisions
    MaxDemands,    \* bound: terms of leadership and timer fires, of both sidecars
    MaxElections   \* bound: changes of etcd's leader

ASSUME FailoverAssumption ==
    /\ MaxRev \in Nat /\ MaxFaults \in Nat /\ MaxDemands \in Nat
    /\ MaxElections \in Nat /\ MaxJobs \in Nat

VARIABLES
    demands,
    leader, elections,   \* the etcd member that leads: 1 or 2
    pc1, caller1, lastRev1, prev1, prevFull1,
    prevFullOK1, watch1, events1, active1, stopCh1,
    pc2, caller2, lastRev2, prev2, prevFull2,
    prevFullOK2, watch2, events2, active2, stopCh2

side1 == <<pc1, caller1, lastRev1, prev1, prevFull1, prevFullOK1,
           watch1, events1, active1, stopCh1>>
side2 == <<pc2, caller2, lastRev2, prev2, prevFull2, prevFullOK2,
           watch2, events2, active2, stopCh2>>
vars == <<rev, demands, leader, elections, disturbed, bucket, faults, side1, side2, jobVars>>

S1 == INSTANCE Snapshotter WITH
         Clients <- {}, DeltaEnabled <- TRUE, LeaseRenewal <- TRUE, TornSave <- TRUE,
         req <- <<>>, compacted <- 0,
         pc <- pc1, caller <- caller1, lastRev <- lastRev1, prev <- prev1,
         prevFull <- prevFull1, prevFullOK <- prevFullOK1, watch <- watch1, events <- events1,
         active <- active1, stopCh <- stopCh1

S2 == INSTANCE Snapshotter WITH
         Clients <- {}, DeltaEnabled <- TRUE, LeaseRenewal <- TRUE, TornSave <- TRUE,
         req <- <<>>, compacted <- 0,
         pc <- pc2, caller <- caller2, lastRev <- lastRev2, prev <- prev2,
         prevFull <- prevFull2, prevFullOK <- prevFullOK2, watch <- watch2, events <- events2,
         active <- active2, stopCh <- stopCh2

Init ==
    /\ S1!Init /\ S2!Init
    /\ CompactorInit
    /\ leader = 1 /\ elections = 0 /\ disturbed = 0

-----------------------------------------------------------------------------
\* Another etcd member wins an election.
Elect ==
    /\ elections < MaxElections /\ elections' = elections + 1
    /\ leader' = 3 - leader
    /\ UNCHANGED <<rev, demands, bucket, faults, side1, side2, jobVars>>

Write == S1!Write /\ UNCHANGED <<leader, elections, side2, jobVars>>

\* The poll of a sidecar finds that its member leads, or that it does not any more.
Polls1 ==
    \/ leader = 1 /\ S1!OnStartedLeading
    \/ leader # 1 /\ S1!OnStoppedLeading
Polls2 ==
    \/ leader = 2 /\ S2!OnStartedLeading
    \/ leader # 2 /\ S2!OnStoppedLeading

Sidecar1 == (Polls1 \/ S1!Crash \/ S1!Loop) /\ UNCHANGED <<leader, elections, side2, jobVars>>
Sidecar2 == (Polls2 \/ S2!Crash \/ S2!Loop) /\ UNCHANGED <<leader, elections, side1, jobVars>>

Job == CompactNext /\ UNCHANGED <<rev, demands, leader, elections, side1, side2>>

\* Both loops run, or a Save fails.
Disturbs == (pc1 # "off" /\ pc2 # "off") \/ faults' # faults

Step ==
    /\ Elect \/ Write \/ Sidecar1 \/ Sidecar2 \/ Job
    /\ disturbed' = IF clock' # clock /\ Disturbs THEN clock' ELSE disturbed

\* Bound: a behaviour has failing calls or changes of etcd's leader, not both.
Apart == faults = 0 \/ elections = 0

Next == Step /\ Apart'

Spec == Init /\ [][Next]_vars

\* The same without that bound.
FullSpec == Init /\ [][Step]_vars

-----------------------------------------------------------------------------
\* A compacted snapshot replaces what it was made of: if the chain could be replayed
\* before it was saved, the store can be restored afterwards, to no less than it
\* covered, although snapshots were saved since the compactor listed the store.
CompactionKeeps ==
    [][SaveCompacted /\ Replayable(store) =>
         LET db == Restore(store')
         IN db # Failed /\ db.rev >= CoveredRevision(store)]_vars
=============================================================================
