---------------------------- MODULE SnapshotLeases ----------------------------
(***************************************************************************)
(* The two Kubernetes leases that announce the latest snapshots.  The full *)
(* snapshot lease is updated by three actors: the probe loop after its     *)
(* first full snapshot, the goroutine RenewFullSnapshotLeasePeriodically   *)
(* and the compactor.  The delta snapshot lease is updated by the event    *)
(* handler, and by the handler of a sidecar that has not noticed yet that  *)
(* it does not lead any more.                                              *)
(*                                                                         *)
(* The store is the revision of its latest full snapshot and the last      *)
(* revisions of its delta snapshots.  Of a lease the holder identity is    *)
(* kept, as a number (-1: none), and the resource version that an          *)
(* optimistic lock compares; RenewTime is left out.                        *)
(*                                                                         *)
(* pc is where the goroutine of the probe loop is: before its first        *)
(* snapshot (probe), updating a lease for it (firstFull, firstDelta), about *)
(* to call Run (run), in the select of the handler (handler), after a full *)
(* snapshot (reset) or a delta snapshot (delta) there, or in stop (stop).  *)
(*                                                                         *)
(* The pointer FullSnapshotLeaseUpdateTimer is shared without a lock by    *)
(* the handler, the goroutine and the defers of earlier goroutines.  The   *)
(* goroutine reads it when it comes to its select (loop) and waits for     *)
(* that timer's channel (select), whatever becomes of the pointer.         *)
(***************************************************************************)
EXTENDS Integers

CONSTANTS
    MaxRev,      \* bound: revisions
    MaxSaves,    \* bound: snapshots saved
    MaxFaults,   \* bound: failing calls
    MaxRuns,     \* bound: calls of Run
    MaxJobs      \* bound: compactions and updates by the stale sidecar

ASSUME LeasesAssumption ==
    {MaxRev, MaxSaves, MaxFaults, MaxRuns, MaxJobs} \subseteq Nat

VARIABLES
    full, deltas, saves,        \* the store
    fullLease, deltaLease,      \* the leases
    pc, prevFull,               \* the probe loop; ssr.PrevFullSnapshot (0: nil)
    renewal,                    \* the goroutine: none, starting, loop, select, update
    exiting, dropping,          \* earlier such goroutines before their defer, and in it,
                                \*   between the timer's Stop and setting it to nil
    timer,                      \* FullSnapshotLeaseUpdateTimer: nil, stopped, armed, or
                                \*   lost: nil, while the goroutine waits for an armed one
    overtaken,                  \* an update in flight stopped a timer that was reset
    fullUpd, deltaUpd,          \* each actor's UpdateFullSnapshotLease and
                                \*   UpdateDeltaSnapshotLease
    faults, runs, jobs          \* spent budgets

store == <<full, deltas, saves>>
leases == <<fullLease, deltaLease>>
goroutine == <<renewal, exiting, dropping, timer, overtaken>>
budgets == <<faults, runs, jobs>>
leaseVars == <<store, leases, pc, prevFull, goroutine, fullUpd, deltaUpd, budgets>>

Idle == [at |-> "idle", snap |-> 0, ver |-> 0]
IdleDelta == [at |-> "idle", snap |-> 0, holder |-> -1]

LeaseTypeOK ==
    /\ full \in Nat /\ deltas \subseteq Nat /\ saves \in Nat
    /\ fullLease.rev \in Int /\ fullLease.ver \in Nat /\ deltaLease \in Int
    /\ pc \in {"probe", "firstFull", "firstDelta", "run", "handler", "reset", "delta", "stop"}
    /\ renewal \in {"none", "starting", "loop", "select", "update"}
    /\ exiting \in Nat /\ dropping \in Nat
    /\ timer \in {"nil", "stopped", "armed", "lost"} /\ overtaken \in BOOLEAN

LeaseInit ==
    /\ full = 0 /\ deltas = {} /\ saves = 0
    /\ fullLease = [rev |-> -1, ver |-> 0] /\ deltaLease = -1
    /\ pc = "probe" /\ prevFull = 0
    /\ renewal = "none" /\ exiting = 0 /\ dropping = 0 /\ timer = "nil" /\ overtaken = FALSE
    /\ fullUpd = [a \in {"probe", "renewer", "compactor"} |-> Idle]
    /\ deltaUpd = [a \in {"handler", "stale"} |-> IdleDelta]
    /\ faults = 0 /\ runs = 0 /\ jobs = 0

Works == faults' = faults
Fails == faults < MaxFaults /\ faults' = faults + 1

\* The last revision in the store.
Top == CHOOSE r \in {full} \cup deltas : \A s \in {full} \cup deltas : s <= r

-----------------------------------------------------------------------------
(* UpdateFullSnapshotLease: Get and Patch, again after a conflict *)

\* Set when it starts and read when it has returned: done or failed.
StartFullUpdate(a, snap) == fullUpd' = [fullUpd EXCEPT ![a] = [Idle EXCEPT !.at = "get", !.snap = snap]]
Proceeds(a, at) == fullUpd' = [fullUpd EXCEPT ![a].at = at]

\* A lease that is ahead of the snapshot is left alone.
GetFullLease(a) ==
    /\ fullUpd[a].at = "get"
    /\ \/ Works /\ fullLease.rev > fullUpd[a].snap /\ Proceeds(a, "done")
       \/ /\ Works /\ fullLease.rev <= fullUpd[a].snap
          /\ fullUpd' = [fullUpd EXCEPT ![a].at = "patch", ![a].ver = fullLease.ver]
       \/ Fails /\ Proceeds(a, "failed")
    /\ UNCHANGED <<store, leases, pc, prevFull, goroutine, deltaUpd, runs, jobs>>

PatchedBy(a) == fullLease' = [rev |-> fullUpd[a].snap, ver |-> fullLease.ver + 1]

\* Mutant: the patch carries no resource version.
PatchFullLeaseUnlocked(a) ==
    /\ fullUpd[a].at = "patch"
    /\ \/ Works /\ PatchedBy(a) /\ Proceeds(a, "done")
       \/ Fails /\ (UNCHANGED fullLease \/ PatchedBy(a)) /\ Proceeds(a, "failed")
    /\ UNCHANGED <<store, deltaLease, pc, prevFull, goroutine, deltaUpd, runs, jobs>>

\* The optimistic lock; a patch that fails may have been applied.
PatchFullLease(a) ==
    /\ fullUpd[a].at = "patch"
    /\ LET current == fullUpd[a].ver = fullLease.ver
       IN \/ Works /\ current /\ PatchedBy(a) /\ Proceeds(a, "done")
          \/ Works /\ ~current /\ UNCHANGED fullLease /\ Proceeds(a, "get")
          \/ Fails /\ (UNCHANGED fullLease \/ (current /\ PatchedBy(a))) /\ Proceeds(a, "failed")
    /\ UNCHANGED <<store, deltaLease, pc, prevFull, goroutine, deltaUpd, runs, jobs>>

Returned(a) == fullUpd[a].at \in {"done", "failed"}
Reap(a) == fullUpd' = [fullUpd EXCEPT ![a] = Idle]

-----------------------------------------------------------------------------
(* DeltaSnapshotCaseLeaseUpdate *)

ListedDelta == IF Top > full THEN Top ELSE 0

StartDeltaUpdate(a) == deltaUpd' = [deltaUpd EXCEPT ![a] = [IdleDelta EXCEPT !.at = "list"]]

\* The store is listed, then the lease read.  holder is what the merge patch will
\* set, or -1 if it leaves the holder identity alone.
ListDeltas(a) ==
    /\ deltaUpd[a].at = "list"
    /\ \/ /\ Works
          /\ deltaUpd' = [deltaUpd EXCEPT ![a].at = "get", ![a].snap = ListedDelta]
       \/ Fails /\ deltaUpd' = [deltaUpd EXCEPT ![a] = [IdleDelta EXCEPT !.at = "done"]]
    /\ UNCHANGED <<store, leases, pc, prevFull, goroutine, fullUpd, runs, jobs>>

GetDeltaLease(a) ==
    /\ deltaUpd[a].at = "get"
    /\ \/ /\ Works
          /\ deltaUpd' = [deltaUpd EXCEPT ![a].at = "patch",
                            ![a].holder = IF deltaLease < deltaUpd[a].snap THEN deltaUpd[a].snap ELSE -1]
       \/ Fails /\ deltaUpd' = [deltaUpd EXCEPT ![a] = [IdleDelta EXCEPT !.at = "done"]]
    /\ UNCHANGED <<store, leases, pc, prevFull, goroutine, fullUpd, runs, jobs>>

\* The patch of this lease carries no resource version; one that fails may have been applied.
PatchDeltaLease(a) ==
    /\ deltaUpd[a].at = "patch"
    /\ LET patched == IF deltaUpd[a].holder = -1 THEN deltaLease ELSE deltaUpd[a].holder
       IN \/ Works /\ deltaLease' = patched
          \/ Fails /\ deltaLease' \in {deltaLease, patched}
    /\ deltaUpd' = [deltaUpd EXCEPT ![a] = [IdleDelta EXCEPT !.at = "done"]]
    /\ UNCHANGED <<store, fullLease, pc, prevFull, goroutine, fullUpd, runs, jobs>>

DeltaReturned(a) == deltaUpd[a].at = "done"
DeltaReap(a) == deltaUpd' = [deltaUpd EXCEPT ![a] = IdleDelta]

-----------------------------------------------------------------------------
(* the store *)

NewFull(r) ==
    /\ saves < MaxSaves /\ saves' = saves + 1
    /\ r \in {Top, Top + 1} \cap 1 .. MaxRev
    /\ full' = r /\ UNCHANGED deltas

NewDelta ==
    /\ saves < MaxSaves /\ saves' = saves + 1
    /\ Top < MaxRev
    /\ deltas' = deltas \cup {Top + 1} /\ UNCHANGED full

-----------------------------------------------------------------------------
(* the probe loop *)

\* The first full snapshot of a term or after a failure, then its lease.
FirstFull ==
    /\ pc = "probe"
    /\ \E r \in 1 .. MaxRev : NewFull(r) /\ prevFull' = r /\ StartFullUpdate("probe", r)
    /\ pc' = "firstFull"
    /\ UNCHANGED <<leases, goroutine, deltaUpd, budgets>>

FirstFullAnnounced ==
    /\ pc = "firstFull" /\ Returned("probe")
    /\ pc' = "run" /\ Reap("probe")
    /\ UNCHANGED <<store, leases, prevFull, goroutine, deltaUpd, budgets>>

\* No full snapshot is required; the first delta snapshot is saved if there are events.
FirstDelta ==
    /\ pc = "probe" /\ prevFull # 0
    /\ NewDelta \/ UNCHANGED store
    /\ pc' = "firstDelta" /\ StartDeltaUpdate("handler")
    /\ UNCHANGED <<leases, prevFull, goroutine, fullUpd, budgets>>

FirstDeltaAnnounced ==
    /\ pc = "firstDelta" /\ DeltaReturned("handler")
    /\ pc' = "run" /\ DeltaReap("handler")
    /\ UNCHANGED <<store, leases, prevFull, goroutine, fullUpd, budgets>>

\* Run starts the goroutine, which makes its timer when it gets to run.
Run ==
    /\ pc = "run" /\ runs < MaxRuns /\ runs' = runs + 1
    /\ pc' = "handler" /\ renewal' = "starting" /\ overtaken' = FALSE
    /\ UNCHANGED <<store, leases, prevFull, exiting, dropping, timer, fullUpd, deltaUpd,
                   faults, jobs>>

-----------------------------------------------------------------------------
(* snapshotEventHandler *)

FullSnapshot ==
    /\ pc = "handler"
    /\ \E r \in 1 .. MaxRev : NewFull(r) /\ prevFull' = r
    /\ pc' = "reset"
    /\ UNCHANGED <<leases, goroutine, fullUpd, deltaUpd, budgets>>

Dropped == timer \in {"nil", "lost"}

\* Mutant: the timer is not reset after a full snapshot.
ResetTimerNot ==
    /\ pc = "reset" /\ ~Dropped
    /\ pc' = "handler" /\ UNCHANGED <<timer, overtaken>>
    /\ UNCHANGED <<store, leases, prevFull, renewal, exiting, dropping, fullUpd, deltaUpd, budgets>>

\* FullSnapshotLeaseUpdateTimer.Stop() and Reset(time.Nanosecond)
ResetTimer ==
    /\ pc = "reset" /\ ~Dropped
    /\ pc' = "handler" /\ timer' = "armed" /\ overtaken' = FALSE
    /\ UNCHANGED <<store, leases, prevFull, renewal, exiting, dropping, fullUpd, deltaUpd, budgets>>

\* Mutant: the lease is updated only when a delta snapshot was saved.
DeltaSnapshotOnly ==
    /\ pc = "handler"
    /\ NewDelta
    /\ pc' = "delta" /\ StartDeltaUpdate("handler")
    /\ UNCHANGED <<leases, prevFull, goroutine, fullUpd, budgets>>

\* The timer of the delta snapshots, a request or the memory limit; with the timer the
\* lease is updated also when there was nothing to save.
DeltaSnapshot ==
    /\ pc = "handler"
    /\ NewDelta \/ UNCHANGED store
    /\ pc' = "delta" /\ StartDeltaUpdate("handler")
    /\ UNCHANGED <<leases, prevFull, goroutine, fullUpd, budgets>>

DeltaAnnounced ==
    /\ pc = "delta" /\ DeltaReturned("handler")
    /\ pc' = "handler" /\ DeltaReap("handler")
    /\ UNCHANGED <<store, leases, prevFull, goroutine, fullUpd, budgets>>

\* The handler returns: a failure, or the stop channel is closed.
HandlerReturns ==
    /\ pc = "handler"
    /\ pc' = "stop"
    /\ UNCHANGED <<store, leases, prevFull, goroutine, fullUpd, deltaUpd, budgets>>

\* stop sends on the unbuffered channel, and the goroutine returns.
StopReceived ==
    /\ pc = "stop" /\ renewal = "select"
    /\ pc' = "probe" /\ renewal' = "none" /\ exiting' = exiting + 1
    /\ timer' = IF timer = "lost" THEN "nil" ELSE timer
    /\ UNCHANGED <<store, leases, prevFull, dropping, overtaken, fullUpd, deltaUpd, budgets>>

-----------------------------------------------------------------------------
(* RenewFullSnapshotLeasePeriodically *)

RenewerStarts ==
    /\ renewal = "starting"
    /\ renewal' = "loop" /\ timer' = "armed"
    /\ UNCHANGED <<store, leases, pc, prevFull, exiting, dropping, overtaken, fullUpd,
                   deltaUpd, budgets>>

\* The select reads the pointer once, for the channel that it then waits for.
EnterSelect ==
    /\ renewal = "loop" /\ ~Dropped
    /\ renewal' = "select"
    /\ UNCHANGED <<store, leases, pc, prevFull, exiting, dropping, timer, overtaken, fullUpd,
                   deltaUpd, budgets>>

\* The timer fires; the full snapshot is read without a lock.
Tick ==
    /\ renewal = "select"
    /\ \/ timer = "armed" /\ timer' = "stopped"
       \/ timer = "lost" /\ timer' = "nil"
    /\ renewal' = "update" /\ StartFullUpdate("renewer", prevFull)
    /\ UNCHANGED <<store, leases, pc, prevFull, exiting, dropping, overtaken, deltaUpd, budgets>>

\* Mutant: a failed update ends the goroutine.
RenewedOrGone ==
    /\ renewal = "update" /\ Returned("renewer") /\ ~Dropped
    /\ IF fullUpd["renewer"].at = "done"
       THEN timer' = "stopped" /\ overtaken' = (timer = "armed") /\ renewal' = "loop"
       ELSE UNCHANGED <<timer, overtaken>> /\ renewal' = "none"
    /\ Reap("renewer")
    /\ UNCHANGED <<store, leases, pc, prevFull, exiting, dropping, deltaUpd, budgets>>

\* An update that failed is tried again after the interval, one that succeeded stops
\* the timer, also one that the handler has reset since.
Renewed ==
    /\ renewal = "update" /\ Returned("renewer") /\ ~Dropped
    /\ IF fullUpd["renewer"].at = "done"
       THEN timer' = "stopped" /\ overtaken' = (timer = "armed")
       ELSE timer' = "armed" /\ UNCHANGED overtaken
    /\ renewal' = "loop" /\ Reap("renewer")
    /\ UNCHANGED <<store, leases, pc, prevFull, exiting, dropping, deltaUpd, budgets>>

\* The defer of a goroutine that was told to stop: it stops and drops whatever timer is
\* there, in two steps.
RenewerExits ==
    /\ exiting > 0 /\ exiting' = exiting - 1
    /\ IF Dropped THEN UNCHANGED <<timer, dropping>>
       ELSE timer' = "stopped" /\ dropping' = dropping + 1
    /\ UNCHANGED <<store, leases, pc, prevFull, renewal, overtaken, fullUpd, deltaUpd, budgets>>

DropTimer ==
    /\ dropping > 0 /\ dropping' = dropping - 1
    /\ timer' = IF renewal = "select" /\ timer \in {"armed", "lost"} THEN "lost" ELSE "nil"
    /\ UNCHANGED <<store, leases, pc, prevFull, renewal, exiting, overtaken, fullUpd, deltaUpd,
                   budgets>>

\* The pointer is used before the timer was made or after it was dropped: the process dies
\* and starts again from the store.  A goroutine that waits in its select does not use it.
Panic ==
    /\ Dropped
    /\ pc = "reset" \/ renewal = "loop" \/ (renewal = "update" /\ Returned("renewer"))
    /\ pc' = "probe" /\ prevFull' = full
    /\ renewal' = "none" /\ exiting' = 0 /\ dropping' = 0 /\ timer' = "nil" /\ overtaken' = FALSE
    /\ fullUpd' = [fullUpd EXCEPT !["probe"] = Idle, !["renewer"] = Idle]
    /\ deltaUpd' = [deltaUpd EXCEPT !["handler"] = IdleDelta]
    /\ UNCHANGED <<store, leases, budgets>>

-----------------------------------------------------------------------------
(* other actors *)

\* The compactor saves a full snapshot of what it listed and updates the lease.
Compact ==
    /\ jobs < MaxJobs /\ jobs' = jobs + 1 /\ full # 0
    /\ \E r \in 1 .. MaxRev : full <= r /\ r <= Top /\ full' = r /\ StartFullUpdate("compactor", r)
    /\ UNCHANGED <<deltas, saves, leases, pc, prevFull, goroutine, deltaUpd, faults, runs>>

\* A sidecar that led before runs its last update of the delta snapshot lease.
StaleUpdate ==
    /\ jobs < MaxJobs /\ jobs' = jobs + 1
    /\ deltaUpd["stale"].at = "idle" /\ StartDeltaUpdate("stale")
    /\ UNCHANGED <<store, leases, pc, prevFull, goroutine, fullUpd, faults, runs>>

Main ==
    \/ FirstFull \/ FirstFullAnnounced \/ FirstDelta \/ FirstDeltaAnnounced \/ Run
    \/ FullSnapshot \/ ResetTimer \/ DeltaSnapshot \/ DeltaAnnounced \/ HandlerReturns
    \/ StopReceived

Renewer == RenewerStarts \/ EnterSelect \/ Tick \/ Renewed \/ RenewerExits \/ DropTimer \/ Panic

Updates ==
    \/ \E a \in DOMAIN fullUpd : GetFullLease(a) \/ PatchFullLease(a)
    \/ \E a \in DOMAIN deltaUpd : ListDeltas(a) \/ GetDeltaLease(a) \/ PatchDeltaLease(a)

LeaseNext == Main \/ Renewer \/ Updates \/ Compact \/ StaleUpdate

\* Goroutines keep running and calls return (the lease calls have a timeout); the timer
\* of the delta snapshots keeps firing.  Snapshots, failures and jobs come when they come.
LeaseFairness ==
    /\ WF_leaseVars(ResetTimer \/ DeltaSnapshot \/ DeltaAnnounced \/ StopReceived)
    /\ WF_leaseVars(RenewerStarts \/ EnterSelect \/ Tick \/ Renewed) /\ WF_leaseVars(Panic)
    /\ WF_leaseVars(RenewerExits \/ DropTimer)
    /\ WF_leaseVars(GetFullLease("renewer") \/ PatchFullLease("renewer"))
    /\ WF_leaseVars(ListDeltas("handler") \/ GetDeltaLease("handler") \/ PatchDeltaLease("handler"))

LeaseSpec == LeaseInit /\ [][LeaseNext]_leaseVars /\ LeaseFairness

-----------------------------------------------------------------------------
(* Properties *)

\* The revision in the full snapshot lease never falls back, although the probe loop,
\* the goroutine and the compactor update it at the same time from what they read
\* before: "multiple actors update the full snapshot lease".
FullLeaseMonotone == [][fullLease'.rev >= fullLease.rev]_leaseVars

InHandler == pc \in {"handler", "reset", "delta"}

\* The defer of an earlier goroutine stopped and dropped the timer that this one waits for.
Stranded == renewal = "select" /\ timer = "nil"

\* As long as the event handler runs, the full snapshot lease reaches the latest full
\* snapshot, whatever updates failed, unless an update of an earlier snapshot was in
\* flight while the timer was reset and stopped it again when it succeeded, or the
\* goroutine waits for a timer that is stopped for good.
FullLeaseCatchesUp ==
    InHandler ~> (fullLease.rev >= prevFull \/ overtaken \/ Stranded \/ ~InHandler)

\* As long as the event handler runs, the delta snapshot lease reaches the latest delta
\* snapshot, unless a full snapshot takes its place: an update that a stale sidecar
\* overwrote, without a lock, is made good by the next one.
DeltaLeaseCatchesUp == InHandler ~> (deltaLease >= Top \/ Top = full \/ ~InHandler)

\* stop returns: the goroutine that it waits for comes back to its select, also from an
\* update that fails, or the process dies of the timer that it has lost.
StopReturns == pc = "stop" ~> pc = "probe"
=============================================================================
