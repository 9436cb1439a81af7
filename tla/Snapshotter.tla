----------------------------- MODULE Snapshotter -----------------------------
(***************************************************************************)
(* The backup leader's snapshotter: the probe loop that a sidecar runs     *)
(* while it leads, the event loop inside it (snapshotEventHandler), the    *)
(* HTTP requests that trigger snapshots out of schedule, and what they     *)
(* share with the outside: etcd, whose revision grows and whose history is *)
(* compacted, and the object store.                                        *)
(*                                                                         *)
(* pc is where the goroutine of runEtcdProbeLoopWithSnapshotter is:        *)
(*   off         not leading, or the process is down                       *)
(*   probe       top of the probe loop                                     *)
(*   collect     entering CollectEventsSincePrevSnapshot                   *)
(*   collecting  in its receive loop                                       *)
(*   collected   it returned nil to the probe loop                         *)
(*   full, fullSave, fullWatch   the three parts of takeFullSnapshot       *)
(*   start       the first snapshot is taken, Run is about to be called    *)
(*   handler     waiting in the select of snapshotEventHandler             *)
(*   stopping    the handler returned, stop() runs                         *)
(*   hung        stop() waits for a goroutine that was never started       *)
(* caller says on whose behalf the function named by pc was called.        *)
(*                                                                         *)
(* A watch response carries one event here.  A response with more is a     *)
(* run of one-event steps, since the memory limit and the end of           *)
(* collecting are nondeterministic after each event.                       *)
(***************************************************************************)
EXTENDS SnapStore

CONSTANTS
    Clients,       \* HTTP requests that may be outstanding at once
    DeltaEnabled,  \* DeltaSnapshotPeriod >= one second
    LeaseRenewal,  \* HealthConfig.SnapshotLeaseRenewalEnabled
    TornSave,      \* a Save that fails may leave an object behind
    MaxRev,        \* bound: etcd stops accepting writes at this revision
    MaxFaults,     \* bound: failing calls, lost watches and crashes
    MaxDemands     \* bound: terms of leadership, timer fires and requests

ASSUME SnapshotterAssumption ==
    /\ {DeltaEnabled, LeaseRenewal, TornSave} \subseteq BOOLEAN
    /\ MaxRev \in Nat /\ MaxFaults \in Nat /\ MaxDemands \in Nat
    /\ Clients \cap {"probe", "timer", "run"} = {}

VARIABLES
    rev, compacted,                  \* etcd
    store, clock,                    \* the object store and its save ordinal
    pc, caller, lastRev,             \* the probe loop and its local variables
    prev, prevFull, prevFullOK,      \* PrevSnapshot, PrevFullSnapshot(Succeeded)
    watch, events,                   \* next revision of watchCh (0: nil); ssr.events
    active, stopCh,                  \* SnapshotterStateActive; ssrStopCh is closed
    req,                             \* what each HTTP request waits for
    faults, demands                  \* spent budgets

etcd == <<rev, compacted>>
disk == <<store, clock>>
ssr == <<prev, prevFull, prevFullOK>>
mem == <<watch, events>>
vars == <<etcd, disk, pc, caller, lastRev, ssr, mem, active, stopCh, req,
          faults, demands>>

PCs == {"off", "probe", "collect", "collecting", "collected", "full", "fullSave",
        "fullWatch", "start", "handler", "stopping", "hung"}

TypeOK ==
    /\ rev \in Nat /\ compacted \in Nat /\ lastRev \in Nat
    /\ store \subseteq Snapshot /\ clock \in Nat
    /\ pc \in PCs /\ caller \in {"probe", "timer", "run"} \cup Clients
    /\ prev \in Snapshot /\ prevFull \in Snapshot \cup {NilSnapshot}
    /\ prevFullOK \in BOOLEAN /\ active \in BOOLEAN /\ stopCh \in BOOLEAN
    /\ watch \in Nat /\ events \in Seq(Nat)
    /\ req \in [Clients -> {"idle", "full", "final", "delta", "lost"}]
    /\ faults \in Nat /\ demands \in Nat

\* A fresh etcd is at revision 1 and the bucket is empty.
Init ==
    /\ rev = 1 /\ compacted = 0
    /\ store = {} /\ clock = 0
    /\ pc = "off" /\ caller = "probe" /\ lastRev = 0
    /\ prev = DummySnapshot /\ prevFull = NilSnapshot /\ prevFullOK = TRUE
    /\ watch = 0 /\ events = <<>>
    /\ active = FALSE /\ stopCh = FALSE
    /\ req = [c \in Clients |-> "idle"]
    /\ faults = 0 /\ demands = 0

Works == faults' = faults
Fails == faults < MaxFaults /\ faults' = faults + 1
Demand == demands < MaxDemands /\ demands' = demands + 1

-----------------------------------------------------------------------------
(* etcd *)

\* A client of etcd commits a transaction.
Write ==
    /\ rev < MaxRev /\ rev' = rev + 1
    /\ UNCHANGED <<compacted, disk, pc, caller, lastRev, ssr, mem, active, stopCh, req,
                   faults, demands>>

\* etcd forgets the revisions before r; a watch that still needs one fails.
Compact ==
    /\ \E r \in 1 .. MaxRev : compacted < r /\ r <= rev /\ compacted' = r
    /\ UNCHANGED <<rev, disk, pc, caller, lastRev, ssr, mem, active, stopCh, req,
                   faults, demands>>

-----------------------------------------------------------------------------
(* leadership *)

\* OnStartedLeading: a new Snapshotter that continues from the store's latest
\* snapshot.  A request that still waits on the previous Snapshotter's channels
\* has nobody left to serve it.
OnStartedLeading ==
    /\ pc = "off" /\ Demand
    /\ pc' = "probe"
    /\ prev' = LatestSnapshot(store)
    /\ prevFull' = LatestFull(store)
    /\ prevFullOK' = TRUE
    /\ req' = [c \in Clients |-> IF req[c] = "idle" THEN "idle" ELSE "lost"]
    /\ UNCHANGED <<etcd, disk, caller, lastRev, mem, active, stopCh, faults>>

\* The leader elector cancels the context; handleSsrStopRequest closes ssrStopCh.
OnStoppedLeading ==
    /\ pc # "off" /\ ~stopCh
    /\ stopCh' = TRUE
    /\ UNCHANGED <<etcd, disk, pc, caller, lastRev, ssr, mem, active, req, faults, demands>>

\* The Snapshotter object is dropped.
Forget ==
    /\ pc' = "off" /\ caller' = "probe" /\ lastRev' = 0
    /\ prev' = DummySnapshot /\ prevFull' = NilSnapshot /\ prevFullOK' = TRUE
    /\ watch' = 0 /\ events' = <<>>
    /\ active' = FALSE /\ stopCh' = FALSE

\* The process dies at any point, and its HTTP connections with it.
Crash ==
    /\ pc # "off" /\ Fails /\ Forget
    /\ req' = [c \in Clients |-> "idle"]
    /\ UNCHANGED <<etcd, disk, demands>>

-----------------------------------------------------------------------------
(* saving *)

\* Save writes snap's object, or fails and leaves nothing or (TornSave) an
\* object of that name with all or part of the contents.
Saved(snap) ==
    /\ store' = store \cup {snap} /\ clock' = clock + 1
    /\ Works

SaveFails(snap) ==
    /\ Fails
    /\ \/ UNCHANGED disk
       \/ /\ TornSave
          /\ \E left \in {snap, Torn(snap)} : store' = store \cup {left}
          /\ clock' = clock + 1

\* Mutant: the name starts at, not after, the previous snapshot's last revision.
TakeDeltaSnapshotOverlapping(evs, ok) ==
    /\ events' = <<>>
    /\ IF evs = <<>>
       THEN ok /\ Works /\ UNCHANGED <<disk, prev>>
       ELSE LET snap == DeltaSnapshot(prev.last, evs[Len(evs)], evs, clock + 1)
            IN \/ ok /\ Saved(snap) /\ prev' = snap
               \/ ~ok /\ SaveFails(snap) /\ UNCHANGED prev

\* Mutant: the name ends at the revision that the watch would deliver next.
TakeDeltaSnapshotPast(evs, ok) ==
    /\ events' = <<>>
    /\ IF evs = <<>>
       THEN ok /\ Works /\ UNCHANGED <<disk, prev>>
       ELSE LET snap == DeltaSnapshot(prev.last + 1, evs[Len(evs)] + 1, evs, clock + 1)
            IN \/ ok /\ Saved(snap) /\ prev' = snap
               \/ ~ok /\ SaveFails(snap) /\ UNCHANGED prev

\* Mutant: a delta snapshot is saved although no event was received.
TakeDeltaSnapshotAlways(evs, ok) ==
    /\ events' = <<>>
    /\ LET last == IF evs = <<>> THEN prev.last ELSE evs[Len(evs)]
           snap == DeltaSnapshot(prev.last + 1, last, evs, clock + 1)
       IN \/ ok /\ Saved(snap) /\ prev' = snap
          \/ ~ok /\ SaveFails(snap) /\ UNCHANGED prev

\* TakeDeltaSnapshot of the events evs; the in-memory events are dropped on
\* every way out.
TakeDeltaSnapshot(evs, ok) ==
    /\ events' = <<>>
    /\ IF evs = <<>>
       THEN ok /\ Works /\ UNCHANGED <<disk, prev>>
       ELSE LET snap == DeltaSnapshot(prev.last + 1, evs[Len(evs)], evs, clock + 1)
            IN \/ ok /\ Saved(snap) /\ prev' = snap
               \/ ~ok /\ SaveFails(snap) /\ UNCHANGED prev

-----------------------------------------------------------------------------
(* takeFullSnapshot *)

IsFinal == caller \in Clients /\ req[caller] = "final"

\* Mutant: only a request that succeeded is acknowledged.
FullReturnsSilently(ok) ==
    /\ events' = <<>>
    /\ prevFullOK' = ok
    /\ IF caller = "probe"
       THEN pc' = (IF ok THEN "start" ELSE "probe") /\ UNCHANGED active
       ELSE pc' = (IF ok THEN "handler" ELSE "stopping") /\ active' = (active /\ ok)
    /\ req' = IF caller \in Clients
              THEN [req EXCEPT ![caller] = IF ok THEN "idle" ELSE "lost"] ELSE req

\* takeFullSnapshot returns to its caller: the probe loop, or the event handler
\* for the timer or for a request, which it answers before anything else.
FullReturns(ok) ==
    /\ events' = <<>>
    /\ prevFullOK' = ok
    /\ IF caller = "probe"
       THEN pc' = (IF ok THEN "start" ELSE "probe") /\ UNCHANGED active
       ELSE pc' = (IF ok THEN "handler" ELSE "stopping") /\ active' = (active /\ ok)
    /\ req' = IF caller \in Clients THEN [req EXCEPT ![caller] = "idle"] ELSE req

\* Mutant: an earlier final snapshot is reused although etcd has moved on.
FullGetReusing ==
    /\ pc = "full"
    /\ watch' = 0
    /\ \/ /\ Works
          /\ lastRev' = rev
          /\ pc' = IF IsFinal /\ prev.final /\ prev.kind = "Full"
                   THEN "fullWatch" ELSE "fullSave"
          /\ UNCHANGED <<events, prevFullOK, active, req>>
       \/ /\ Fails
          /\ FullReturns(FALSE)
          /\ UNCHANGED lastRev
    /\ UNCHANGED <<etcd, disk, caller, prev, prevFull, stopCh, demands>>

\* Close the watch, refresh the credentials, read etcd's revision.
FullGet ==
    /\ pc = "full"
    /\ watch' = 0
    /\ \/ /\ Works
          /\ lastRev' = rev
          /\ pc' = IF IsFinal /\ prev.final /\ prev.kind = "Full" /\ prev.last = rev
                   THEN "fullWatch" ELSE "fullSave"
          /\ UNCHANGED <<events, prevFullOK, active, req>>
       \/ /\ Fails
          /\ FullReturns(FALSE)
          /\ UNCHANGED lastRev
    /\ UNCHANGED <<etcd, disk, caller, prev, prevFull, stopCh, demands>>

\* Stream the database, at whatever revision etcd has reached by now, into an
\* object named after the revision read before.
FullSave ==
    /\ pc = "fullSave"
    /\ \E db \in lastRev .. rev :
         LET snap == FullSnapshot(lastRev, db, clock + 1, IsFinal)
         IN \/ /\ Saved(snap)
               /\ prev' = snap /\ prevFull' = snap
               /\ pc' = "fullWatch"
               /\ UNCHANGED <<events, prevFullOK, active, req>>
            \/ /\ SaveFails(snap)
               /\ FullReturns(FALSE)
               /\ UNCHANGED <<prev, prevFull>>
    /\ UNCHANGED <<etcd, caller, lastRev, watch, stopCh, demands>>

\* Mutant: no watch is opened, so Run has to collect before it can be stopped.
FullWatchMissing ==
    /\ pc = "fullWatch"
    /\ \/ Works /\ watch' = 0 /\ FullReturns(TRUE)
       \/ DeltaEnabled /\ Fails /\ watch' = 0 /\ FullReturns(FALSE)
    /\ UNCHANGED <<etcd, disk, caller, lastRev, prev, prevFull, stopCh, demands>>

\* Watch etcd from the revision after the snapshot's name.
FullWatch ==
    /\ pc = "fullWatch"
    /\ \/ Works /\ watch' = (IF DeltaEnabled THEN prev.last + 1 ELSE 0) /\ FullReturns(TRUE)
       \/ DeltaEnabled /\ Fails /\ watch' = 0 /\ FullReturns(FALSE)
    /\ UNCHANGED <<etcd, disk, caller, lastRev, prev, prevFull, stopCh, demands>>

-----------------------------------------------------------------------------
(* CollectEventsSincePrevSnapshot, called by the probe loop or by Run *)

\* Run returns before it started the lease goroutine that stop() sends to.
RunReturnsEarly == pc' = IF LeaseRenewal THEN "hung" ELSE "stopping"

CollectSucceeds ==
    pc' = (IF caller = "probe" THEN "collected" ELSE "handler") /\ UNCHANGED caller

CollectFails ==
    /\ UNCHANGED caller
    /\ \/ caller = "probe" /\ pc' = "full"
       \/ caller = "run" /\ RunReturnsEarly

Collect ==
    /\ pc = "collect"
    /\ \/ /\ Works
          /\ lastRev' = rev
          /\ watch' = prev.last + 1
          /\ IF prev.last = rev THEN CollectSucceeds
             ELSE pc' = "collecting" /\ UNCHANGED caller
       \/ Fails /\ watch' = 0 /\ CollectFails /\ UNCHANGED lastRev
    /\ UNCHANGED <<etcd, disk, ssr, events, active, stopCh, req, demands>>

\* watchCh has a response with the event of revision watch.
Response == watch # 0 /\ compacted <= watch /\ watch <= rev

CollectEvent ==
    /\ pc = "collecting" /\ Response
    /\ watch' = watch + 1
    /\ \/ \* below DeltaSnapshotMemoryLimit, or not at the end of the response
          /\ events' = Append(events, watch)
          /\ \/ watch >= lastRev /\ CollectSucceeds
             \/ (watch < lastRev \/ watch < rev) /\ UNCHANGED <<pc, caller>>
          /\ Works /\ UNCHANGED <<disk, prev>>
       \/ /\ TakeDeltaSnapshot(Append(events, watch), TRUE)
          /\ IF watch >= lastRev THEN CollectSucceeds ELSE UNCHANGED <<pc, caller>>
       \/ /\ TakeDeltaSnapshot(Append(events, watch), FALSE)
          /\ CollectFails
    /\ UNCHANGED <<etcd, lastRev, prevFull, prevFullOK, active, stopCh, req, demands>>

\* ssrStopCh is closed while collecting.
CollectStopped ==
    /\ pc = "collecting" /\ stopCh
    /\ \/ caller = "probe" /\ Forget
       \/ /\ caller = "run" /\ RunReturnsEarly
          /\ watch' = 0 /\ events' = <<>>
          /\ UNCHANGED <<caller, lastRev, ssr, active, stopCh>>
    /\ UNCHANGED <<etcd, disk, req, faults, demands>>

\* The watch ends: the response is an error (compaction, or a cancelled watch)
\* or the channel is closed.  The events collected so far stay in memory.
WatchEnds ==
    /\ watch # 0
    /\ IF watch < compacted THEN Works ELSE Fails
    /\ \/ pc = "collecting" /\ CollectFails /\ UNCHANGED active
       \/ pc = "handler" /\ pc' = "stopping" /\ active' = FALSE /\ UNCHANGED caller
    /\ UNCHANGED <<etcd, disk, lastRev, ssr, mem, stopCh, req, demands>>

-----------------------------------------------------------------------------
(* runEtcdProbeLoopWithSnapshotter *)

\* IsFullSnapshotRequiredAtStartup; missed is what the schedule and the age of
\* the previous full snapshot say.
FullSnapshotRequired(missed) ==
    prevFull = NilSnapshot \/ prevFull.final \/ ~prevFullOK \/ missed

\* The context is done: the loop ends.
ProbeExit ==
    /\ pc = "probe" /\ stopCh
    /\ Forget
    /\ UNCHANGED <<etcd, disk, req, faults, demands>>

\* etcd answers the probe (a failed probe only probes again).
Probe ==
    /\ pc = "probe" /\ ~stopCh
    /\ caller' = "probe"
    /\ \E missed \in BOOLEAN :
         pc' = IF FullSnapshotRequired(missed) THEN "full" ELSE "collect"
    /\ UNCHANGED <<etcd, disk, lastRev, ssr, mem, active, stopCh, req, faults, demands>>

\* The first delta snapshot of a term, from the events just collected.
FirstDelta ==
    /\ pc = "collected"
    /\ \E ok \in BOOLEAN :
         TakeDeltaSnapshot(events, ok) /\ pc' = IF ok THEN "start" ELSE "probe"
    /\ UNCHANGED <<etcd, caller, lastRev, prevFull, prevFullOK, watch, active, stopCh, req,
                   demands>>

\* The snapshotter becomes active and Run starts: with a full snapshot at once,
\* by collecting if there is no watch, or with the select.
Run ==
    /\ pc = "start"
    /\ active' = TRUE
    /\ caller' = "run"
    /\ \E missed \in BOOLEAN :
         pc' = IF ~FullSnapshotRequired(missed) /\ watch = 0 THEN "collect" ELSE "handler"
    /\ UNCHANGED <<etcd, disk, lastRev, ssr, mem, stopCh, req, faults, demands>>

\* stop: the lease goroutine is told, the watch closed; the loop probes again.
Stop ==
    /\ pc = "stopping"
    /\ pc' = "probe"
    /\ watch' = 0
    /\ UNCHANGED <<etcd, disk, caller, lastRev, ssr, events, active, stopCh, req, faults,
                   demands>>

-----------------------------------------------------------------------------
(* snapshotEventHandler, one action per case of its select *)

\* Mutant: the handler goes on after a delta snapshot that was not saved.
HandlerContinuesAnyway(ok) ==
    /\ pc' = "handler"
    /\ UNCHANGED active

HandlerContinues(ok) ==
    /\ pc' = IF ok THEN "handler" ELSE "stopping"
    /\ active' = (active /\ ok)

FullTimer ==
    /\ pc = "handler" /\ Demand
    /\ pc' = "full" /\ caller' = "timer"
    /\ UNCHANGED <<etcd, disk, lastRev, ssr, mem, active, stopCh, req, faults>>

\* case isFinal := <-fullSnapshotReqCh
FullRequest(c) ==
    /\ pc = "handler" /\ req[c] \in {"full", "final"}
    /\ pc' = "full" /\ caller' = c
    /\ UNCHANGED <<etcd, disk, lastRev, ssr, mem, active, stopCh, req, faults, demands>>

DeltaTimer ==
    /\ pc = "handler" /\ DeltaEnabled
    /\ \E ok \in BOOLEAN : TakeDeltaSnapshot(events, ok) /\ HandlerContinues(ok)
    /\ UNCHANGED <<etcd, caller, lastRev, prevFull, prevFullOK, watch, stopCh, req, demands>>

\* case <-deltaSnapshotReqCh
DeltaRequest(c) ==
    /\ pc = "handler" /\ req[c] = "delta"
    /\ \E ok \in BOOLEAN : TakeDeltaSnapshot(events, ok) /\ HandlerContinues(ok)
    /\ req' = [req EXCEPT ![c] = "idle"]
    /\ UNCHANGED <<etcd, caller, lastRev, prevFull, prevFullOK, watch, stopCh, demands>>

HandleWatchEvents ==
    /\ pc = "handler" /\ Response
    /\ watch' = watch + 1
    /\ \/ /\ events' = Append(events, watch)
          /\ Works /\ UNCHANGED <<disk, prev, pc, active>>
       \/ \E ok \in BOOLEAN :
            TakeDeltaSnapshot(Append(events, watch), ok) /\ HandlerContinues(ok)
    /\ UNCHANGED <<etcd, caller, lastRev, prevFull, prevFullOK, stopCh, req, demands>>

HandlerStopped ==
    /\ pc = "handler" /\ stopCh
    /\ events' = <<>>
    /\ pc' = "stopping" /\ active' = FALSE
    /\ UNCHANGED <<etcd, disk, caller, lastRev, ssr, watch, stopCh, req, faults, demands>>

-----------------------------------------------------------------------------
(* TriggerFullSnapshot and TriggerDeltaSnapshot, up to the blocking send *)

Accepted(what) == active /\ (what = "delta" => DeltaEnabled)

Trigger(c, what) ==
    /\ pc # "off" /\ req[c] = "idle" /\ Accepted(what)
    /\ Demand
    /\ req' = [req EXCEPT ![c] = what]
    /\ UNCHANGED <<etcd, disk, pc, caller, lastRev, ssr, mem, active, stopCh, faults>>

-----------------------------------------------------------------------------
Loop ==
    \/ Probe \/ ProbeExit \/ Collect \/ CollectEvent \/ CollectStopped \/ FirstDelta
    \/ FullGet \/ FullSave \/ FullWatch \/ Run \/ Stop
    \/ WatchEnds \/ FullTimer \/ DeltaTimer \/ HandleWatchEvents \/ HandlerStopped
    \/ \E c \in Clients : FullRequest(c) \/ DeltaRequest(c)

Next ==
    \/ Write \/ Compact
    \/ OnStartedLeading \/ OnStoppedLeading \/ Crash
    \/ Loop
    \/ \E c \in Clients, what \in {"full", "final", "delta"} : Trigger(c, what)

Spec == Init /\ [][Next]_vars

\* The goroutine keeps running, and its select does not ignore a case for ever; the
\* timer of the delta snapshots keeps firing.  Full snapshots by schedule, requests and
\* leadership changes come when they come.
Fairness ==
    /\ WF_vars(Probe) /\ WF_vars(ProbeExit) /\ WF_vars(Run) /\ WF_vars(Stop)
    /\ WF_vars(Collect) /\ WF_vars(CollectEvent) /\ WF_vars(CollectStopped)
    /\ WF_vars(watch < compacted /\ WatchEnds)
    /\ WF_vars(FirstDelta) /\ WF_vars(FullGet) /\ WF_vars(FullSave) /\ WF_vars(FullWatch)
    /\ WF_vars(DeltaTimer) /\ WF_vars(HandleWatchEvents) /\ WF_vars(HandlerStopped)
    /\ \A c \in Clients : WF_vars(FullRequest(c)) /\ WF_vars(DeltaRequest(c))

FairSpec == Spec /\ Fairness

-----------------------------------------------------------------------------
(* Properties *)

Deltas == {s \in store : s.kind = "Delta"}

\* The delta snapshots in the store form a chain: each starts right after the
\* last revision of a snapshot saved before it, and no two of them overlap.  This
\* is what "the delta snapshot list is well formed" comes to for the restorer,
\* through failed saves, lost watches, restarts and substitute full snapshots.
ChainWellFormed ==
    /\ \A d \in Deltas : \E s \in store :
         s.last + 1 = d.start /\ s.created < d.created
    /\ \A d, e \in Deltas : d = e \/ d.last < e.start \/ e.last < d.start

\* A delta snapshot holds at least one event for each revision that its name
\* claims: events dropped from memory by a failed save are collected again.
NoEventLost ==
    \A d \in Deltas : d.start <= d.last /\ d.start .. d.last \subseteq Revisions(d.events)

\* While the loop runs, PrevSnapshot, from which the next delta snapshot and the
\* next watch take their start, is the latest snapshot in the store.
PrevIsLatest ==
    pc # "off" /\ store # {} => prev = LatestSnapshot(store)

\* A request for a full snapshot that is answered without an error has one: a
\* full snapshot of the revision etcd had when the request was served, marked
\* final if that was asked, also when an earlier final snapshot is reused.
RequestHonoured ==
    [][\A c \in Clients :
         req[c] \in {"full", "final"} /\ req'[c] = "idle" /\ pc' = "handler" =>
           /\ prev'.kind = "Full" /\ prev'.last = lastRev /\ prev' \in store'
           /\ req[c] = "final" => prev'.final]_vars

Backup == INSTANCE BackupChain WITH covered <- CoveredRevision(store)

\* The store always covers what it covered before, and never more than etcd has
\* written: failed saves, restarts and substitute full snapshots never take back
\* what can be restored.
ImplementsBackup == Backup!Spec

Leading == pc # "off" /\ ~stopCh

\* As long as the sidecar keeps leading, what was written to etcd is in the
\* store eventually, whatever failed in between.
BackedUpEventually ==
    \A r \in 1 .. MaxRev : (rev >= r /\ Leading) ~> (CoveredRevision(store) >= r \/ ~Leading)

\* As long as the sidecar keeps leading, a request for a snapshot is answered,
\* although the event handler that it waits for may fail and start again.
RequestAnswered ==
    \A c \in Clients :
      (req[c] \in {"full", "final", "delta"} /\ Leading) ~> (req[c] = "idle" \/ ~Leading)

\* A sidecar that lost the leadership ends its snapshotting loop, and with it the
\* garbage collector that the loop stops: "stop stops the snapshotter".
StopsWhenNotLeading == stopCh ~> pc = "off"
=============================================================================
