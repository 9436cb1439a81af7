-------------------------------- MODULE Copier --------------------------------
(***************************************************************************)
(* The copier: the copy command, which may first wait for a final full     *)
(* snapshot, and the periodic sync of a leading sidecar with a secondary   *)
(* store.  Snapshots missing in the destination are copied by workers that *)
(* share a queue, a WaitGroup and an unbuffered channel of errors, while   *)
(* the snapshotter and the garbage collectors change both stores and the   *)
(* copier of an earlier term may still be at work.                         *)
(***************************************************************************)
EXTENDS SnapStore

CONSTANTS
    Workers,        \* maxParallelCopyOperations of them
    MaxBackups,     \* maxBackups of the copy command, -1 for all
    MaxSnaps,       \* bound: snapshots in the source
    MaxFailures     \* bound: failing calls and saves of other copiers

ASSUME CopierAssumption ==
    /\ Workers # {} /\ IsFiniteSet(Workers) /\ MaxBackups \in Nat \cup {-1}
    /\ MaxSnaps \in Nat /\ MaxFailures \in Nat

VARIABLES
    cmd,            \* "copy" or "sync"
    source, dest,   \* the stores
    clock,          \* snapshots taken so far
    pc,             \* where CopyBackups is: wait, list, destList, collect; idle, done
    listed,         \* source backups of this round
    todo,           \* snapshotsToCopy not yet queued
    queue,          \* channel of capacity |Workers|
    enq,            \* the enqueuing goroutine: none, queue, wait, closed, ended
    wg,             \* the WaitGroup
    worker,         \* worker -> what it does
    errs,           \* an error was collected
    final,          \* last revision of the final snapshot that was waited for, 0 if none
    failures

stores == <<source, dest, clock>>
pool == <<todo, queue, enq, wg, worker>>
copyVars == <<cmd, stores, pc, listed, pool, errs, final, failures>>

Idle == [at |-> "idle"]
Ended == [at |-> "ended"]
Working(place, s) == [at |-> place, snap |-> s]
Places == {"fetch", "save", "error"}

Cap == Cardinality(Workers)

CopyTypeOK ==
    /\ cmd \in {"copy", "sync"}
    /\ source \subseteq Snapshot /\ dest \subseteq Snapshot /\ clock \in 0 .. MaxSnaps
    /\ pc \in {"wait", "list", "destList", "collect", "idle", "done"}
    /\ listed \subseteq Snapshot /\ todo \subseteq Snapshot /\ queue \in Seq(Snapshot)
    /\ enq \in {"none", "queue", "wait", "closed", "ended"} /\ wg \in 0 .. MaxSnaps
    /\ \A w \in Workers : worker[w] \in {Idle, Ended} \/ worker[w].at \in Places
    /\ errs \in BOOLEAN /\ final \in Nat /\ failures \in 0 .. MaxFailures

CopyInit ==
    /\ cmd \in {"copy", "sync"}
    /\ source = {} /\ dest = {} /\ clock = 0
    /\ \/ pc = "wait" /\ cmd = "copy"
       \/ pc = "list"
    /\ listed = {} /\ todo = {} /\ queue = <<>> /\ enq = "none" /\ wg = 0
    /\ worker = [w \in Workers |-> Ended]
    /\ errs = FALSE /\ final = 0 /\ failures = 0

CallFails == failures < MaxFailures /\ failures' = failures + 1
CallWorks == UNCHANGED failures

-----------------------------------------------------------------------------
(* What happens to the stores until the copier is done *)

\* The snapshotter saves a full snapshot, a final one if the cluster is being moved, or
\* a delta snapshot.
Take ==
    /\ pc # "done" /\ clock < MaxSnaps /\ clock' = clock + 1
    /\ LET rev == CoveredRevision(source)
       IN \/ \E r \in {rev, rev + 1}, f \in BOOLEAN :
                /\ r > 0 /\ (f => cmd = "copy")
                /\ source' = source \cup {FullSnapshot(r, r, clock + 1, f)}
          \/ /\ rev > 0
             /\ source' = source \cup {DeltaSnapshot(rev + 1, rev + 1, <<rev + 1>>, clock + 1)}
    /\ UNCHANGED <<cmd, dest, pc, listed, pool, errs, final, failures>>

\* A garbage collector deletes something older than the latest full snapshot (what
\* GarbageCollector!LatestKept promises), in the secondary store as well.
CollectGarbage ==
    /\ pc # "done"
    /\ \/ \E s \in source : Less(s, LatestFull(source)) /\ source' = source \ {s} /\ UNCHANGED dest
       \/ /\ cmd = "sync"
          /\ \E s \in dest : Less(s, LatestFull(dest)) /\ dest' = dest \ {s}
          /\ UNCHANGED source
    /\ UNCHANGED <<cmd, clock, pc, listed, pool, errs, final, failures>>

\* SetFinal(false): the destination knows no final snapshots.
Copy(s) == [s EXCEPT !.final = FALSE]

\* The copier of an earlier term saves its last snapshots.
OtherCopies ==
    /\ cmd = "sync" /\ pc # "done" /\ CallFails
    /\ \E s \in source : dest' = dest \cup {Copy(s)}
    /\ UNCHANGED <<cmd, source, clock, pc, listed, pool, errs, final>>

-----------------------------------------------------------------------------
(* CopyBackups *)

\* The sync goes on after an error; the copy command does not.
Returns == pc' = IF cmd = "sync" THEN "idle" ELSE "done"

\* GetNLatestFullSnapshots(4)
Latest4 == {f \in Fulls(source) : Cardinality({g \in Fulls(source) : Less(f, g)}) < 4}

\* doWaitForFinalSnapshot: found, timed out, or the store cannot be listed.
WaitForFinal ==
    /\ pc = "wait"
    /\ \/ /\ \E f \in Latest4 : f.final /\ final' = f.last
          /\ pc' = "list" /\ CallWorks /\ UNCHANGED errs
       \/ /\ ~\E f \in Latest4 : f.final
          /\ pc' = "list" /\ CallWorks /\ UNCHANGED <<final, errs>>
       \/ CallFails /\ pc' = "done" /\ errs' = TRUE /\ UNCHANGED final
    /\ UNCHANGED <<cmd, stores, listed, pool>>

\* getStructuredBackupList: a full snapshot and its delta snapshots.
Backup(S, f) ==
    {f} \cup {d \in S : /\ d.kind = "Delta" /\ Less(f, d)
                        /\ ~\E g \in Fulls(S) : Less(f, g) /\ Less(g, d)}

\* Mutant: the oldest backups count first.
SelectedOldest(S, n, cutoff) ==
    {f \in Fulls(S) : /\ f.created > cutoff
                      /\ n >= 0 => Cardinality({g \in Fulls(S) : g.created < f.created}) < n}

\* GetFilteredBackups: the n latest full snapshots that are young enough.
Selected(S, n, cutoff) ==
    {f \in Fulls(S) : /\ f.created > cutoff
                      /\ n >= 0 => Cardinality({g \in Fulls(S) : g.created > f.created}) < n}

\* getSnapshots; only the copy command limits number and age.
ListSource ==
    /\ pc = "list"
    /\ \E n \in {IF cmd = "copy" THEN MaxBackups ELSE -1},
          cutoff \in IF cmd = "copy" THEN 0 .. clock ELSE {0} :
          \/ /\ CallWorks /\ errs' = FALSE
             /\ listed' = UNION {Backup(source, f) : f \in Selected(source, n, cutoff)}
             /\ IF listed' = {} THEN Returns ELSE pc' = "destList"
          \/ CallFails /\ errs' = TRUE /\ listed' = {} /\ Returns
    /\ UNCHANGED <<cmd, stores, pool, final>>

\* Mutant: a snapshot is taken for copied if one ends at the same revision.
MissingByRevision(s) == ~\E d \in dest : d.last = s.last

\* By name, without the suffix of a final snapshot.
Missing(s) == ~\E d \in dest : d = Copy(s)

\* The newest backup first, its full snapshot and then its newest delta snapshot.
Before(a, b) ==
    LET head(s) == LatestFull({f \in listed : s = f \/ Less(f, s)})
    IN \/ Less(head(b), head(a))
       \/ head(a) = head(b) /\ (a.kind = "Full" \/ (b.kind = "Delta" /\ Less(b, a)))

ListDest ==
    /\ pc = "destList"
    /\ \/ /\ CallWorks /\ UNCHANGED errs
          /\ todo' = {s \in listed : Missing(s)}
          /\ IF todo' = {} THEN Returns /\ UNCHANGED <<enq, worker>>
             ELSE pc' = "collect" /\ enq' = "queue" /\ worker' = [w \in Workers |-> Idle]
       \/ CallFails /\ errs' = TRUE /\ Returns /\ UNCHANGED <<todo, enq, worker>>
    /\ UNCHANGED <<cmd, stores, listed, queue, wg, final>>

Enqueue ==
    /\ enq = "queue"
    /\ \/ todo = {} /\ enq' = "wait" /\ UNCHANGED <<todo, queue, wg>>
       \/ /\ Len(queue) < Cap /\ wg' = wg + 1 /\ UNCHANGED enq
          /\ \E s \in todo :
               /\ \A t \in todo \ {s} : Before(s, t)
               /\ queue' = Append(queue, s) /\ todo' = todo \ {s}
    /\ UNCHANGED <<cmd, stores, pc, listed, worker, errs, final, failures>>

\* All snapshots are done: the queue is closed, and then the errors.
Close ==
    /\ \/ enq = "wait" /\ wg = 0 /\ enq' = "closed"
       \/ enq = "closed" /\ enq' = "ended"
    /\ UNCHANGED <<cmd, stores, pc, listed, todo, queue, wg, worker, errs, final, failures>>

\* A worker takes a snapshot, or ends with the queue.
Dequeue(w) ==
    /\ worker[w] = Idle
    /\ \/ /\ queue # <<>>
          /\ worker' = [worker EXCEPT ![w] = Working("fetch", Head(queue))]
          /\ queue' = Tail(queue)
       \/ /\ queue = <<>> /\ enq \in {"closed", "ended"}
          /\ worker' = [worker EXCEPT ![w] = Ended] /\ UNCHANGED queue
    /\ UNCHANGED <<cmd, stores, pc, listed, todo, enq, wg, errs, final, failures>>

\* It may be gone, or the call fails.
FetchSnapshot(w) ==
    /\ worker[w].at = "fetch"
    /\ LET s == worker[w].snap
       IN \/ s \in source /\ CallWorks /\ worker' = [worker EXCEPT ![w] = Working("save", Copy(s))]
          \/ /\ s \in source => CallFails
             /\ s \notin source => CallWorks
             /\ worker' = [worker EXCEPT ![w] = Working("error", s)]
    /\ UNCHANGED <<cmd, stores, pc, listed, todo, queue, enq, wg, errs, final>>

\* A Save that fails may have had its effect.
Save(w) ==
    /\ worker[w].at = "save"
    /\ \/ /\ CallWorks /\ dest' = dest \cup {worker[w].snap}
          /\ worker' = [worker EXCEPT ![w] = Idle] /\ wg' = wg - 1
       \/ /\ CallFails /\ dest' \in {dest, dest \cup {worker[w].snap}}
          /\ worker' = [worker EXCEPT ![w] = Working("error", worker[w].snap)] /\ UNCHANGED wg
    /\ UNCHANGED <<cmd, source, clock, pc, listed, todo, queue, enq, errs, final>>

\* Mutant: a failed copy is not counted as done.
SendErrorUndone(w) ==
    /\ worker[w].at = "error" /\ pc = "collect"
    /\ errs' = TRUE
    /\ worker' = [worker EXCEPT ![w] = Idle]
    /\ UNCHANGED <<cmd, stores, pc, listed, todo, queue, enq, wg, final, failures>>

\* Mutant: the error is only logged.
SendErrorLogged(w) ==
    /\ worker[w].at = "error" /\ pc = "collect"
    /\ worker' = [worker EXCEPT ![w] = Idle] /\ wg' = wg - 1
    /\ UNCHANGED <<cmd, stores, pc, listed, todo, queue, enq, errs, final, failures>>

\* errors is unbuffered: CopyBackups receives what the worker sends.
SendError(w) ==
    /\ worker[w].at = "error" /\ pc = "collect"
    /\ errs' = TRUE
    /\ worker' = [worker EXCEPT ![w] = Idle] /\ wg' = wg - 1
    /\ UNCHANGED <<cmd, stores, pc, listed, todo, queue, enq, final, failures>>

\* errors is closed: CopyBackups returns.
Collected ==
    /\ pc = "collect" /\ enq = "ended"
    /\ Returns
    /\ UNCHANGED <<cmd, stores, listed, pool, errs, final, failures>>

\* syncBackups: the next round when the ticker ticks, or the end when the context is done,
\* which is looked at only here.
SyncBackups ==
    /\ pc = "idle"
    /\ pc' \in {"list", "done"} /\ listed' = {} /\ errs' = FALSE
    /\ UNCHANGED <<cmd, stores, pool, final, failures>>

CopyBackups == WaitForFinal \/ ListSource \/ ListDest \/ Collected
Worker(w) == Dequeue(w) \/ FetchSnapshot(w) \/ Save(w) \/ SendError(w)

CopyNext ==
    \/ Take \/ CollectGarbage \/ OtherCopies
    \/ CopyBackups \/ SyncBackups \/ Enqueue \/ Close
    \/ \E w \in Workers : Worker(w)

CopySpec == CopyInit /\ [][CopyNext]_copyVars

\* The copier's goroutines run, the ticker ticks, and calls to the stores end.
FairCopySpec ==
    /\ CopySpec
    /\ WF_copyVars(CopyBackups) /\ WF_copyVars(SyncBackups)
    /\ WF_copyVars(Enqueue) /\ WF_copyVars(Close)
    /\ \A w \in Workers : WF_copyVars(Worker(w))

-----------------------------------------------------------------------------
\* CopyBackups returns without an error only when what a restoration from the listed
\* backups needs is in the destination, or is superseded there by a later full snapshot.
SyncComplete ==
    [][(pc \in {"destList", "collect"} /\ pc' \in {"idle", "done"} /\ ~errs') =>
         (\A s \in RestoreSet(listed) : Copy(s) \in dest' \/ Less(s, LatestFull(dest')))]_copyVars

\* A copy that waited for a final snapshot and found it leaves a destination that reaches
\* its revision, although the source is listed again and may have changed, unless the limits
\* on number and age leave nothing of the list to copy.
FinalCopied ==
    cmd = "copy" /\ pc = "done" /\ ~errs /\ final # 0 /\ listed # {} =>
        CoveredRevision(dest) >= final

\* A started copy returns, whatever copies fail: the queue, the errors and the
\* WaitGroup never wait for each other.
CopyReturns == (pc = "destList") ~> (pc \in {"idle", "done"})

\* As long as the sidecar leads, the secondary store catches up with the primary one.
Converges ==
    cmd = "sync" /\ [](pc # "done") => <>[](\A s \in RestoreSet(source) : Copy(s) \in dest)
=============================================================================
