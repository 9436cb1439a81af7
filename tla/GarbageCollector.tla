-------------------------- MODULE GarbageCollector ---------------------------
(***************************************************************************)
(* RunGarbageCollector: a goroutine beside the snapshotter that lists the  *)
(* store from time to time and deletes chunks, delta snapshots and full    *)
(* snapshots from that list, one remote call at a time, while uploads go   *)
(* on.  Uploads are those of GCS: the chunks one by one, then the          *)
(* composite object.                                                       *)
(*                                                                         *)
(* An object is a snapshot (part 0) or one of its chunks (part 1, 2, ...). *)
(* Its hour is the hour of its CreatedOn; created orders objects of the    *)
(* same hour.  The list is kept as a set: where the code walks through the *)
(* sorted list, an action takes the greatest or the least element that is  *)
(* left.  In the exponential policy an end of day is 59 minutes and 59     *)
(* seconds past the hour, so whole hours lose nothing in its arithmetic.   *)
(***************************************************************************)
EXTENDS SnapStore, FiniteSets

CONSTANTS
    Policy,           \* GarbageCollectionPolicy: "Exponential" or "LimitBased"
    MaxBackups,       \* the limit of the limit-based policy
    Retention,        \* DeltaSnapshotRetentionPeriod, in hours
    Immutability,     \* hours that the bucket keeps an object immutable (0: not set)
    ErrorThreshold,   \* DeltaSnapshotGCErrorThreshold
    NoOfChunks,       \* chunks of an upload
    Hours,            \* steps by which the clock may advance
    MaxTicks,         \* bound: steps of the clock
    MaxSaves,         \* bound: uploads
    MaxFaults         \* bound: failing calls and crashes

ASSUME GCAssumption ==
    /\ Policy \in {"Exponential", "LimitBased"}
    /\ MaxBackups \in Nat \ {0} /\ Retention \in Nat /\ Immutability \in Nat
    /\ ErrorThreshold \in Nat \ {0} /\ NoOfChunks \in Nat
    /\ Hours \subseteq Nat /\ MaxTicks \in Nat /\ MaxSaves \in Nat /\ MaxFaults \in Nat

VARIABLES
    store,           \* objects in the bucket
    now, ticks,      \* the hour; steps of the clock so far
    rev, prevLast,   \* etcd's revision; PrevSnapshot.LastRevision
    up,              \* the snapshot being uploaded
    put,             \* numbers of its chunks that were uploaded
    saves, faults,   \* spent budgets; saves also orders the snapshots
    gc,              \* where the collector is: idle, chunks, streams, deltas, head
    listed,          \* snapshots of the current listing
    chunks,          \* chunks of the listing still to be looked at
    todo,            \* heads of streams still to be looked at
    cur, left,       \* current stream's head, its delta snapshots still to be deleted
    errs,            \* failed deletions in this stream
    start, eod,      \* exponential policy: the hour of the round and its end of day,
    trackingWeek     \*   which is moved back once

upload == <<rev, prevLast, up, put, saves>>
round == <<gc, listed, chunks, todo, cur, left, errs, start, eod, trackingWeek>>
time == <<now, ticks>>
vars == <<store, time, upload, faults, round>>

None == [kind |-> "None"]

Object(kind, first, last, part) ==
    [kind |-> kind, start |-> first, last |-> last, hour |-> now, created |-> saves, part |-> part]

Objects == [kind : {"Full", "Delta"}, start : Nat, last : Nat, hour : Nat, created : Nat,
            part : Nat]

Snapshots(S) == {s \in S : s.part = 0}
Chunks(S) == S \ Snapshots(S)

TypeOK ==
    /\ store \subseteq Objects /\ now \in Nat /\ ticks \in Nat /\ rev \in Nat /\ prevLast \in Nat
    /\ up \in Objects \cup {None} /\ put \subseteq 1 .. NoOfChunks
    /\ saves \in Nat /\ faults \in Nat
    /\ gc \in {"idle", "chunks", "streams", "deltas", "head"}
    /\ listed \subseteq Objects /\ chunks \subseteq Objects /\ todo \subseteq Objects
    /\ cur \in Objects \cup {None} /\ left \subseteq Objects
    /\ errs \in Nat /\ start \in Nat /\ eod \in Int /\ trackingWeek \in BOOLEAN

Init ==
    /\ store = {} /\ now = 0 /\ ticks = 0 /\ rev = 1 /\ prevLast = 0
    /\ up = None /\ put = {} /\ saves = 0 /\ faults = 0
    /\ gc = "idle" /\ listed = {} /\ chunks = {} /\ todo = {} /\ cur = None /\ left = {}
    /\ errs = 0 /\ start = 0 /\ eod = 0 /\ trackingWeek = FALSE

Fails == faults < MaxFaults /\ faults' = faults + 1

\* Time passes.
Tick ==
    /\ ticks < MaxTicks /\ ticks' = ticks + 1
    /\ \E h \in Hours : now' = now + h
    /\ UNCHANGED <<store, upload, faults, round>>

-----------------------------------------------------------------------------
(* The snapshotter, as far as the collector meets it *)

BeginSave ==
    /\ up = None /\ saves < MaxSaves
    /\ \/ \* a full snapshot, or the first one
          up' = Object("Full", 0, rev, 0) /\ UNCHANGED rev
       \/ \* a delta snapshot of a new revision
          /\ prevLast > 0
          /\ rev' = rev + 1
          /\ up' = Object("Delta", prevLast + 1, rev + 1, 0)
    /\ saves' = saves + 1 /\ put' = {}
    /\ UNCHANGED <<store, time, prevLast, faults, round>>

\* uploadComponent
PutChunk ==
    /\ up # None
    /\ \E i \in 1 .. NoOfChunks \ put :
         put' = put \cup {i} /\ store' = store \cup {[up EXCEPT !.part = i]}
    /\ UNCHANGED <<time, rev, prevLast, up, saves, faults, round>>

ChunksPresent == {[up EXCEPT !.part = i] : i \in 1 .. NoOfChunks} \subseteq store

\* The composite object is formed from the chunks and becomes PrevSnapshot.
Compose ==
    /\ up # None /\ put = 1 .. NoOfChunks /\ ChunksPresent
    /\ store' = store \cup {up} /\ prevLast' = up.last
    /\ up' = None /\ put' = {}
    /\ UNCHANGED <<time, rev, saves, faults, round>>

\* Save fails; the chunks stay where they are.
SaveFails ==
    /\ up # None
    /\ IF put = 1 .. NoOfChunks /\ ~ChunksPresent THEN UNCHANGED faults ELSE Fails
    /\ up' = None /\ put' = {}
    /\ UNCHANGED <<store, time, rev, prevLast, saves, round>>

\* The process dies; a new Snapshotter reads PrevSnapshot from the store.
Crash ==
    /\ Fails
    /\ prevLast' = CoveredRevision(Snapshots(store))
    /\ up' = None /\ put' = {}
    /\ gc' = "idle" /\ listed' = {} /\ chunks' = {} /\ todo' = {} /\ cur' = None /\ left' = {}
    /\ errs' = 0 /\ start' = 0 /\ eod' = 0 /\ trackingWeek' = FALSE
    /\ UNCHANGED <<store, time, rev, saves>>

-----------------------------------------------------------------------------
(* A round of garbage collection *)

Least(S) == CHOOSE s \in S : \A t \in S \ {s} : Less(s, t)
Greatest(S) == CHOOSE s \in S : \A t \in S \ {s} : Less(t, s)

\* IsDeletable
IsDeletable(o) == Immutability = 0 \/ now > o.hour + Immutability

\* Delete of o: it is not tried, or refused, because o is immutable; it works; or
\* it fails.
NotDeleted(o) == (~IsDeletable(o) \/ Immutability > 0) /\ UNCHANGED <<store, faults>>
Deleted(o) == IsDeletable(o) /\ store' = store \ {o} /\ UNCHANGED faults
DeleteFails(o) == IsDeletable(o) /\ Fails /\ UNCHANGED store

\* The period is over: list everything.
List ==
    /\ gc = "idle"
    /\ gc' = "chunks"
    /\ listed' = Snapshots(store) /\ chunks' = Chunks(store)
    /\ UNCHANGED <<store, time, upload, faults, todo, cur, left, errs, start, eod, trackingWeek>>

\* Mutant: chunks of the next delta snapshot are not spared.
ChunkInUseLate(c) == prevLast = 0 \/ c.start > prevLast + 1

\* Its snapshot is not uploaded yet, by PrevSnapshot as it is now.
ChunkInUse(c) == prevLast = 0 \/ c.start > prevLast

\* GarbageCollectChunks
CollectChunk ==
    /\ gc = "chunks"
    /\ \E c \in chunks :
         /\ chunks' = chunks \ {c}
         /\ IF ChunkInUse(c) THEN UNCHANGED <<store, faults>>
            ELSE NotDeleted(c) \/ Deleted(c) \/ DeleteFails(c)
    /\ UNCHANGED <<time, upload, gc, listed, todo, cur, left, errs, start, eod, trackingWeek>>

\* getFullSnapshotIndexList: the full snapshots, and whatever comes first.
Heads(S) ==
    IF S = {} THEN {} ELSE {s \in S : s.kind = "Full"} \cup {Least(S)}

\* All streams but the latest one will be looked at.
StartStreams ==
    /\ gc = "chunks" /\ chunks = {}
    /\ gc' = "streams"
    /\ todo' = IF listed = {} THEN {} ELSE Heads(listed) \ {Greatest(Heads(listed))}
    /\ start' = now /\ eod' = (now \div 24) * 24 + 23 /\ trackingWeek' = FALSE
    /\ UNCHANGED <<store, time, upload, faults, listed, chunks, cur, left, errs>>

\* Mutant: a stream does not end at the next full snapshot.
StreamToEnd(h) == {s \in listed : s = h \/ Less(h, s)}

\* From a head up to the next one.
Stream(h) ==
    {s \in listed : (s = h \/ Less(h, s)) /\ \A g \in Heads(listed) : Less(h, g) => Less(s, g)}

\* GarbageCollectDeltaSnapshots starts on the next stream, from the newest down
\* (exponential) or from the oldest up (limit-based).
NextStream ==
    /\ gc = "streams" /\ todo # {}
    /\ cur' = IF Policy = "Exponential" THEN Greatest(todo) ELSE Least(todo)
    /\ todo' = todo \ {cur'}
    /\ left' = {s \in Stream(cur') : s.kind = "Delta" /\ s.hour < now - Retention}
    /\ errs' = 0
    /\ gc' = IF left' = {} THEN "head" ELSE "deltas"
    /\ UNCHANGED <<store, time, upload, faults, listed, chunks, start, eod, trackingWeek>>

RoundEnds ==
    /\ gc = "streams" /\ todo = {}
    /\ gc' = "idle" /\ listed' = {} /\ cur' = None
    /\ errs' = 0 /\ start' = 0 /\ eod' = 0 /\ trackingWeek' = FALSE
    /\ UNCHANGED <<store, time, upload, faults, chunks, todo, left>>

\* The newest delta snapshot left in the stream; too many errors end the stream,
\* and any error spares its head.
CollectDelta ==
    /\ gc = "deltas"
    /\ LET s == Greatest(left)
       IN \/ (NotDeleted(s) \/ Deleted(s)) /\ UNCHANGED errs
          \/ DeleteFails(s) /\ errs' = errs + 1
    /\ left' = IF errs' = ErrorThreshold THEN {} ELSE left \ {Greatest(left)}
    /\ gc' = IF left' # {} THEN "deltas" ELSE IF errs' > 0 THEN "streams" ELSE "head"
    /\ UNCHANGED <<time, upload, listed, chunks, todo, cur, start, eod, trackingWeek>>

-----------------------------------------------------------------------------
(* Which heads to delete *)

\* int(x), for x hours and a fraction over n: Go truncates towards zero.
Trunc(x, n) == IF x >= 0 THEN x \div n ELSE -((-(x + 1)) \div n)

\* How many windows of n hours before the end of day e lie between two snapshots.
Change(next, snap, e, n) == Trunc(e - next.hour, n) - Trunc(e - snap.hour, n)

\* Mutant: one snapshot of two hours or two days.
ThresholdDoubled(next, e) ==
    IF e - next.hour < 24 THEN IF next.hour % 24 = start % 24 THEN 0 ELSE 2
    ELSE IF e - next.hour < 8 * 24 THEN 48
    ELSE IF e - next.hour < 5 * 7 * 24 THEN 24 * 7
    ELSE 2147483647

\* One snapshot of the hour, the day or the week is worth keeping.
Threshold(next, e) ==
    IF e - next.hour < 24 THEN IF next.hour % 24 = start % 24 THEN 0 ELSE 1
    ELSE IF e - next.hour < 8 * 24 THEN 24
    ELSE IF e - next.hour < 5 * 7 * 24 THEN 24 * 7
    ELSE 2147483647

\* The first head older than a week moves the end of day back, for good.
WeekStarts == ~trackingWeek /\ eod - cur.hour >= 8 * 24 /\ eod - cur.hour < 5 * 7 * 24

Outdated(next, snap, threshold, e) ==
    /\ threshold # 0
    /\ Change(next, snap, e, 1) < threshold
    /\ Change(next, snap, e, 24) * 24 < threshold
    /\ Change(next, snap, e, 24 * 7) * 24 * 7 < threshold

\* The head that follows cur in the list.
Following == Least({h \in Heads(listed) : Less(cur, h)})

\* Mutant: one full snapshot too many is deleted.
BeyondLimitByOne ==
    Cardinality({h \in Heads(listed) : Less(h, cur)}) <= Cardinality(Heads(listed)) - MaxBackups

\* Mutant: one full snapshot too many is kept.
BeyondLimitLate ==
    Cardinality({h \in Heads(listed) : Less(h, cur)}) < Cardinality(Heads(listed)) - MaxBackups - 1

BeyondLimit ==
    Cardinality({h \in Heads(listed) : Less(h, cur)}) < Cardinality(Heads(listed)) - MaxBackups

CollectHead ==
    /\ gc = "head"
    /\ gc' = "streams"
    /\ IF Policy = "Exponential"
       THEN /\ trackingWeek' = (trackingWeek \/ WeekStarts)
            /\ eod' = IF WeekStarts THEN eod - 24 ELSE eod
            /\ IF Outdated(cur, Following, Threshold(cur, eod), eod')
               THEN NotDeleted(cur) \/ Deleted(cur) \/ DeleteFails(cur)
               ELSE UNCHANGED <<store, faults>>
       ELSE /\ IF BeyondLimit THEN NotDeleted(cur) \/ Deleted(cur) \/ DeleteFails(cur)
               ELSE UNCHANGED <<store, faults>>
            /\ UNCHANGED <<trackingWeek, eod>>
    /\ UNCHANGED <<time, upload, listed, chunks, todo, cur, left, errs, start>>

-----------------------------------------------------------------------------
Collect == List \/ CollectChunk \/ StartStreams \/ NextStream \/ CollectDelta \/ CollectHead
           \/ RoundEnds

Next == Tick \/ BeginSave \/ PutChunk \/ Compose \/ SaveFails \/ Crash \/ Collect

Spec == Init /\ [][Next]_vars

\* The collector keeps going; the snapshotter and the clock need not.
FairSpec == Spec /\ WF_vars(Collect)

-----------------------------------------------------------------------------
(* Properties *)

\* Nothing that a restoration would use is ever deleted: the latest full snapshot
\* and its delta snapshots are out of the collector's reach, although its list is
\* out of date while uploads finish.
LatestKept == [][RestoreSet(Snapshots(store)) \subseteq store']_vars

\* The limit-based policy never leaves fewer full snapshots than its limit, also
\* when the list starts with delta snapshots whose full snapshot is gone.
BackupsKept ==
    [][Cardinality(Fulls(Snapshots(store'))) < Cardinality(Fulls(Snapshots(store))) =>
         Cardinality(Fulls(Snapshots(store'))) >= MaxBackups]_vars

\* While a delta snapshot is being uploaded, the chunks it will be composed of
\* stay, although PrevSnapshot is read without a lock.
DeltaChunksKept ==
    up # None /\ up.kind = "Delta" => {[up EXCEPT !.part = i] : i \in put} \subseteq store

\* Full snapshots beyond the limit go away, and so do the chunks of snapshots that
\* were composed, whatever deletions fail in between.
CollectedEventually ==
    /\ Policy = "LimitBased" => <>[](Cardinality(Fulls(Snapshots(store))) <= MaxBackups)
    /\ \A n \in 0 .. MaxSaves :
         (\E c \in Chunks(store) : c.created = n /\ [c EXCEPT !.part = 0] \in store) ~>
         ~\E c \in Chunks(store) : c.created = n
=============================================================================
