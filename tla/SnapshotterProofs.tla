-------------------------- MODULE SnapshotterProofs --------------------------
(***************************************************************************)
(* Proofs that the store the snapshotter leaves behind is well formed, for *)
(* every number of revisions, faults, terms and requests, provided that a  *)
(* Save that fails leaves nothing behind.                                  *)
(*                                                                         *)
(* ChainWellFormed is not inductive: that the next delta snapshot fits     *)
(* depends on PrevSnapshot being the newest snapshot of the store, on the  *)
(* events in memory reaching from it to the watch, and, after a restart,   *)
(* on the newest snapshot being the one that the sorted list ends with.    *)
(***************************************************************************)
EXTENDS Snapshotter, TLAPS

\* Saves are numbered, and every save is at or past the revisions before it; a
\* delta snapshot starts past them.
StoreOrdered ==
    /\ \A s \in store : s.created \in 1 .. clock
    /\ \A s, t \in store : s.created = t.created => s = t
    /\ \A s, t \in store : s.created < t.created =>
         s.last <= t.last /\ (t.kind = "Delta" => s.last < t.start)
    /\ \A s \in store : s.last <= rev

\* m is the snapshot of S that was saved last.
Newest(m, S) == m \in S /\ \A s \in S : s.created <= m.created

\* The first snapshot is a full one, and there is a newest one of each sort.
StoreTop ==
    store # {} => /\ \E m \in store : Newest(m, store)
                  /\ \E f \in Fulls(store) : Newest(f, Fulls(store))

\* Each delta snapshot has the one it continues, and the events it claims.
DeltasFit ==
    \A d \in Deltas :
      /\ d.start <= d.last
      /\ d.start .. d.last \subseteq Revisions(d.events)
      /\ \E s \in store : s.last + 1 = d.start /\ s.created < d.created

\* PrevSnapshot is the newest snapshot of the store.
PrevIsTip ==
    pc # "off" => IF store = {} THEN prev = DummySnapshot ELSE Newest(prev, store)

\* Where a delta snapshot can be taken, there is one to continue; a full snapshot
\* about to be saved is named after a revision that nothing in the store passes.
LoopPoints ==
    /\ pc \in {"collect", "collecting", "collected", "fullWatch", "start", "handler"} =>
         store # {}
    /\ pc # "off" /\ prevFull # NilSnapshot => store # {}
    /\ pc = "fullSave" => \A s \in store : s.last <= lastRev
    /\ lastRev <= rev

\* The events in memory follow PrevSnapshot.  Where a delta snapshot can be taken,
\* they reach from it to the last revision that the watch delivered.
EventsFit ==
    /\ pc # "fullWatch" => \A i \in 1 .. Len(events) : prev.last < events[i] /\ events[i] <= rev
    /\ pc \in {"collecting", "collected", "start", "handler"} /\ watch # 0 =>
         /\ prev.last < watch /\ watch <= rev + 1
         /\ prev.last + 1 .. watch - 1 \subseteq Revisions(events)
    /\ pc = "collecting" => watch # 0
    /\ pc \in {"collected", "handler"} /\ events # <<>> =>
         watch # 0 /\ events[Len(events)] = watch - 1
    /\ pc \in {"off", "start"} => events = <<>>

\* What the store alone satisfies.
StoreInv ==
    /\ store \subseteq Snapshot /\ clock \in Nat /\ rev \in Nat
    /\ StoreOrdered /\ StoreTop /\ DeltasFit

IInv == TypeOK /\ StoreInv /\ PrevIsTip /\ LoopPoints /\ EventsFit

-----------------------------------------------------------------------------
(* Lemmas about snapshots and the store *)

\* A snapshot made by the snapshotter is a snapshot.
LEMMA SnapshotTypes ==
    /\ DummySnapshot \in Snapshot
    /\ \A r, db, time \in Nat, b \in BOOLEAN : FullSnapshot(r, db, time, b) \in Snapshot
    /\ \A first, last, time \in Nat, evs \in Seq(Nat) :
         DeltaSnapshot(first, last, evs, time) \in Snapshot
BY DEF DummySnapshot, FullSnapshot, DeltaSnapshot, Snapshot

\* The fields of a snapshot have their types.
LEMMA SnapshotFields ==
    ASSUME NEW s \in Snapshot
    PROVE  /\ s.kind \in {"Full", "Delta"} /\ s.start \in Nat /\ s.last \in Nat
           /\ s.events \in Seq(Nat) /\ s.created \in Nat /\ s.final \in BOOLEAN
BY DEF Snapshot

\* Fields of a snapshot can be read off its constructor.
LEMMA Constructed ==
    ASSUME NEW r, NEW db, NEW time, NEW b, NEW first, NEW last, NEW evs
    PROVE  /\ FullSnapshot(r, db, time, b).kind = "Full"
           /\ FullSnapshot(r, db, time, b).last = r
           /\ FullSnapshot(r, db, time, b).created = time
           /\ DeltaSnapshot(first, last, evs, time).kind = "Delta"
           /\ DeltaSnapshot(first, last, evs, time).start = first
           /\ DeltaSnapshot(first, last, evs, time).last = last
           /\ DeltaSnapshot(first, last, evs, time).events = evs
           /\ DeltaSnapshot(first, last, evs, time).created = time
BY DEF FullSnapshot, DeltaSnapshot

\* The newest snapshot of a well-formed store is where the sorted list ends, so a
\* new Snapshotter continues from it, and its full snapshot is the newest one.
LEMMA LatestIsNewest ==
    ASSUME StoreInv, store # {}
    PROVE  /\ Newest(LatestSnapshot(store), store)
           /\ Newest(LatestFull(store), Fulls(store))
PROOF
<1> USE DEF StoreInv
<1> DEFINE LF == LatestFull(store)
<1>1. PICK m \in store : Newest(m, store)
  BY DEF StoreTop
<1>2. PICK f \in Fulls(store) : Newest(f, Fulls(store))
  BY DEF StoreTop
<1>3. \A s \in store : s \in Snapshot /\ s.last \in Nat /\ s.start \in Nat /\ s.created \in Nat
                       /\ s.kind \in {"Full", "Delta"}
  BY SnapshotFields
<1>4. Fulls(store) \subseteq store /\ \A g \in Fulls(store) : g.kind = "Full"
  BY DEF Fulls
<1>5. \A g \in Fulls(store) \ {f} : Less(g, f)
  <2> TAKE g \in Fulls(store) \ {f}
  <2>1. g \in store /\ f \in store /\ g # f /\ g.created <= f.created
    BY <1>2, <1>4 DEF Newest
  <2>2. g.created < f.created
    BY <2>1, <1>3 DEF StoreOrdered
  <2> QED
    BY <2>1, <2>2, <1>3 DEF StoreOrdered, Less
<1>6. LF \in Fulls(store) /\ \A g \in Fulls(store) \ {LF} : Less(g, LF)
  BY <1>5 DEF LatestFull
<1>7. LF = f
  <2> SUFFICES ASSUME LF # f PROVE FALSE
    OBVIOUS
  <2>1. Less(f, LF) /\ Less(LF, f)
    BY <1>5, <1>6
  <2> QED
    BY <2>1, <1>3, <1>4, <1>6 DEF Less
<1> HIDE DEF LF
<1>8. CASE m.kind = "Full"
  <2>1. m = f
    BY <1>8, <1>1, <1>2, <1>3, <1>4 DEF Newest, Fulls, StoreOrdered
  <2>2. LatestDeltas(store) = {}
    <3> SUFFICES ASSUME NEW d \in store, d.kind = "Delta", Less(LF, d) PROVE FALSE
      BY <1>2 DEF LatestDeltas, LF
    <3>1. d.created < m.created
      BY <1>8, <1>1, <1>3 DEF Newest, StoreOrdered
    <3> QED
      BY <3>1, <2>1, <1>3, <1>7, <1>1 DEF Less, StoreOrdered
  <2>3. LatestSnapshot(store) = LF
    BY <2>2, <1>2 DEF LatestSnapshot, LF
  <2> QED
    BY <2>1, <2>3, <1>1, <1>2, <1>7 DEF LF
<1>9. CASE m.kind = "Delta"
  <2>1. f.created < m.created
    BY <1>9, <1>1, <1>2, <1>3, <1>4 DEF Newest, StoreOrdered
  <2>2. m \in LatestDeltas(store)
    BY <2>1, <1>9, <1>1, <1>3, <1>4, <1>7 DEF LatestDeltas, LF, Less, StoreOrdered, Deltas, DeltasFit
  <2>3. \A e \in LatestDeltas(store) \ {m} : Less(e, m)
    BY <1>1, <1>3 DEF LatestDeltas, Newest, StoreOrdered, Less
  <2>4. /\ LastDelta(store) \in LatestDeltas(store)
        /\ \A e \in LatestDeltas(store) \ {LastDelta(store)} : Less(e, LastDelta(store))
    BY <2>2, <2>3 DEF LastDelta
  <2>5. LastDelta(store) = m
    <3> SUFFICES ASSUME LastDelta(store) # m PROVE FALSE
      OBVIOUS
    <3>1. Less(m, LastDelta(store)) /\ Less(LastDelta(store), m)
      BY <2>2, <2>3, <2>4
    <3>2. LastDelta(store) \in store
      BY <2>4 DEF LatestDeltas
    <3> QED
      BY <3>1, <3>2, <1>3, <1>1 DEF Less
  <2>6. LatestSnapshot(store) = m
    BY <2>5, <2>2, <1>2 DEF LatestSnapshot
  <2> QED
    BY <2>6, <1>1, <1>2, <1>7 DEF LF
<1> QED
  BY <1>8, <1>9, <1>3

\* Saving keeps the store well formed, and the saved snapshot is the newest: a full
\* snapshot at or past every revision in the store,
LEMMA FullSaved ==
    ASSUME StoreInv, rev' = rev,
           NEW snap \in Snapshot, snap.kind = "Full", snap.created = clock + 1,
           snap.last <= rev, \A s \in store : s.last <= snap.last,
           Saved(snap)
    PROVE  StoreInv' /\ Newest(snap, store')
PROOF
<1> USE DEF StoreInv, Saved
<1>1. /\ \A s \in store : s.last \in Nat /\ s.start \in Nat /\ s.created \in Nat
      /\ snap.last \in Nat
  BY SnapshotFields
<1>2. store' \subseteq Snapshot /\ clock' \in Nat /\ rev' \in Nat
  OBVIOUS
<1>3. StoreOrdered'
  BY <1>1 DEF StoreOrdered
<1>4. Newest(snap, store')
  BY <1>1 DEF StoreOrdered, Newest
<1>5. StoreTop'
  <2>1. snap \in Fulls(store)' /\ Fulls(store)' \subseteq store'
    BY DEF Fulls
  <2> QED
    BY <2>1, <1>4 DEF StoreTop, Newest
<1>6. DeltasFit'
  BY <1>1 DEF DeltasFit, Deltas
<1> QED
  BY <1>2, <1>3, <1>4, <1>5, <1>6

\* or a delta snapshot that continues the newest one and holds its events.
LEMMA DeltaSaved ==
    ASSUME StoreInv, rev' = rev,
           NEW p, Newest(p, store),
           NEW snap \in Snapshot, snap.kind = "Delta", snap.created = clock + 1,
           snap.start = p.last + 1, snap.start <= snap.last, snap.last <= rev,
           snap.start .. snap.last \subseteq Revisions(snap.events),
           Saved(snap)
    PROVE  StoreInv' /\ Newest(snap, store')
PROOF
<1> USE DEF StoreInv, Saved
<1>1. /\ \A s \in store : s.last \in Nat /\ s.start \in Nat /\ s.created \in Nat
      /\ snap.last \in Nat /\ snap.start \in Nat /\ p \in store
  BY SnapshotFields DEF Newest
<1>2. store' \subseteq Snapshot /\ clock' \in Nat /\ rev' \in Nat
  OBVIOUS
<1>3. \A s \in store : s.last <= p.last
  BY <1>1 DEF StoreOrdered, Newest
<1>4. StoreOrdered'
  BY <1>1, <1>3 DEF StoreOrdered
<1>5. Newest(snap, store')
  BY <1>1 DEF StoreOrdered, Newest
<1>6. StoreTop'
  <2>1. Fulls(store)' = Fulls(store)
    BY DEF Fulls
  <2>2. store # {}
    BY <1>1
  <2> QED
    BY <2>1, <2>2, <1>5 DEF StoreTop, Newest
<1>7. DeltasFit'
  <2> SUFFICES ASSUME NEW d \in Deltas'
               PROVE  /\ d.start <= d.last
                      /\ d.start .. d.last \subseteq Revisions(d.events)
                      /\ \E s \in store' : s.last + 1 = d.start /\ s.created < d.created
    BY DEF DeltasFit
  <2>1. CASE d \in store
    BY <2>1 DEF DeltasFit, Deltas
  <2>2. CASE d = snap
    <3>1. p \in store' /\ p.last + 1 = d.start /\ p.created < d.created
      BY <2>2, <1>1 DEF StoreOrdered
    <3> QED
      BY <3>1, <2>2
  <2> QED
    BY <2>1, <2>2 DEF Deltas
<1> QED
  BY <1>2, <1>4, <1>5, <1>6, <1>7

\* TakeDeltaSnapshot, on events that follow PrevSnapshot without a gap.
LEMMA DeltaTaken ==
    ASSUME ~TornSave, StoreInv, rev' = rev, prev \in Snapshot, Newest(prev, store),
           faults \in Nat,
           NEW evs \in Seq(Nat), NEW ok \in BOOLEAN,
           evs # <<>> =>
             /\ prev.last < evs[Len(evs)] /\ evs[Len(evs)] <= rev
             /\ prev.last + 1 .. evs[Len(evs)] \subseteq Revisions(evs),
           TakeDeltaSnapshot(evs, ok)
    PROVE  /\ StoreInv' /\ prev' \in Snapshot /\ Newest(prev', store')
           /\ store' # {} /\ faults' \in Nat /\ events' = <<>>
           /\ IF ok /\ evs # <<>> THEN prev'.last = evs[Len(evs)] ELSE prev' = prev
PROOF
<1> DEFINE snap == DeltaSnapshot(prev.last + 1, evs[Len(evs)], evs, clock + 1)
<1>1. events' = <<>>
  BY DEF TakeDeltaSnapshot
<1>2. CASE store' = store /\ clock' = clock /\ prev' = prev /\ faults' \in Nat
           /\ (ok => evs = <<>>)
  <2>1. StoreInv'
    BY <1>2 DEF StoreInv, StoreOrdered, StoreTop, DeltasFit, Deltas
  <2> QED
    BY <2>1, <1>1, <1>2 DEF Newest
<1>3. CASE ok /\ evs # <<>> /\ Saved(snap) /\ prev' = snap
  <2>1. prev.last \in Nat /\ clock \in Nat /\ evs[Len(evs)] \in Nat
    BY <1>3, SnapshotFields DEF StoreInv
  <2>2. snap \in Snapshot
    BY <2>1, SnapshotTypes
  <2>3. /\ snap.kind = "Delta" /\ snap.start = prev.last + 1 /\ snap.last = evs[Len(evs)]
        /\ snap.events = evs /\ snap.created = clock + 1
    BY Constructed
  <2> HIDE DEF snap
  <2>4. StoreInv' /\ Newest(snap, store')
    BY <2>1, <2>2, <2>3, <1>3, DeltaSaved
  <2> QED
    BY <2>2, <2>3, <2>4, <1>1, <1>3 DEF Saved, Works
<1>4. \/ store' = store /\ clock' = clock /\ prev' = prev /\ faults' \in Nat /\ (ok => evs = <<>>)
      \/ ok /\ evs # <<>> /\ Saved(snap) /\ prev' = snap
  BY DEF TakeDeltaSnapshot, SaveFails, Works, Fails, disk
<1> QED
  BY <1>2, <1>3, <1>4

\* A step that leaves the store alone keeps it well formed; etcd may move on.
LEMMA StoreKept ==
    ASSUME StoreInv, UNCHANGED disk, rev' \in Nat, rev <= rev'
    PROVE  StoreInv'
PROOF
<1>1. \A s \in store : s.last \in Nat
  BY SnapshotFields DEF StoreInv
<1> QED
  BY <1>1 DEF StoreInv, StoreOrdered, StoreTop, DeltasFit, Deltas, disk

-----------------------------------------------------------------------------
(* The inductive invariant *)

\* At the start the store is empty.
LEMMA InitIInv == Init => IInv
PROOF
<1> SUFFICES ASSUME Init PROVE IInv
  OBVIOUS
<1>1. TypeOK
  <2>1. DummySnapshot \in Snapshot
    BY SnapshotTypes
  <2>2. prevFullOK \in BOOLEAN /\ active \in BOOLEAN /\ stopCh \in BOOLEAN
    BY DEF Init
  <2>3. req \in [Clients -> {"idle", "full", "final", "delta", "lost"}]
    BY DEF Init
  <2> QED
    BY <2>1, <2>2, <2>3 DEF Init, TypeOK, PCs
<1>2. StoreInv
  BY DEF Init, StoreInv, StoreOrdered, StoreTop, DeltasFit, Deltas
<1> QED
  BY <1>1, <1>2 DEF Init, IInv, PrevIsTip, LoopPoints, EventsFit

\* Steps of etcd and of the leadership, and requests.
LEMMA OutsideSteps ==
    ASSUME IInv,
           \/ Write \/ Compact \/ OnStoppedLeading
           \/ \E c \in Clients, what \in {"full", "final", "delta"} : Trigger(c, what)
    PROVE  IInv'
PROOF
<1> USE DEF IInv
<1>0. prev.last \in Nat /\ events \in Seq(Nat)
  BY SnapshotFields DEF TypeOK
<1>1. CASE Write
  <2>1. TypeOK'
    BY <1>1 DEF Write, TypeOK, disk, ssr, mem
  <2>2. StoreInv'
    BY <1>1, StoreKept DEF Write, TypeOK
  <2>3. (PrevIsTip /\ LoopPoints)'
    BY <1>1 DEF Write, TypeOK, disk, ssr, mem, PrevIsTip, LoopPoints, Newest
  <2>4. EventsFit'
    BY <1>0, <1>1 DEF Write, TypeOK, disk, ssr, mem, EventsFit
  <2> QED
    BY <2>1, <2>2, <2>3, <2>4
<1>2. CASE Compact
  <2>1. TypeOK'
    BY <1>2 DEF Compact, TypeOK, disk, ssr, mem
  <2>2. StoreInv'
    BY <1>2, StoreKept DEF Compact, TypeOK
  <2>3. (PrevIsTip /\ LoopPoints)'
    BY <1>2 DEF Compact, TypeOK, disk, ssr, mem, PrevIsTip, LoopPoints, Newest
  <2>4. EventsFit'
    BY <1>2 DEF Compact, TypeOK, disk, ssr, mem, EventsFit
  <2> QED
    BY <2>1, <2>2, <2>3, <2>4
<1>3. CASE OnStoppedLeading
  <2>1. TypeOK'
    BY <1>3 DEF OnStoppedLeading, TypeOK, etcd, disk, ssr, mem
  <2>2. StoreInv'
    BY <1>3, StoreKept DEF OnStoppedLeading, TypeOK, etcd
  <2>3. (PrevIsTip /\ LoopPoints)'
    BY <1>3 DEF OnStoppedLeading, TypeOK, etcd, disk, ssr, mem, PrevIsTip, LoopPoints, Newest
  <2>4. EventsFit'
    BY <1>3 DEF OnStoppedLeading, TypeOK, etcd, disk, ssr, mem, EventsFit
  <2> QED
    BY <2>1, <2>2, <2>3, <2>4
<1>4. ASSUME NEW c \in Clients, NEW what \in {"full", "final", "delta"}, Trigger(c, what)
      PROVE  IInv'
  <2>1. TypeOK'
    BY <1>4 DEF Trigger, Demand, TypeOK, etcd, disk, ssr, mem
  <2>2. StoreInv'
    BY <1>4, StoreKept DEF Trigger, TypeOK, etcd
  <2>3. (PrevIsTip /\ LoopPoints)'
    BY <1>4 DEF Trigger, TypeOK, etcd, disk, ssr, mem, PrevIsTip, LoopPoints, Newest
  <2>4. EventsFit'
    BY <1>4 DEF Trigger, TypeOK, etcd, disk, ssr, mem, EventsFit
  <2> QED
    BY <2>1, <2>2, <2>3, <2>4
<1> QED
  BY <1>1, <1>2, <1>3, <1>4

\* A new Snapshotter starts from the newest snapshot of the store.
LEMMA StartedStep ==
    ASSUME IInv, OnStartedLeading
    PROVE  IInv'
PROOF
<1> USE DEF IInv, OnStartedLeading
<1>1. StoreInv'
  BY StoreKept DEF TypeOK, etcd
<1>2. CASE store = {}
  <2>1. Fulls(store) = {}
    BY <1>2 DEF Fulls
  <2>2. prev' = DummySnapshot /\ prevFull' = NilSnapshot
    BY <2>1 DEF LatestSnapshot, LatestFull
  <2>3. TypeOK'
    BY <2>2, SnapshotTypes DEF TypeOK, etcd, disk, mem, PCs, Demand
  <2>4. PrevIsTip' /\ LoopPoints'
    BY <2>2, <1>2 DEF PrevIsTip, LoopPoints, etcd, disk, TypeOK
  <2>5. EventsFit'
    BY <2>2 DEF EventsFit, etcd, mem, TypeOK, DummySnapshot, FullSnapshot
  <2> QED
    BY <1>1, <2>3, <2>4, <2>5
<1>3. CASE store # {}
  <2>1. Newest(prev', store) /\ Newest(prevFull', Fulls(store))
    BY <1>3, LatestIsNewest
  <2>2. prev' \in Snapshot /\ prevFull' \in Snapshot
    BY <2>1 DEF TypeOK, Newest, Fulls
  <2>3. TypeOK'
    BY <2>2 DEF TypeOK, etcd, disk, mem, PCs, Demand
  <2>4. PrevIsTip' /\ LoopPoints'
    BY <2>1, <1>3 DEF PrevIsTip, LoopPoints, etcd, disk, TypeOK, Newest
  <2> QED
    BY <1>1, <2>3, <2>4 DEF EventsFit, etcd, mem, TypeOK
<1> QED
  BY <1>2, <1>3

\* The Snapshotter is dropped: nothing is said of an absent one.
LEMMA ForgetStep ==
    ASSUME IInv, Forget, UNCHANGED <<etcd, disk>>, faults' \in Nat, demands' \in Nat,
           req' \in [Clients -> {"idle", "full", "final", "delta", "lost"}]
    PROVE  IInv'
PROOF
<1> USE DEF IInv, Forget
<1>1. StoreInv'
  BY StoreKept DEF TypeOK, etcd
<1>2. TypeOK'
  <2>1. DummySnapshot \in Snapshot
    BY SnapshotTypes
  <2>2. prevFullOK' \in BOOLEAN /\ active' \in BOOLEAN /\ stopCh' \in BOOLEAN
    OBVIOUS
  <2> QED
    BY <2>1, <2>2 DEF TypeOK, etcd, disk, PCs
<1> QED
  BY <1>1, <1>2 DEF PrevIsTip, LoopPoints, EventsFit, TypeOK, etcd

\* How takeFullSnapshot leaves the loop.
LEMMA FullReturnsFacts ==
    ASSUME TypeOK, NEW ok \in BOOLEAN, FullReturns(ok)
    PROVE  /\ events' = <<>> /\ prevFullOK' \in BOOLEAN /\ active' \in BOOLEAN
           /\ pc' \in PCs /\ pc' \in IF ok THEN {"start", "handler"} ELSE {"probe", "stopping"}
           /\ req' \in [Clients -> {"idle", "full", "final", "delta", "lost"}]
PROOF
<1>1. events' = <<>> /\ prevFullOK' \in BOOLEAN /\ active' \in BOOLEAN
  BY DEF FullReturns, TypeOK
<1>2. pc' \in PCs /\ pc' \in IF ok THEN {"start", "handler"} ELSE {"probe", "stopping"}
  BY DEF FullReturns, PCs
<1>3. req' \in [Clients -> {"idle", "full", "final", "delta", "lost"}]
  BY DEF FullReturns, TypeOK
<1> QED
  BY <1>1, <1>2, <1>3

\* A full snapshot is about to be named after etcd's revision, or is given up.
LEMMA FullGetStep ==
    ASSUME IInv, FullGet
    PROVE  IInv'
PROOF
<1> USE DEF IInv
<1>1. StoreInv'
  BY StoreKept DEF FullGet, TypeOK, etcd
<1>2. CASE Works /\ lastRev' = rev /\ UNCHANGED <<events, prevFullOK, active, req>>
           /\ pc' = IF IsFinal /\ prev.final /\ prev.kind = "Full" /\ prev.last = rev
                    THEN "fullWatch" ELSE "fullSave"
  <2>1. TypeOK'
    BY <1>2 DEF FullGet, TypeOK, etcd, disk, PCs, Works
  <2>2. pc' = "fullWatch" => store # {}
    <3> SUFFICES ASSUME pc' = "fullWatch", store = {} PROVE FALSE
      OBVIOUS
    <3>1. prev.final /\ prev = DummySnapshot
      BY <1>2 DEF PrevIsTip, FullGet
    <3> QED
      BY <3>1 DEF DummySnapshot, FullSnapshot
  <2>3. PrevIsTip'
    BY <1>2 DEF FullGet, PrevIsTip, disk, Newest
  <2>4. LoopPoints'
    <3>1. \A s \in store : s.last <= rev
      BY DEF StoreInv, StoreOrdered
    <3> QED
      BY <1>2, <2>2, <3>1 DEF FullGet, LoopPoints, disk, etcd, TypeOK
  <2>5. EventsFit'
    BY <1>2 DEF FullGet, EventsFit, etcd
  <2> QED
    BY <1>1, <2>1, <2>3, <2>4, <2>5
<1>3. CASE Fails /\ FullReturns(FALSE) /\ UNCHANGED lastRev
  <2>1. /\ events' = <<>> /\ prevFullOK' \in BOOLEAN /\ active' \in BOOLEAN
        /\ pc' \in PCs /\ pc' \in {"probe", "stopping"}
        /\ req' \in [Clients -> {"idle", "full", "final", "delta", "lost"}]
    BY <1>3, FullReturnsFacts
  <2>2. TypeOK'
    BY <1>3, <2>1 DEF FullGet, TypeOK, etcd, disk, Fails
  <2>3. PrevIsTip'
    BY <2>1 DEF FullGet, PrevIsTip, disk, Newest
  <2>4. LoopPoints'
    BY <1>3, <2>1 DEF FullGet, LoopPoints, disk, etcd
  <2>5. EventsFit'
    BY <2>1 DEF FullGet, EventsFit, etcd
  <2> QED
    BY <1>1, <2>2, <2>3, <2>4, <2>5
<1> QED
  BY <1>2, <1>3 DEF FullGet

\* A full snapshot is saved and becomes PrevSnapshot, or is given up.
LEMMA FullSaveStep ==
    ASSUME ~TornSave, IInv, FullSave
    PROVE  IInv'
PROOF
<1> USE DEF IInv
<1> PICK db \in lastRev .. rev :
      LET snap == FullSnapshot(lastRev, db, clock + 1, IsFinal)
      IN \/ /\ Saved(snap)
            /\ prev' = snap /\ prevFull' = snap
            /\ pc' = "fullWatch"
            /\ UNCHANGED <<events, prevFullOK, active, req>>
         \/ /\ SaveFails(snap)
            /\ FullReturns(FALSE)
            /\ UNCHANGED <<prev, prevFull>>
  BY DEF FullSave
<1> DEFINE snap == FullSnapshot(lastRev, db, clock + 1, IsFinal)
<1>0. /\ UNCHANGED <<etcd, caller, lastRev, watch, stopCh, demands>> /\ pc = "fullSave"
      /\ lastRev \in Nat /\ rev \in Nat /\ clock \in Nat /\ db \in Nat
  BY DEF FullSave, TypeOK
<1>1. snap \in Snapshot
  <2>1. IsFinal \in BOOLEAN
    BY DEF IsFinal
  <2>2. clock + 1 \in Nat
    BY <1>0
  <2> QED
    BY <1>0, <2>1, <2>2, SnapshotTypes
<1>2. snap.kind = "Full" /\ snap.last = lastRev /\ snap.created = clock + 1
  BY Constructed
<1>3. CASE /\ Saved(snap) /\ prev' = snap /\ prevFull' = snap /\ pc' = "fullWatch"
           /\ UNCHANGED <<events, prevFullOK, active, req>>
  <2> HIDE DEF snap
  <2>1. StoreInv' /\ Newest(snap, store')
    BY <1>0, <1>1, <1>2, <1>3, FullSaved DEF LoopPoints, etcd
  <2>2. store' # {}
    BY <1>3 DEF Saved
  <2>3. TypeOK'
    BY <1>0, <1>1, <1>3, <2>1 DEF TypeOK, StoreInv, PCs, etcd, Saved, Works
  <2>4. PrevIsTip' /\ LoopPoints'
    BY <1>0, <1>3, <2>1, <2>2 DEF PrevIsTip, LoopPoints, etcd
  <2>5. EventsFit'
    BY <1>3 DEF EventsFit
  <2> QED
    BY <2>1, <2>3, <2>4, <2>5
<1>4. CASE SaveFails(snap) /\ FullReturns(FALSE) /\ UNCHANGED <<prev, prevFull>>
  <2>1. /\ events' = <<>> /\ prevFullOK' \in BOOLEAN /\ active' \in BOOLEAN
        /\ pc' \in PCs /\ pc' \in {"probe", "stopping"}
        /\ req' \in [Clients -> {"idle", "full", "final", "delta", "lost"}]
    BY <1>4, FullReturnsFacts
  <2>2. UNCHANGED disk /\ faults' \in Nat
    BY <1>4 DEF SaveFails, Fails, TypeOK
  <2>3. StoreInv'
    BY <1>0, <2>2, StoreKept DEF etcd
  <2>4. TypeOK'
    BY <1>0, <1>4, <2>1, <2>2 DEF TypeOK, etcd, disk
  <2>5. PrevIsTip' /\ LoopPoints'
    BY <1>0, <1>4, <2>1, <2>2 DEF PrevIsTip, LoopPoints, disk, Newest, etcd
  <2>6. EventsFit'
    BY <2>1 DEF EventsFit
  <2> QED
    BY <2>3, <2>4, <2>5, <2>6
<1> QED
  BY <1>3, <1>4

\* The watch is opened after the full snapshot, or fails.
LEMMA FullWatchStep ==
    ASSUME IInv, FullWatch
    PROVE  IInv'
PROOF
<1> USE DEF IInv
<1>0. prev.last \in Nat /\ UNCHANGED <<etcd, disk, caller, lastRev, prev, prevFull, stopCh, demands>>
      /\ pc = "fullWatch"
  BY SnapshotFields DEF FullWatch, TypeOK
<1>1. StoreInv'
  BY <1>0, StoreKept DEF TypeOK, etcd
<1>2. PICK ok \in BOOLEAN : FullReturns(ok) /\ faults' \in Nat
                            /\ watch' = (IF ok /\ DeltaEnabled THEN prev.last + 1 ELSE 0)
  <2>1. CASE Works /\ watch' = (IF DeltaEnabled THEN prev.last + 1 ELSE 0) /\ FullReturns(TRUE)
    <3>1. faults' \in Nat
      BY <2>1 DEF Works, TypeOK
    <3> WITNESS TRUE \in BOOLEAN
    <3> QED
      BY <2>1, <3>1
  <2>2. CASE Fails /\ watch' = 0 /\ FullReturns(FALSE)
    <3>1. faults' \in Nat
      BY <2>2 DEF Fails, TypeOK
    <3> WITNESS FALSE \in BOOLEAN
    <3> QED
      BY <2>2, <3>1
  <2> QED
    BY <2>1, <2>2 DEF FullWatch
<1>3. /\ events' = <<>> /\ prevFullOK' \in BOOLEAN /\ active' \in BOOLEAN
      /\ pc' \in PCs /\ pc' \in IF ok THEN {"start", "handler"} ELSE {"probe", "stopping"}
      /\ req' \in [Clients -> {"idle", "full", "final", "delta", "lost"}]
  BY <1>2, FullReturnsFacts
<1>4. TypeOK'
  BY <1>0, <1>2, <1>3 DEF TypeOK, etcd, disk
<1>5. PrevIsTip' /\ LoopPoints'
  BY <1>0, <1>3 DEF PrevIsTip, LoopPoints, disk, etcd, Newest
<1>6. EventsFit'
  <2>1. prev.last <= rev
    BY <1>0 DEF PrevIsTip, LoopPoints, Newest, StoreInv, StoreOrdered
  <2> QED
    BY <1>0, <1>2, <1>3, <2>1 DEF EventsFit, etcd, TypeOK
<1> QED
  BY <1>1, <1>4, <1>5, <1>6

\* The Snapshotter object goes away.
LEMMA ExitSteps ==
    ASSUME IInv, Crash \/ ProbeExit
    PROVE  IInv'
PROOF
<1>1. CASE Crash
  BY <1>1, ForgetStep DEF Crash, Fails, IInv, TypeOK
<1>2. CASE ProbeExit
  BY <1>2, ForgetStep DEF ProbeExit, IInv, TypeOK
<1> QED
  BY <1>1, <1>2

\* Steps that only move the loop on: a probe, the start and the stop of the
\* handler, a timer, a request, the end of a watch.
LEMMA ControlSteps ==
    ASSUME IInv,
           \/ Probe \/ Run \/ Stop \/ FullTimer \/ WatchEnds \/ HandlerStopped
           \/ \E c \in Clients : FullRequest(c)
    PROVE  IInv'
PROOF
<1> USE DEF IInv
<1>1. /\ UNCHANGED <<etcd, disk, lastRev, ssr>>
      /\ pc # "off" /\ pc' \in {"full", "collect", "handler", "probe", "stopping", "hung"}
      /\ events' \in {events, <<>>} /\ watch' \in {watch, 0}
  BY DEF Probe, Run, Stop, FullTimer, WatchEnds, HandlerStopped, FullRequest, mem, CollectFails,
         RunReturnsEarly
<1>2. pc' = "handler" => pc = "start" /\ watch' = watch /\ events' = events
  BY DEF Probe, Run, Stop, FullTimer, WatchEnds, HandlerStopped, FullRequest, mem, CollectFails,
         RunReturnsEarly
<1>3. pc' = "collect" => store # {}
  BY DEF Probe, Run, Stop, FullTimer, WatchEnds, HandlerStopped, FullRequest, CollectFails,
         RunReturnsEarly, FullSnapshotRequired, LoopPoints
<1>4. pc # "fullWatch"
  BY DEF Probe, Run, Stop, FullTimer, WatchEnds, HandlerStopped, FullRequest
<1>5. StoreInv'
  BY <1>1, StoreKept DEF TypeOK, etcd
<1>6. active' \in BOOLEAN /\ stopCh' \in BOOLEAN
  BY DEF Probe, Run, Stop, FullTimer, WatchEnds, HandlerStopped, FullRequest, TypeOK
<1>7. faults' \in Nat /\ demands' \in Nat
  <2>1. faults' \in {faults, faults + 1} /\ demands' \in {demands, demands + 1}
    BY DEF Probe, Run, Stop, FullTimer, WatchEnds, HandlerStopped, FullRequest,
           Works, Fails, Demand
  <2> QED
    BY <2>1 DEF TypeOK
<1>8. req' = req /\ caller' \in {"probe", "timer", "run"} \cup Clients
  BY DEF Probe, Run, Stop, FullTimer, WatchEnds, HandlerStopped, FullRequest, TypeOK,
         CollectFails
<1>9. TypeOK'
  <2>1. events' \in Seq(Nat)
    <3>1. events \in Seq(Nat) /\ <<>> \in Seq(Nat)
      BY DEF TypeOK
    <3> QED
      BY <1>1, <3>1
  <2>2. watch' \in Nat /\ pc' \in PCs
    BY <1>1 DEF TypeOK, PCs
  <2> QED
    BY <1>1, <1>6, <1>7, <1>8, <2>1, <2>2 DEF TypeOK, etcd, disk, ssr
<1>10. PrevIsTip' /\ LoopPoints'
  BY <1>1, <1>2, <1>3 DEF PrevIsTip, LoopPoints, Newest, disk, etcd, ssr
<1>11. EventsFit'
  BY <1>1, <1>2, <1>4 DEF EventsFit, etcd, ssr
<1> QED
  BY <1>5, <1>9, <1>10, <1>11

\* Collecting starts at the revision after PrevSnapshot.
LEMMA CollectStep ==
    ASSUME IInv, Collect
    PROVE  IInv'
PROOF
<1> USE DEF IInv
<1>0. /\ UNCHANGED <<etcd, disk, ssr, events, active, stopCh, req, demands, caller>>
      /\ pc = "collect" /\ store # {} /\ Newest(prev, store)
  BY DEF Collect, CollectSucceeds, CollectFails, LoopPoints, PrevIsTip
<1>1. StoreInv'
  BY <1>0, StoreKept DEF TypeOK, etcd
<1>2. prev.last \in Nat /\ rev \in Nat /\ prev.last <= rev
  BY <1>0, SnapshotFields DEF TypeOK, Newest, StoreInv, StoreOrdered
<1>3. CASE /\ Works /\ lastRev' = rev /\ watch' = prev.last + 1
           /\ IF prev.last = rev THEN CollectSucceeds ELSE pc' = "collecting" /\ UNCHANGED caller
  <2>1. pc' \in {"collected", "handler", "collecting"}
        /\ (pc' # "collecting" => prev.last = rev)
    BY <1>3 DEF CollectSucceeds
  <2>2. pc' # "collecting" => events = <<>>
    <3> SUFFICES ASSUME prev.last = rev, events # <<>> PROVE FALSE
      BY <2>1
    <3>1. events \in Seq(Nat) /\ 1 \in 1 .. Len(events) /\ events[1] \in Nat
      BY DEF TypeOK
    <3> QED
      BY <1>0, <1>2, <3>1 DEF EventsFit
  <2>3. TypeOK'
    BY <1>0, <1>2, <1>3, <2>1 DEF TypeOK, PCs, etcd, disk, ssr, Works
  <2>4. PrevIsTip' /\ LoopPoints'
    BY <1>0, <1>2, <1>3, <2>1 DEF PrevIsTip, LoopPoints, Newest, disk, etcd, ssr
  <2>5. EventsFit'
    BY <1>0, <1>2, <1>3, <2>1, <2>2 DEF EventsFit, etcd, ssr
  <2> QED
    BY <1>1, <2>3, <2>4, <2>5
<1>4. CASE Fails /\ watch' = 0 /\ CollectFails /\ UNCHANGED lastRev
  <2>1. pc' \in {"full", "hung", "stopping"}
    BY <1>4 DEF CollectFails, RunReturnsEarly
  <2>3. TypeOK'
    BY <1>0, <1>4, <2>1 DEF TypeOK, PCs, etcd, disk, ssr, Fails
  <2>4. PrevIsTip' /\ LoopPoints'
    BY <1>0, <1>4, <2>1 DEF PrevIsTip, LoopPoints, Newest, disk, etcd, ssr
  <2>5. EventsFit'
    BY <1>0, <1>4, <2>1 DEF EventsFit, etcd, ssr
  <2> QED
    BY <1>1, <2>3, <2>4, <2>5
<1> QED
  BY <1>3, <1>4 DEF Collect

\* Collecting is broken off when the leadership is lost.
LEMMA CollectStoppedStep ==
    ASSUME IInv, CollectStopped
    PROVE  IInv'
PROOF
<1> USE DEF IInv
<1>1. CASE Forget
  BY <1>1, ForgetStep DEF CollectStopped, TypeOK
<1>2. CASE /\ RunReturnsEarly /\ watch' = 0 /\ events' = <<>>
           /\ UNCHANGED <<caller, lastRev, ssr, active, stopCh>>
  <2>0. /\ UNCHANGED <<etcd, disk, req, faults, demands>> /\ pc = "collecting"
        /\ pc' \in {"hung", "stopping"}
    BY <1>2 DEF CollectStopped, RunReturnsEarly
  <2>1. StoreInv'
    BY <2>0, StoreKept DEF TypeOK, etcd
  <2>2. TypeOK'
    BY <1>2, <2>0 DEF TypeOK, PCs, etcd, disk, ssr
  <2>3. PrevIsTip' /\ LoopPoints'
    BY <1>2, <2>0 DEF PrevIsTip, LoopPoints, Newest, disk, etcd, ssr
  <2>4. EventsFit'
    BY <1>2, <2>0 DEF EventsFit
  <2> QED
    BY <2>1, <2>2, <2>3, <2>4
<1> QED
  BY <1>1, <1>2 DEF CollectStopped

\* Another event in memory.
LEMMA Appended ==
    ASSUME NEW evs \in Seq(Nat), NEW r \in Nat,
           NEW a, a = Append(evs, r)
    PROVE  /\ a \in Seq(Nat) /\ a # <<>> /\ a[Len(a)] = r
           /\ \A i \in 1 .. Len(a) : a[i] = r \/ (i \in 1 .. Len(evs) /\ a[i] = evs[i])
           /\ Revisions(evs) \cup {r} \subseteq Revisions(a)
PROOF
<1>1. /\ a \in Seq(Nat) /\ Len(evs) \in Nat
      /\ Len(a) = Len(evs) + 1 /\ a[Len(evs) + 1] = r
  OBVIOUS
<1>2. \A i \in 1 .. Len(evs) : a[i] = evs[i]
  OBVIOUS
<1>3. a # <<>>
  BY <1>1
<1>4. \A i \in 1 .. Len(a) : i = Len(a) \/ i \in 1 .. Len(evs)
  BY <1>1
<1>5. \A i \in 1 .. Len(evs) : i \in 1 .. Len(a)
  BY <1>1
<1>6. Len(a) \in 1 .. Len(a)
  BY <1>1
<1>7. \A i \in 1 .. Len(a) : a[i] = r \/ (i \in 1 .. Len(evs) /\ a[i] = evs[i])
  <2> TAKE i \in 1 .. Len(a)
  <2>1. CASE i = Len(a)
    <3>1. a[i] = r
      BY <1>1, <2>1
    <3> QED
      BY <3>1
  <2>2. CASE i \in 1 .. Len(evs)
    <3>1. a[i] = evs[i]
      BY <1>2, <2>2
    <3> QED
      BY <2>2, <3>1
  <2> QED
    BY <1>4, <2>1, <2>2
<1>8. Revisions(evs) \cup {r} \subseteq Revisions(a)
  BY <1>1, <1>2, <1>5, <1>6 DEF Revisions
<1> QED
  BY <1>1, <1>3, <1>7, <1>8

\* Where the watch has a response, it continues the events in memory.
LEMMA ResponseFits ==
    ASSUME IInv, Response, pc \in {"collecting", "handler"}
    PROVE  LET evs == Append(events, watch)
           IN /\ evs \in Seq(Nat) /\ evs # <<>> /\ evs[Len(evs)] = watch /\ watch \in Nat
              /\ prev.last \in Nat /\ prev.last < watch /\ watch <= rev /\ rev \in Nat
              /\ prev.last + 1 .. watch \subseteq Revisions(evs)
              /\ \A i \in 1 .. Len(evs) : prev.last < evs[i] /\ evs[i] <= rev
PROOF
<1> DEFINE evs == Append(events, watch)
<1>1. /\ watch \in Nat /\ events \in Seq(Nat) /\ rev \in Nat /\ watch # 0 /\ watch <= rev
      /\ prev.last \in Nat
  BY SnapshotFields DEF IInv, TypeOK, Response
<1>2. /\ prev.last < watch /\ prev.last + 1 .. watch - 1 \subseteq Revisions(events)
      /\ \A i \in 1 .. Len(events) : prev.last < events[i] /\ events[i] <= rev
  BY <1>1 DEF IInv, EventsFit
<1>3. /\ evs \in Seq(Nat) /\ evs # <<>> /\ evs[Len(evs)] = watch
      /\ \A i \in 1 .. Len(evs) : evs[i] = watch \/ (i \in 1 .. Len(events) /\ evs[i] = events[i])
      /\ Revisions(events) \cup {watch} \subseteq Revisions(evs)
  BY <1>1, Appended
<1> HIDE DEF evs
<1>4. prev.last + 1 .. watch \subseteq Revisions(evs)
  BY <1>1, <1>2, <1>3
<1>5. \A i \in 1 .. Len(evs) : prev.last < evs[i] /\ evs[i] <= rev
  BY <1>1, <1>2, <1>3
<1> QED
  BY <1>1, <1>2, <1>3, <1>4, <1>5 DEF evs

\* Where a delta snapshot is due, the events in memory are what it may hold.
LEMMA EventsReady ==
    ASSUME IInv, pc \in {"collected", "handler"}, events # <<>>
    PROVE  /\ prev.last < events[Len(events)] /\ events[Len(events)] <= rev
           /\ prev.last + 1 .. events[Len(events)] \subseteq Revisions(events)
           /\ watch # 0 /\ events[Len(events)] = watch - 1
PROOF
<1>1. events \in Seq(Nat) /\ Len(events) \in 1 .. Len(events)
  BY DEF IInv, TypeOK
<1> QED
  BY <1>1 DEF IInv, EventsFit, TypeOK

\* With no events in memory, only the watch matters.
LEMMA EmptyFits ==
    ASSUME events' = <<>>, pc' = "collecting" => watch' # 0,
           pc' \in {"collecting", "collected", "start", "handler"} /\ watch' # 0 =>
             prev'.last < watch' /\ watch' <= rev' + 1 /\ prev'.last + 1 .. watch' - 1 = {}
    PROVE  EventsFit'
BY DEF EventsFit

\* A step that takes a delta snapshot of evs, having moved the watch past them,
\* and goes on only if it was saved.
LEMMA DeltaStep ==
    ASSUME ~TornSave, IInv,
           pc \in {"collecting", "collected", "handler"},
           NEW ok \in BOOLEAN, NEW evs \in Seq(Nat), TakeDeltaSnapshot(evs, ok),
           evs # <<>> =>
             /\ prev.last < evs[Len(evs)] /\ evs[Len(evs)] <= rev
             /\ prev.last + 1 .. evs[Len(evs)] \subseteq Revisions(evs)
             /\ watch' = evs[Len(evs)] + 1,
           evs = <<>> => events = <<>> /\ watch' = watch /\ pc # "collecting",
           UNCHANGED <<etcd, lastRev, prevFull, prevFullOK, stopCh, demands>>,
           caller' \in {"probe", "timer", "run"} \cup Clients,
           pc' \in IF ok THEN {"collecting", "collected", "start", "handler"}
                         ELSE {"full", "hung", "probe", "stopping"},
           pc' = "collecting" => pc = "collecting",
           active' \in BOOLEAN,
           req' \in [Clients -> {"idle", "full", "final", "delta", "lost"}]
    PROVE  IInv'
PROOF
<1> USE DEF IInv
<1>1. /\ rev' = rev /\ rev \in Nat /\ prev \in Snapshot /\ faults \in Nat /\ watch \in Nat
      /\ store # {} /\ Newest(prev, store)
  BY DEF etcd, TypeOK, PrevIsTip, LoopPoints
<1>2. /\ StoreInv' /\ prev' \in Snapshot /\ Newest(prev', store')
      /\ store' # {} /\ faults' \in Nat /\ events' = <<>>
      /\ IF ok /\ evs # <<>> THEN prev'.last = evs[Len(evs)] ELSE prev' = prev
  BY <1>1, DeltaTaken
<1>3. evs # <<>> => evs[Len(evs)] \in Nat
  <2>1. evs # <<>> => Len(evs) \in 1 .. Len(evs)
    OBVIOUS
  <2> QED
    BY <2>1
<1>4. watch' \in Nat
  BY <1>1, <1>3
<1>5. TypeOK'
  <2>1. pc' \in PCs /\ events' \in Seq(Nat)
    BY <1>2 DEF PCs
  <2> QED
    BY <1>1, <1>2, <1>4, <2>1 DEF TypeOK, StoreInv, etcd
<1>6. PrevIsTip' /\ LoopPoints'
  BY <1>1, <1>2 DEF PrevIsTip, LoopPoints, etcd
<1>7. EventsFit'
  <2>1. CASE ~ok
    BY <1>2, <2>1, EmptyFits
  <2>2. CASE ok /\ evs # <<>>
    <3>0. prev'.last = evs[Len(evs)] /\ prev'.last \in Nat
      BY <1>2, <1>3, <2>2
    <3>1. prev'.last + 1 = watch' /\ prev'.last \in Nat /\ watch' <= rev + 1
      BY <1>1, <2>2, <3>0
    <3>2. prev'.last < watch' /\ prev'.last + 1 .. watch' - 1 = {} /\ watch' # 0
      BY <3>1
    <3> QED
      BY <1>1, <1>2, <3>1, <3>2, EmptyFits
  <2>3. CASE ok /\ evs = <<>>
    <3>1. watch' = watch /\ events' = events /\ prev' = prev /\ pc \in {"collected", "handler"}
      BY <1>2, <2>3
    <3> QED
      BY <1>1, <1>2, <2>3, <3>1 DEF EventsFit
  <2> QED
    BY <2>1, <2>2, <2>3
<1> QED
  BY <1>2, <1>5, <1>6, <1>7

\* The first delta snapshot of a term, and those the handler takes for its timer
\* or for a request.
LEMMA DeltaSteps ==
    ASSUME ~TornSave, IInv,
           FirstDelta \/ DeltaTimer \/ \E c \in Clients : DeltaRequest(c)
    PROVE  IInv'
PROOF
<1>1. PICK ok \in BOOLEAN :
        /\ TakeDeltaSnapshot(events, ok)
        /\ \/ FirstDelta /\ active' = active /\ pc' = IF ok THEN "start" ELSE "probe"
           \/ (DeltaTimer \/ \E c \in Clients : DeltaRequest(c)) /\ HandlerContinues(ok)
  BY DEF FirstDelta, DeltaTimer, DeltaRequest
<1>2. /\ pc \in {"collected", "handler"} /\ watch' = watch /\ caller' = caller
      /\ UNCHANGED <<etcd, lastRev, prevFull, prevFullOK, stopCh, demands>>
  BY DEF FirstDelta, DeltaTimer, DeltaRequest
<1>3. req' \in [Clients -> {"idle", "full", "final", "delta", "lost"}]
  BY DEF FirstDelta, DeltaTimer, DeltaRequest, IInv, TypeOK
<1>4. active' \in BOOLEAN
  BY <1>1 DEF HandlerContinues, IInv, TypeOK
<1>5. pc' \in IF ok THEN {"start", "handler"} ELSE {"probe", "stopping"}
  BY <1>1 DEF HandlerContinues
<1>6. events \in Seq(Nat) /\ caller \in {"probe", "timer", "run"} \cup Clients /\ watch \in Nat
  BY DEF IInv, TypeOK
<1>7. events # <<>> => /\ prev.last < events[Len(events)] /\ events[Len(events)] <= rev
                       /\ prev.last + 1 .. events[Len(events)] \subseteq Revisions(events)
                       /\ events[Len(events)] = watch - 1
  BY <1>2, EventsReady
<1>8. events # <<>> => watch' = events[Len(events)] + 1
  BY <1>2, <1>6, <1>7
<1>9. /\ pc' \in IF ok THEN {"collecting", "collected", "start", "handler"}
                       ELSE {"full", "hung", "probe", "stopping"}
      /\ pc' # "collecting"
  BY <1>5
<1> QED
  BY <1>1, <1>2, <1>3, <1>4, <1>6, <1>7, <1>8, <1>9, DeltaStep

\* An event arrives and stays in memory.
LEMMA EventKept ==
    ASSUME IInv, Response, pc \in {"collecting", "handler"},
           events' = Append(events, watch), watch' = watch + 1,
           UNCHANGED <<etcd, disk, lastRev, ssr, active, stopCh, req, caller, faults, demands>>,
           pc' \in {"collecting", "collected", "handler"},
           pc' = "collecting" => pc = "collecting"
    PROVE  IInv'
PROOF
<1> DEFINE evs == Append(events, watch)
<1>1. /\ evs \in Seq(Nat) /\ evs # <<>> /\ evs[Len(evs)] = watch /\ watch \in Nat
      /\ prev.last \in Nat /\ prev.last < watch /\ watch <= rev /\ rev \in Nat
      /\ prev.last + 1 .. watch \subseteq Revisions(evs)
      /\ \A i \in 1 .. Len(evs) : prev.last < evs[i] /\ evs[i] <= rev
  BY ResponseFits
<1>2. events' = evs
  OBVIOUS
<1> HIDE DEF evs
<1> USE DEF IInv
<1>3. StoreInv'
  BY <1>1, StoreKept DEF etcd
<1>4. TypeOK'
  BY SMTT(20), <1>1, <1>2 DEF TypeOK, PCs, etcd, disk, ssr
<1>5. PrevIsTip' /\ LoopPoints'
  BY DEF PrevIsTip, LoopPoints, Newest, disk, etcd, ssr
<1>6. EventsFit'
  <2>1. /\ watch' - 1 = watch /\ prev'.last = prev.last /\ rev' = rev /\ watch' # 0
        /\ prev.last < watch' /\ watch' <= rev + 1
    BY <1>1 DEF ssr, etcd
  <2> QED
    BY <1>1, <1>2, <2>1 DEF EventsFit
<1> QED
  BY <1>3, <1>4, <1>5, <1>6

\* An event arrives and its arrival makes a delta snapshot due.
LEMMA EventTaken ==
    ASSUME ~TornSave, IInv, Response, pc \in {"collecting", "handler"},
           NEW ok \in BOOLEAN, TakeDeltaSnapshot(Append(events, watch), ok),
           watch' = watch + 1, active' \in BOOLEAN, caller' = caller,
           UNCHANGED <<etcd, lastRev, prevFull, prevFullOK, stopCh, req, demands>>,
           pc' \in IF ok THEN {"collecting", "collected", "handler"}
                         ELSE {"full", "hung", "stopping"},
           pc' = "collecting" => pc = "collecting"
    PROVE  IInv'
PROOF
<1> DEFINE evs == Append(events, watch)
<1>1. /\ evs \in Seq(Nat) /\ evs # <<>> /\ evs[Len(evs)] = watch
      /\ prev.last < watch /\ watch <= rev
      /\ prev.last + 1 .. watch \subseteq Revisions(evs)
  BY ResponseFits
<1>2. TakeDeltaSnapshot(evs, ok)
  OBVIOUS
<1> HIDE DEF evs
<1>3. /\ caller' \in {"probe", "timer", "run"} \cup Clients
      /\ req' \in [Clients -> {"idle", "full", "final", "delta", "lost"}]
  BY DEF IInv, TypeOK
<1>4. pc' \in IF ok THEN {"collecting", "collected", "start", "handler"}
                    ELSE {"full", "hung", "probe", "stopping"}
  OBVIOUS
<1> QED
  BY <1>1, <1>2, <1>3, <1>4, DeltaStep

\* The two places where watch events arrive.
LEMMA EventSteps ==
    ASSUME ~TornSave, IInv, CollectEvent \/ HandleWatchEvents
    PROVE  IInv'
PROOF
<1>1. /\ Response /\ watch' = watch + 1 /\ pc \in {"collecting", "handler"} /\ caller' = caller
      /\ UNCHANGED <<etcd, lastRev, prevFull, prevFullOK, stopCh, req, demands>>
  BY DEF CollectEvent, HandleWatchEvents, CollectSucceeds, CollectFails
<1>2. active' \in BOOLEAN
  BY DEF CollectEvent, HandleWatchEvents, HandlerContinues, IInv, TypeOK
<1>3. CASE events' = Append(events, watch) /\ Works /\ UNCHANGED <<disk, prev, active>>
           /\ pc' \in {pc, "collected", "handler"}
  BY <1>1, <1>3, EventKept DEF Works, ssr
<1>4. ASSUME NEW ok \in BOOLEAN, TakeDeltaSnapshot(Append(events, watch), ok),
             pc' \in IF ok THEN {pc, "collected", "handler"} ELSE {"full", "hung", "stopping"}
      PROVE  IInv'
  <2>1. /\ pc' \in IF ok THEN {"collecting", "collected", "handler"}
                         ELSE {"full", "hung", "stopping"}
        /\ pc' = "collecting" => pc = "collecting"
    BY <1>1, <1>4
  <2> QED
    BY <1>1, <1>2, <1>4, <2>1, EventTaken
<1>5. \/ events' = Append(events, watch) /\ Works /\ UNCHANGED <<disk, prev, active>>
         /\ pc' \in {pc, "collected", "handler"}
      \/ \E ok \in BOOLEAN :
           /\ TakeDeltaSnapshot(Append(events, watch), ok)
           /\ pc' \in IF ok THEN {pc, "collected", "handler"} ELSE {"full", "hung", "stopping"}
  <2>1. CASE CollectEvent
    BY <2>1 DEF CollectEvent, CollectSucceeds, CollectFails, RunReturnsEarly
  <2>2. CASE HandleWatchEvents
    BY <2>2 DEF HandleWatchEvents, HandlerContinues
  <2> QED
    BY <2>1, <2>2
<1> QED
  BY <1>3, <1>4, <1>5

-----------------------------------------------------------------------------
(* The invariants *)

\* Every step of the snapshotter and of its surroundings keeps the invariant.
LEMMA NextIInv ==
    ASSUME ~TornSave, IInv, [Next]_vars
    PROVE  IInv'
PROOF
<1>1. CASE UNCHANGED vars
  <2>1. StoreInv'
    BY <1>1, StoreKept DEF vars, etcd, disk, IInv, TypeOK
  <2>2. TypeOK'
    BY <1>1 DEF vars, etcd, disk, ssr, mem, IInv, TypeOK
  <2>3. PrevIsTip' /\ LoopPoints'
    BY <1>1 DEF vars, etcd, disk, ssr, mem, IInv, PrevIsTip, LoopPoints, Newest
  <2>4. EventsFit'
    BY <1>1 DEF vars, etcd, disk, ssr, mem, IInv, EventsFit
  <2> QED
    BY <2>1, <2>2, <2>3, <2>4 DEF IInv
<1>2. CASE Write \/ Compact \/ OnStoppedLeading
           \/ \E c \in Clients, what \in {"full", "final", "delta"} : Trigger(c, what)
  BY <1>2, OutsideSteps
<1>3. CASE OnStartedLeading
  BY <1>3, StartedStep
<1>4. CASE Crash \/ ProbeExit
  BY <1>4, ExitSteps
<1>5. CASE Probe \/ Run \/ Stop \/ FullTimer \/ WatchEnds \/ HandlerStopped
           \/ \E c \in Clients : FullRequest(c)
  BY <1>5, ControlSteps
<1>6. CASE Collect
  BY <1>6, CollectStep
<1>7. CASE CollectStopped
  BY <1>7, CollectStoppedStep
<1>8. CASE FullGet
  BY <1>8, FullGetStep
<1>9. CASE FullSave
  BY <1>9, FullSaveStep
<1>10. CASE FullWatch
  BY <1>10, FullWatchStep
<1>11. CASE FirstDelta \/ DeltaTimer \/ \E c \in Clients : DeltaRequest(c)
  BY <1>11, DeltaSteps
<1>12. CASE CollectEvent \/ HandleWatchEvents
  BY <1>12, EventSteps
<1> QED
  BY <1>1, <1>2, <1>3, <1>4, <1>5, <1>6, <1>7, <1>8, <1>9, <1>10, <1>11, <1>12 DEF Next, Loop

\* If a Save that fails leaves nothing behind, the invariant always holds.
THEOREM Invariance == ASSUME ~TornSave PROVE Spec => []IInv
PROOF
<1>1. IInv /\ [Next]_vars => IInv'
  BY NextIInv
<1> QED
  BY <1>1, InitIInv, PTL DEF Spec

\* Every variable of the snapshotter, of the store and of the requests keeps its
\* type.
THEOREM TypeCorrect == ASSUME ~TornSave PROVE Spec => []TypeOK
PROOF
<1>1. IInv => TypeOK
  BY DEF IInv
<1> QED
  BY <1>1, Invariance, PTL

\* The delta snapshots that TakeDeltaSnapshot saves always form a chain: each
\* starts right after a snapshot saved before it and no two overlap, whatever
\* fails, however often the sidecar restarts and loses the leadership.
THEOREM ChainIsWellFormed == ASSUME ~TornSave PROVE Spec => []ChainWellFormed
PROOF
<1>1. IInv => ChainWellFormed
  <2> SUFFICES ASSUME IInv PROVE ChainWellFormed
    OBVIOUS
  <2>1. \A d \in Deltas : \E s \in store : s.last + 1 = d.start /\ s.created < d.created
    BY DEF IInv, StoreInv, DeltasFit
  <2>2. \A d, e \in Deltas : d = e \/ d.last < e.start \/ e.last < d.start
    <3> TAKE d, e \in Deltas
    <3>1. /\ d \in store /\ e \in store /\ d.kind = "Delta" /\ e.kind = "Delta"
          /\ d.created \in Nat /\ e.created \in Nat
      BY SnapshotFields DEF Deltas, IInv, StoreInv
    <3> QED
      BY <3>1 DEF IInv, StoreInv, StoreOrdered
  <2> QED
    BY <2>1, <2>2 DEF ChainWellFormed
<1> QED
  BY <1>1, Invariance, PTL

\* Every delta snapshot holds an event of each revision its name claims: the
\* events that a failed TakeDeltaSnapshot drops are collected again.
THEOREM EventsAreKept == ASSUME ~TornSave PROVE Spec => []NoEventLost
PROOF
<1>1. IInv => NoEventLost
  BY DEF IInv, StoreInv, DeltasFit, NoEventLost
<1> QED
  BY <1>1, Invariance, PTL

\* PrevSnapshot, from which the next watch and the next delta snapshot start, is
\* the snapshot that a sorted listing of the store ends with.
THEOREM PrevIsTheLatest == ASSUME ~TornSave PROVE Spec => []PrevIsLatest
PROOF
<1>1. IInv => PrevIsLatest
  <2> SUFFICES ASSUME IInv, pc # "off", store # {} PROVE prev = LatestSnapshot(store)
    BY DEF PrevIsLatest
  <2>1. Newest(LatestSnapshot(store), store) /\ Newest(prev, store)
    BY LatestIsNewest DEF IInv, PrevIsTip
  <2>2. \A s \in store : s.created \in Nat
    BY SnapshotFields DEF IInv, StoreInv
  <2> QED
    BY <2>1, <2>2 DEF Newest, IInv, StoreInv, StoreOrdered
<1> QED
  BY <1>1, Invariance, PTL

-----------------------------------------------------------------------------
(* Requests for full snapshots *)

\* takeFullSnapshot runs for a request that still waits for it, and once the snapshot is
\* saved or reused, PrevSnapshot is what was asked for.
Serving ==
    /\ pc \in {"full", "fullSave", "fullWatch"} /\ caller \in Clients =>
         req[caller] \in {"full", "final"}
    /\ pc = "fullWatch" => /\ prev.kind = "Full" /\ prev.last = lastRev /\ prev \in store
                           /\ IsFinal => prev.final

\* The steps outside takeFullSnapshot.
LEMMA ServingElsewhere ==
    ASSUME IInv, Serving, Next, ~FullGet, ~FullSave
    PROVE  Serving'
PROOF
<1> DEFINE Taking == {"full", "fullSave", "fullWatch"}
<1>1. ASSUME pc' \notin Taking PROVE Serving'
  BY <1>1 DEF Serving
<1>2. ASSUME pc' = "full", caller' \in {"probe", "timer"} PROVE Serving'
  BY <1>2, SnapshotterAssumption DEF Serving
<1>3. ASSUME UNCHANGED <<pc, caller, lastRev, prev, store, req>> PROVE Serving'
  BY <1>3 DEF Serving, IsFinal
<1>4. CASE Write \/ Compact \/ OnStoppedLeading
  BY <1>3, <1>4 DEF Write, Compact, OnStoppedLeading, disk, ssr
<1>5. CASE \E c \in Clients, what \in {"full", "final", "delta"} : Trigger(c, what)
  <2>1. PICK c \in Clients, what \in {"full", "final", "delta"} : Trigger(c, what)
    BY <1>5
  <2>2. /\ UNCHANGED <<pc, caller, lastRev, prev, store>> /\ req[c] = "idle"
        /\ \A d \in Clients \ {c} : req'[d] = req[d]
    BY <2>1 DEF Trigger, disk, ssr, IInv, TypeOK
  <2>3. pc \in Taking /\ caller \in Clients => req'[caller] = req[caller]
    BY <2>2 DEF Serving
  <2> QED
    BY <2>2, <2>3 DEF Serving, IsFinal
<1>6. CASE OnStartedLeading \/ Crash \/ ProbeExit \/ CollectStopped \/ Run \/ Stop
           \/ HandlerStopped \/ FirstDelta
  BY <1>1, <1>6 DEF OnStartedLeading, Crash, ProbeExit, CollectStopped, Run, Stop,
                    HandlerStopped, FirstDelta, Forget, RunReturnsEarly
<1>7. CASE DeltaTimer \/ HandleWatchEvents \/ \E c \in Clients : DeltaRequest(c)
  BY <1>1, <1>7 DEF DeltaTimer, HandleWatchEvents, DeltaRequest, HandlerContinues
<1>8. CASE Probe \/ FullTimer
  <2>1. pc' \in {"full", "collect"} /\ caller' \in {"probe", "timer"}
    BY <1>8 DEF Probe, FullTimer
  <2> QED
    BY <1>1, <1>2, <2>1
<1>9. CASE Collect \/ CollectEvent \/ WatchEnds
  <2>1. pc' \notin Taking \/ (pc' = "full" /\ caller' = "probe")
    BY <1>9 DEF Collect, CollectEvent, WatchEnds, CollectFails, CollectSucceeds, RunReturnsEarly
  <2> QED
    BY <1>1, <1>2, <2>1
<1>10. CASE \E c \in Clients : FullRequest(c)
  BY <1>10 DEF FullRequest, Serving
<1>11. CASE FullWatch
  <2>1. pc' \notin Taking
    BY <1>11 DEF FullWatch, FullReturns
  <2> QED
    BY <1>1, <2>1
<1> QED
  BY <1>4, <1>5, <1>6, <1>7, <1>8, <1>9, <1>10, <1>11 DEF Next, Loop

\* The revision is read, and an earlier final snapshot of it is reused.
LEMMA ServingGet ==
    ASSUME IInv, Serving, FullGet
    PROVE  Serving'
PROOF
<1>1. CASE FullReturns(FALSE)
  BY <1>1 DEF FullReturns, Serving
<1>2. CASE /\ lastRev' = rev /\ UNCHANGED <<events, prevFullOK, active, req>>
           /\ pc' = IF IsFinal /\ prev.final /\ prev.kind = "Full" /\ prev.last = rev
                    THEN "fullWatch" ELSE "fullSave"
  <2>1. UNCHANGED <<store, prev, caller, req>> /\ pc = "full"
    BY <1>2 DEF FullGet, disk
  <2>2. ASSUME pc' = "fullWatch" PROVE prev \in store /\ prev.final
    <3>1. prev.final /\ (prev = DummySnapshot \/ prev \in store)
      BY <1>2, <2>1, <2>2 DEF IInv, PrevIsTip, Newest
    <3> QED
      BY <3>1 DEF DummySnapshot, FullSnapshot
  <2> QED
    BY <1>2, <2>1, <2>2 DEF Serving
<1> QED
  BY <1>1, <1>2 DEF FullGet

\* The snapshot that is saved is named and marked as it was asked for.
LEMMA ServingSave ==
    ASSUME IInv, Serving, FullSave
    PROVE  Serving'
PROOF
<1>1. CASE FullReturns(FALSE)
  BY <1>1 DEF FullReturns, Serving
<1>2. CASE ~FullReturns(FALSE)
  <2>1. PICK db \in lastRev .. rev :
          LET snap == FullSnapshot(lastRev, db, clock + 1, IsFinal)
          IN Saved(snap) /\ prev' = snap /\ pc' = "fullWatch" /\ UNCHANGED req
    BY <1>2 DEF FullSave
  <2>2. UNCHANGED <<lastRev, caller, req>> /\ pc = "fullSave"
    BY <2>1 DEF FullSave
  <2>3. prev' \in store'
    BY <2>1 DEF Saved
  <2>4. prev'.kind = "Full" /\ prev'.last = lastRev /\ prev'.final = IsFinal
    BY <2>1 DEF FullSnapshot
  <2>5. pc' = "fullWatch"
    BY <2>1
  <2> QED
    BY <2>2, <2>3, <2>4, <2>5 DEF Serving, IsFinal
<1> QED
  BY <1>1, <1>2

\* A request for a full snapshot that is answered without an error has one of the revision
\* that etcd had when it was served, marked final if that was asked, also when an earlier
\* final snapshot is reused (takeFullSnapshot and the handler of fullSnapshotReqCh).
THEOREM RequestsAreHonoured == ASSUME ~TornSave PROVE Spec => RequestHonoured
PROOF
<1> DEFINE Honoured(c) ==
             req[c] \in {"full", "final"} /\ req'[c] = "idle" /\ pc' = "handler" =>
               /\ prev'.kind = "Full" /\ prev'.last = lastRev /\ prev' \in store'
               /\ req[c] = "final" => prev'.final
<1>1. Init => Serving
  BY DEF Init, Serving
<1>2. IInv /\ Serving /\ [Next]_vars => Serving'
  <2>1. CASE UNCHANGED vars
    BY <2>1 DEF vars, disk, ssr, Serving, IsFinal
  <2> QED
    BY <2>1, ServingElsewhere, ServingGet, ServingSave
<1>3. ASSUME IInv, Serving, Next, NEW c \in Clients PROVE Honoured(c)
  <2>1. SUFFICES ASSUME req[c] \in {"full", "final"}, req'[c] = "idle", pc' = "handler"
                 PROVE  /\ prev'.kind = "Full" /\ prev'.last = lastRev /\ prev' \in store'
                        /\ req[c] = "final" => prev'.final
    OBVIOUS
  <2>2. FullWatch /\ c = caller
    <3>1. ASSUME req' = req PROVE FALSE
      BY <2>1, <3>1
    <3>2. ASSUME NEW d \in Clients, NEW v, req' = [req EXCEPT ![d] = v], d # c PROVE FALSE
      BY <2>1, <3>2 DEF IInv, TypeOK
    <3>3. CASE Write \/ Compact \/ OnStoppedLeading \/ Probe \/ ProbeExit \/ Collect \/ CollectEvent
               \/ CollectStopped \/ FirstDelta \/ Run \/ Stop \/ WatchEnds
      BY <3>1, <3>3 DEF Write, Compact, OnStoppedLeading, Probe, ProbeExit, Collect, CollectEvent,
         CollectStopped, FirstDelta, Run, Stop, WatchEnds
    <3>4. CASE FullTimer \/ DeltaTimer \/ HandleWatchEvents \/ HandlerStopped
               \/ \E d \in Clients : FullRequest(d)
      BY <3>1, <3>4 DEF FullTimer, DeltaTimer, HandleWatchEvents, HandlerStopped, FullRequest
    <3>5. CASE OnStartedLeading \/ Crash
      BY <2>1, <3>5 DEF OnStartedLeading, Crash, Forget
    <3>6. CASE \E d \in Clients : DeltaRequest(d)
      <4>1. PICK d \in Clients : DeltaRequest(d)
        BY <3>6
      <4> QED
        BY <2>1, <3>2, <4>1 DEF DeltaRequest
    <3>7. CASE \E d \in Clients, what \in {"full", "final", "delta"} : Trigger(d, what)
      <4>1. PICK d \in Clients, what \in {"full", "final", "delta"} : Trigger(d, what)
        BY <3>7
      <4> QED
        BY <2>1, <3>2, <4>1 DEF Trigger
    <3>8. CASE FullGet \/ FullSave
      <4>1. pc' # "handler"
        BY <3>8 DEF FullGet, FullSave, FullReturns
      <4> QED
        BY <2>1, <4>1
    <3>9. CASE FullWatch
      <4>1. req' = IF caller \in Clients THEN [req EXCEPT ![caller] = "idle"] ELSE req
        BY <3>9 DEF FullWatch, FullReturns
      <4> QED
        BY <3>1, <3>2, <3>9, <4>1
    <3> QED
      BY <1>3, <3>3, <3>4, <3>5, <3>6, <3>7, <3>8, <3>9 DEF Next, Loop
  <2>3. UNCHANGED <<prev, store>> /\ pc = "fullWatch" /\ (req[c] = "final" => IsFinal)
    BY <2>2 DEF FullWatch, disk, IsFinal
  <2> QED
    BY <1>3, <2>3 DEF Serving
<1>4. IInv /\ Serving /\ [Next]_vars => [\A c \in Clients : Honoured(c)]_vars
  BY <1>3
<1> QED
  BY <1>1, <1>2, <1>4, Invariance, PTL DEF Spec, RequestHonoured

-----------------------------------------------------------------------------
(* The abstract specification *)

\* Nothing the snapshotter does removes a snapshot, and it saves none while etcd
\* commits a transaction.
LEMMA StoreGrows ==
    ASSUME [Next]_vars
    PROVE  /\ store \subseteq store'
           /\ rev' = rev \/ (rev' = rev + 1 /\ store' = store)
PROOF
<1>1. \A snap : Saved(snap) => store \subseteq store'
  BY DEF Saved
<1>2. \A snap : SaveFails(snap) => store \subseteq store'
  BY DEF SaveFails, disk
<1>3. \A evs, ok : TakeDeltaSnapshot(evs, ok) => store \subseteq store'
  BY <1>1, <1>2 DEF TakeDeltaSnapshot, disk
<1>4. CASE UNCHANGED vars
  BY <1>4 DEF vars, disk, etcd
<1>5. CASE Write \/ Compact \/ OnStoppedLeading \/ OnStartedLeading \/ Crash
           \/ \E c \in Clients, what \in {"full", "final", "delta"} : Trigger(c, what)
  BY <1>5 DEF Write, Compact, OnStoppedLeading, OnStartedLeading, Crash, Trigger, disk, etcd
<1>6. CASE Probe \/ Run \/ Stop \/ FullTimer \/ WatchEnds \/ HandlerStopped \/ ProbeExit
           \/ Collect \/ CollectStopped \/ FullGet \/ FullWatch
           \/ \E c \in Clients : FullRequest(c)
  BY <1>6 DEF Probe, Run, Stop, FullTimer, WatchEnds, HandlerStopped, ProbeExit, Collect,
       CollectStopped, FullGet, FullWatch, FullRequest, disk, etcd
<1>7. CASE FullSave
  BY <1>1, <1>2, <1>7 DEF FullSave, etcd
<1>8. CASE FirstDelta \/ DeltaTimer \/ \E c \in Clients : DeltaRequest(c)
  BY <1>3, <1>8 DEF FirstDelta, DeltaTimer, DeltaRequest, etcd
<1>9. CASE CollectEvent \/ HandleWatchEvents
  BY <1>3, <1>9 DEF CollectEvent, HandleWatchEvents, disk, etcd
<1> QED
  BY <1>4, <1>5, <1>6, <1>7, <1>8, <1>9 DEF Next, Loop

\* The store covers the revision of its newest snapshot.
CoversNewest ==
    IF store = {} THEN CoveredRevision(store) = 0
    ELSE \E m \in store : /\ \A s \in store : s.created <= m.created
                          /\ CoveredRevision(store) = m.last

\* The revision that a listing of the store shows to be covered is the newest.
LEMMA Covered == StoreInv => CoversNewest
PROOF
<1>1. CASE store = {}
  BY <1>1 DEF CoversNewest, CoveredRevision, LatestSnapshot, Fulls, DummySnapshot, FullSnapshot
<1>2. CASE store # {}
  BY <1>2, LatestIsNewest DEF CoversNewest, CoveredRevision, Newest
<1> QED
  BY <1>1, <1>2

\* The snapshotter implements the promise of a backup: what the store covers
\* never falls back and never runs ahead of etcd.
THEOREM RefinesBackup == ASSUME ~TornSave PROVE Spec => ImplementsBackup
PROOF
<1>1. Init => Backup!Init
  BY DEF Init, Backup!Init, CoveredRevision, LatestSnapshot, Fulls, DummySnapshot, FullSnapshot
<1>2. StoreInv' => CoversNewest'
  BY Covered, PTL
<1>3. ASSUME IInv, IInv', [Next]_vars
      PROVE  [Backup!Write \/ Backup!BackUp]_<<rev, CoveredRevision(store)>>
  <2>1. CoversNewest /\ CoversNewest'
    BY <1>2, <1>3, Covered DEF IInv
  <2>2. /\ \A s \in store' : s.created \in Nat /\ s.last \in Nat /\ s.last <= rev'
        /\ \A s, t \in store' : s.created <= t.created => s.last <= t.last
        /\ rev \in Nat /\ rev' \in Nat
    BY <1>3, SnapshotFields DEF IInv, StoreInv, StoreOrdered
  <2>3. store \subseteq store' /\ (rev' = rev \/ (rev' = rev + 1 /\ store' = store))
    BY <1>3, StoreGrows
  <2>4. /\ CoveredRevision(store) \in Nat /\ CoveredRevision(store') \in Nat
        /\ CoveredRevision(store) <= CoveredRevision(store') /\ CoveredRevision(store') <= rev'
    BY <2>1, <2>2, <2>3 DEF CoversNewest
  <2> QED
    BY <2>2, <2>3, <2>4 DEF Backup!Write, Backup!BackUp
<1> QED
  BY <1>1, <1>3, Invariance, PTL DEF Spec, ImplementsBackup, Backup!Spec

-----------------------------------------------------------------------------
(***************************************************************************)
(* A snapshotter beside others that save to the same store, with saves     *)
(* that may leave anything behind: what it needs of the store, what it     *)
(* keeps of it, and what one of its steps does to it.                      *)
(***************************************************************************)

\* Events from revision first on: runs of successive revisions, each of which starts
\* at first again, as they come about when a watch ends and its events stay in memory.
Runs(evs, first) ==
    /\ evs # <<>> => evs[1] = first
    /\ \A i \in 1 .. Len(evs) : first <= evs[i]
    /\ \A i \in 2 .. Len(evs) : evs[i] = evs[i - 1] + 1 \/ evs[i] = first

\* A snapshot of a shared store: cut short, or with the contents that its name claims;
\* a delta snapshot continues a snapshot saved before it.
Fits(s) ==
    /\ s \in Snapshot /\ s.last <= rev
    /\ s.kind = "Full" => s.db <= rev /\ (s.db = 0 \/ s.last <= s.db)
    /\ s.kind = "Delta" =>
         /\ s.start <= s.last
         /\ s.events # <<>> => Runs(s.events, s.start) /\ s.events[Len(s.events)] = s.last
         /\ \E p \in store : p.last + 1 = s.start /\ p.created < s.created
         /\ Fulls(store) # {}

SharedStore ==
    /\ clock \in Nat /\ rev \in Nat
    /\ \A s \in store : Fits(s) /\ s.created \in 1 .. clock
    /\ \A s, t \in store : s.created = t.created => s = t

\* Where a delta snapshot can be taken, PrevSnapshot is in the store, if not its latest.
SidePoints ==
    /\ pc # "off" => prev \in store \/ prev = DummySnapshot
    /\ \/ pc # "off" /\ prevFull # NilSnapshot
       \/ pc \in {"collect", "collecting", "collected", "fullWatch", "start", "handler"}
       => prev \in store /\ Fulls(store) # {}

\* The events in memory start after PrevSnapshot and end before the watch.
SideEvents ==
    /\ pc # "fullWatch" => Runs(events, prev.last + 1) /\ \A i \in 1 .. Len(events) : events[i] <= rev
    /\ pc \in {"collecting", "collected", "start", "handler"} /\ watch # 0 =>
         /\ watch <= rev + 1
         /\ \/ watch = prev.last + 1 /\ (events = <<>> \/ pc = "collecting")
            \/ events # <<>> /\ watch = events[Len(events)] + 1
    /\ pc = "collecting" => watch # 0
    /\ pc \in {"collected", "handler"} /\ events # <<>> => watch # 0
    /\ pc \in {"off", "start"} => events = <<>>

SideTypes ==
    /\ lastRev \in Nat /\ lastRev <= rev /\ pc \in PCs /\ prev \in Snapshot
    /\ watch \in Nat /\ events \in Seq(Nat)

Side == SideTypes /\ SidePoints /\ SideEvents

\* What a step does to the store and to PrevSnapshot.
Nothing ==
    /\ store' = store /\ clock' = clock
    /\ pc' = "off" \/ prev' = IF pc = "off" THEN LatestSnapshot(store) ELSE prev
    /\ pc' = "fullSave" => lastRev' = rev \/ (pc = "fullSave" /\ lastRev' = lastRev)

Adds ==
    /\ faults' = faults /\ clock' = clock + 1 /\ store' = store \cup {prev'}
    /\ pc # "off" /\ pc' # "fullSave" /\ prev'.created = clock + 1
    /\ \/ prev'.kind = "Delta" /\ prev'.start = prev.last + 1
       \/ prev'.kind = "Full" /\ pc = "fullSave" /\ prev'.last = lastRev

Breaks ==
    /\ faults' # faults /\ clock' = clock + 1
    /\ \E s \in store' : store' = store \cup {s}

Effect == rev' = rev /\ faults' \in {faults, faults + 1} /\ (Nothing \/ Adds \/ Breaks)

\* A fitting snapshot stays one while the store and etcd grow.
LEMMA FitsGrow ==
    ASSUME NEW s, Fits(s), store \subseteq store', rev \in Nat, rev' \in Nat, rev <= rev'
    PROVE  Fits(s)'
PROOF
<1>1. s.last \in Nat /\ s.db \in Nat
  BY DEF Fits, Snapshot
<1>2. Fulls(store) # {} => Fulls(store') # {}
  BY DEF Fulls
<1>3. \A n \in Nat : n <= rev => n <= rev'
  OBVIOUS
<1>4. s.last <= rev' /\ (s.kind = "Full" => s.db <= rev')
  BY <1>1, <1>3 DEF Fits
<1> QED
  BY <1>2, <1>4 DEF Fits

\* What a failing Save leaves fits where the whole snapshot would.
LEMMA TornFits ==
    ASSUME NEW s, Fits(s), rev \in Nat
    PROVE  Fits(Torn(s)) /\ Torn(s).created = s.created
PROOF
<1>0. s \in Snapshot
  BY DEF Fits
<1>1. /\ Torn(s).kind = s.kind /\ Torn(s).start = s.start
      /\ Torn(s).last = s.last /\ Torn(s).created = s.created
      /\ Torn(s).db = 0 /\ Torn(s).events = <<>>
  BY <1>0 DEF Torn, Snapshot
<1>4. Torn(s) \in Snapshot
  <2>1. ASSUME NEW evs \in Seq(Nat), NEW n \in Nat
        PROVE  [s EXCEPT !.events = evs, !.db = n] \in Snapshot
    BY <1>0 DEF Snapshot
  <2>2. <<>> \in Seq(Nat)
    OBVIOUS
  <2> QED
    BY <2>1, <2>2 DEF Torn
<1>2. s.last \in Nat /\ s.db \in Nat /\ s.kind \in {"Full", "Delta"}
  BY DEF Fits, Snapshot
<1>3. 0 <= rev
  OBVIOUS
<1> HIDE DEF Torn
<1> QED
  BY <1>1, <1>2, <1>3, <1>4 DEF Fits

\* The store with one more fitting snapshot,
LEMMA StoreAdd ==
    ASSUME SharedStore, rev' = rev, NEW s, Fits(s), s.created = clock + 1,
           store' = store \cup {s}, clock' = clock + 1
    PROVE  SharedStore'
PROOF
<1> USE DEF SharedStore
<1>1. \A x \in store : Fits(x)'
  BY FitsGrow
<1>2. Fits(s)'
  BY FitsGrow
<1>3. \A x \in store : x.created \in Nat /\ x.created # s.created
  OBVIOUS
<1> QED
  BY <1>1, <1>2, <1>3

\* and with what a Save makes of it.
LEMMA SaveKeeps ==
    ASSUME SharedStore, rev' = rev, NEW s, Fits(s), s.created = clock + 1,
           Saved(s) \/ SaveFails(s)
    PROVE  SharedStore' /\ store \subseteq store'
PROOF
<1>1. CASE Saved(s)
  BY <1>1, StoreAdd DEF Saved
<1>2. CASE UNCHANGED disk
  BY <1>2, FitsGrow DEF disk, SharedStore
<1>3. CASE \E left \in {s, Torn(s)} : store' = store \cup {left} /\ clock' = clock + 1
  BY <1>3, StoreAdd, TornFits DEF SharedStore
<1> QED
  BY <1>1, <1>2, <1>3 DEF SaveFails

\* A step that leaves the store alone.
LEMMA SharedKept ==
    ASSUME SharedStore, UNCHANGED disk, rev' \in Nat, rev <= rev'
    PROVE  SharedStore'
BY FitsGrow DEF disk, SharedStore

\* A bound that grows.
LEMMA NextStays == \A a, b, w \in Nat : a <= b /\ w <= a + 1 => w <= b + 1
OBVIOUS

\* Steps of others leave a side what it is.
LEMMA SideKept ==
    ASSUME Side, rev \in Nat, rev' \in Nat, rev <= rev', store \subseteq store',
           UNCHANGED <<pc, lastRev, prev, prevFull, watch, events>>
    PROVE  Side'
PROOF
<1>1. SideTypes'
  BY DEF Side, SideTypes
<1>2. SidePoints'
  BY DEF Side, SidePoints, Fulls
<1>3. SideEvents'
  <2>1. watch \in Nat /\ \A i \in 1 .. Len(events) : events[i] \in Nat
    BY DEF Side, SideTypes
  <2>2. \A i \in 1 .. Len(events) : events[i] <= rev => events[i] <= rev'
    BY <2>1
  <2>3. \A w \in Nat : w <= rev + 1 => w <= rev' + 1
    BY NextStays
  <2>4. Runs(events, prev.last + 1)' = Runs(events, prev.last + 1)
    BY DEF Runs
  <2> QED
    BY <2>1, <2>2, <2>3, <2>4 DEF Side, SideEvents
<1> QED
  BY <1>1, <1>2, <1>3 DEF Side

\* With no events in memory, only the watch matters.
LEMMA NoEvents ==
    ASSUME events' = <<>>, pc' = "collecting" => watch' # 0,
           pc' \in {"collecting", "collected", "start", "handler"} /\ watch' # 0 =>
             watch' <= rev' + 1 /\ watch' = prev'.last + 1
    PROVE  SideEvents'
PROOF
<1>1. ASSUME NEW first
      PROVE  Runs(<<>>, first) /\ \A i \in 1 .. Len(<<>>) : <<>>[i] <= rev'
  BY DEF Runs
<1>2. Runs(events, prev.last + 1)' /\ \A i \in 1 .. Len(events') : events'[i] <= rev'
  <2>1. Runs(<<>>, prev'.last + 1) /\ \A i \in 1 .. Len(<<>>) : <<>>[i] <= rev'
    BY <1>1
  <2> QED
    BY <2>1
<1> QED
  BY <1>2 DEF SideEvents

\* At the start.
LEMMA SideInit == Init => SharedStore /\ Side
PROOF
<1> SUFFICES ASSUME Init PROVE SharedStore /\ Side
  OBVIOUS
<1>1. SharedStore
  BY DEF Init, SharedStore
<1>2. SideTypes
  BY SnapshotTypes DEF Init, SideTypes, PCs
<1> QED
  BY <1>1, <1>2 DEF Init, Side, SidePoints, SideEvents, Runs

\* The Snapshotter is dropped.
LEMMA SideForget ==
    ASSUME SharedStore, Side, Forget, UNCHANGED <<etcd, disk>>, faults' \in {faults, faults + 1}
    PROVE  SharedStore' /\ Side' /\ Effect
PROOF
<1>1. SharedStore'
  BY SharedKept DEF etcd, SharedStore
<1>2. SideTypes'
  BY SnapshotTypes DEF Forget, SideTypes, PCs, etcd, SharedStore
<1>3. SidePoints' /\ SideEvents'
  BY DEF Forget, SidePoints, SideEvents, Runs
<1>4. Effect
  BY DEF Effect, Nothing, Forget, etcd, disk
<1> QED
  BY <1>1, <1>2, <1>3, <1>4 DEF Side

\* The loop moves on, or takes a new Snapshotter's place, without touching store or events.
LEMMA SideControl ==
    ASSUME SharedStore, Side,
           \/ Probe \/ Run \/ Stop \/ FullTimer \/ WatchEnds \/ HandlerStopped
           \/ OnStoppedLeading \/ \E c \in Clients : FullRequest(c)
    PROVE  SharedStore' /\ Side' /\ Effect
PROOF
<1> USE DEF Side
<1>1. UNCHANGED <<etcd, disk, lastRev, ssr>> /\ faults' \in {faults, faults + 1}
  BY DEF Probe, Run, Stop, FullTimer, WatchEnds, HandlerStopped, OnStoppedLeading, FullRequest,
         Works, Fails
<1>2. SharedStore'
  BY SMTT(20), <1>1, SharedKept DEF etcd, SharedStore
<1>3. CASE Probe
  <2>1. SideTypes'
    BY <1>1, <1>3 DEF Probe, SideTypes, PCs, etcd, ssr, mem
  <2>2. SidePoints'
    BY <1>1, <1>3 DEF Probe, SidePoints, FullSnapshotRequired, disk, ssr
  <2>3. SideEvents' /\ Effect
    BY <1>1, <1>3 DEF Probe, SideEvents, Effect, Nothing, etcd, disk, ssr, mem
  <2> QED
    BY <1>2, <2>1, <2>2, <2>3
<1>4. CASE Run
  <2>1. SideTypes'
    BY <1>1, <1>4 DEF Run, SideTypes, PCs, etcd, ssr, mem
  <2>2. SidePoints'
    BY <1>1, <1>4 DEF Run, SidePoints, disk, ssr
  <2>3. SideEvents' /\ Effect
    BY <1>1, <1>4 DEF Run, SideEvents, Effect, Nothing, etcd, disk, ssr, mem
  <2> QED
    BY <1>2, <2>1, <2>2, <2>3
<1>5. CASE Stop
  <2>1. SideTypes'
    BY <1>1, <1>5 DEF Stop, SideTypes, PCs, etcd, ssr
  <2>2. SidePoints'
    BY <1>1, <1>5 DEF Stop, SidePoints, disk, ssr
  <2>3. SideEvents' /\ Effect
    BY <1>1, <1>5 DEF Stop, SideEvents, Effect, Nothing, etcd, disk, ssr
  <2> QED
    BY <1>2, <2>1, <2>2, <2>3
<1>6. CASE FullTimer \/ \E c \in Clients : FullRequest(c)
  <2>1. SideTypes'
    BY <1>1, <1>6 DEF FullTimer, FullRequest, SideTypes, PCs, etcd, ssr, mem
  <2>2. SidePoints'
    BY <1>1, <1>6 DEF FullTimer, FullRequest, SidePoints, disk, ssr
  <2>3. SideEvents' /\ Effect
    BY <1>1, <1>6 DEF FullTimer, FullRequest, SideEvents, Effect, Nothing, etcd, disk, ssr, mem
  <2> QED
    BY <1>2, <2>1, <2>2, <2>3
<1>7. CASE WatchEnds
  <2>1. SideTypes'
    BY <1>1, <1>7 DEF WatchEnds, CollectFails, RunReturnsEarly, SideTypes, PCs, etcd, ssr, mem
  <2>2. SidePoints'
    BY <1>1, <1>7 DEF WatchEnds, CollectFails, RunReturnsEarly, SidePoints, disk, ssr
  <2>3. SideEvents' /\ Effect
    BY <1>1, <1>7 DEF WatchEnds, CollectFails, RunReturnsEarly, SideEvents, Effect, Nothing, etcd,
           disk, ssr, mem
  <2> QED
    BY <1>2, <2>1, <2>2, <2>3
<1>8. CASE HandlerStopped
  <2>1. SideTypes'
    BY SMTT(20), <1>1, <1>8 DEF HandlerStopped, SideTypes, PCs, etcd, ssr
  <2>2. SidePoints'
    BY <1>1, <1>8 DEF HandlerStopped, SidePoints, disk, ssr
  <2>3. SideEvents'
    BY <1>8, NoEvents DEF HandlerStopped
  <2>4. Effect
    BY <1>1, <1>8 DEF HandlerStopped, Effect, Nothing, etcd, disk, ssr
  <2> QED
    BY <1>2, <2>1, <2>2, <2>3, <2>4
<1>9. CASE OnStoppedLeading
  <2>1. UNCHANGED <<rev, store, pc, lastRev, prev, prevFull, watch, events>> /\ rev \in Nat
    BY <1>1, <1>9 DEF OnStoppedLeading, etcd, disk, ssr, mem, SharedStore
  <2>3. Side'
    BY <2>1, SideKept
  <2>2. Effect
    BY <1>1, <1>9 DEF OnStoppedLeading, Effect, Nothing, etcd, disk, ssr
  <2> QED
    BY <1>2, <2>2, <2>3
<1> QED
  BY <1>3, <1>4, <1>5, <1>6, <1>7, <1>8, <1>9

\* A new Snapshotter starts from the store.
LEMMA SideStarted ==
    ASSUME SharedStore, Side, OnStartedLeading,
           Fulls(store) # {} => LatestFull(store) \in Fulls(store) /\ LatestSnapshot(store) \in store
    PROVE  SharedStore' /\ Side' /\ Effect
PROOF
<1> USE DEF Side, OnStartedLeading
<1>1. SharedStore'
  <2>1. UNCHANGED disk /\ rev' \in Nat /\ rev <= rev'
    BY DEF etcd, SharedStore
  <2> QED
    BY <2>1, SharedKept
<1>2. /\ prev' \in store \/ (prev' = DummySnapshot /\ prevFull' = NilSnapshot)
      /\ Fulls(store) = {} => prevFull' = NilSnapshot
  BY DEF LatestSnapshot, LatestFull
<1>3. prev' \in Snapshot
  BY <1>2, SnapshotTypes DEF SharedStore, Fits
<1>4. SideTypes'
  BY <1>3 DEF SideTypes, PCs, etcd, mem
<1>5. SidePoints'
  BY <1>2 DEF SidePoints, disk
<1>6. SideEvents'
  <2>1. events' = <<>> /\ pc' = "probe"
    BY DEF mem, SideEvents
  <2> QED
    BY <2>1, NoEvents
<1>7. Effect
  BY DEF Effect, Nothing, etcd, disk
<1> QED
  BY <1>1, <1>4, <1>5, <1>6, <1>7

\* PrevSnapshot is not past etcd's revision.
LEMMA PrevBound ==
    ASSUME SharedStore, Side, pc # "off"
    PROVE  prev.last \in Nat /\ prev.last <= rev
PROOF
<1>1. prev.last \in Nat /\ rev \in Nat
  BY SnapshotFields DEF Side, SideTypes, SharedStore
<1>2. CASE prev \in store
  BY <1>1, <1>2 DEF SharedStore, Fits
<1>3. CASE prev = DummySnapshot
  <2>1. prev.last = 0
    BY <1>3 DEF DummySnapshot, FullSnapshot
  <2> QED
    BY <1>1, <2>1
<1> QED
  BY <1>2, <1>3 DEF Side, SidePoints

\* CollectEventsSincePrevSnapshot starts its watch after PrevSnapshot, or is stopped.
LEMMA SideCollect ==
    ASSUME SharedStore, Side, Collect
    PROVE  SharedStore' /\ Side' /\ Effect
PROOF
<1> USE DEF Side, Collect
<1>0. prev.last \in Nat /\ prev.last <= rev /\ rev \in Nat
  BY PrevBound DEF SharedStore
<1>1. SharedStore'
  BY SMTT(20), SharedKept DEF etcd, SharedStore
<1>2. CASE Works /\ lastRev' = rev /\ watch' = prev.last + 1
           /\ IF prev.last = rev THEN CollectSucceeds ELSE pc' = "collecting" /\ UNCHANGED caller
  <2>1. SideTypes'
    BY SMTT(20), <1>0, <1>2 DEF SideTypes, CollectSucceeds, PCs, etcd, ssr
  <2>2. SidePoints'
    BY <1>2 DEF SidePoints, CollectSucceeds, disk, ssr
  <2>3. prev.last = rev => events = <<>>
    <3> SUFFICES ASSUME prev.last = rev, events # <<>> PROVE FALSE
      OBVIOUS
    <3>1. Len(events) \in Nat /\ Len(events) > 0
      BY DEF SideTypes
    <3>2. 1 \in 1 .. Len(events)
      BY <3>1
    <3>3. Runs(events, prev.last + 1) /\ events[1] <= rev
      BY <3>2 DEF SideEvents
    <3>4. events[1] = prev.last + 1
      BY <3>3 DEF Runs
    <3> QED
      BY <3>3, <3>4, <1>0
  <2>4. SideEvents'
    <3>1. pc' \in {"collecting", "collected", "handler"} /\ watch' <= rev + 1 /\ watch' # 0
      BY <1>0, <1>2 DEF CollectSucceeds
    <3>2. pc' # "collecting" => events = <<>>
      BY <1>2, <2>3
    <3>3. UNCHANGED <<rev, prev, events>>
      BY DEF etcd, ssr
    <3> QED
      BY <1>2, <3>1, <3>2, <3>3 DEF SideEvents
  <2>5. Effect
    BY <1>2 DEF Effect, Nothing, Works, CollectSucceeds, etcd, disk, ssr
  <2> QED
    BY <1>1, <2>1, <2>2, <2>4, <2>5
<1>3. CASE Fails /\ watch' = 0 /\ CollectFails /\ UNCHANGED lastRev
  <2>1. pc' \in {"full", "hung", "stopping"} /\ UNCHANGED <<rev, store, clock, prev, prevFull, events>>
    BY <1>3 DEF CollectFails, RunReturnsEarly, etcd, disk, ssr
  <2>2. SideTypes' /\ SidePoints' /\ SideEvents'
    BY <1>3, <2>1 DEF SideTypes, SidePoints, SideEvents, PCs
  <2>3. Effect
    BY <1>3, <2>1 DEF Effect, Nothing, Fails
  <2> QED
    BY <1>1, <2>2, <2>3
<1> QED
  BY <1>2, <1>3

LEMMA SideCollectStopped ==
    ASSUME SharedStore, Side, CollectStopped
    PROVE  SharedStore' /\ Side' /\ Effect
PROOF
<1>1. CASE Forget
  BY <1>1, SideForget DEF CollectStopped
<1>2. CASE /\ RunReturnsEarly /\ watch' = 0 /\ events' = <<>>
           /\ UNCHANGED <<caller, lastRev, ssr, active, stopCh>>
  <2>1. /\ pc' \in {"hung", "stopping"} /\ watch' = 0 /\ events' = <<>>
        /\ UNCHANGED <<rev, store, clock, faults, prev, prevFull, lastRev>> /\ pc = "collecting"
    BY <1>2 DEF CollectStopped, RunReturnsEarly, etcd, disk, ssr
  <2>2. SharedStore'
    BY SMTT(20), <2>1, SharedKept DEF SharedStore, disk
  <2>3. SideTypes' /\ SidePoints'
    BY <2>1 DEF Side, SideTypes, SidePoints, PCs
  <2>4. SideEvents'
    BY <2>1, NoEvents
  <2> QED
    BY <2>1, <2>2, <2>3, <2>4 DEF Side, Effect, Nothing
<1> QED
  BY <1>1, <1>2 DEF CollectStopped

\* takeFullSnapshot, up to reading etcd's revision,
LEMMA SideFullGet ==
    ASSUME SharedStore, Side, FullGet
    PROVE  SharedStore' /\ Side' /\ Effect
PROOF
<1> USE DEF Side
<1>0. UNCHANGED <<rev, store, clock, prev, prevFull>> /\ pc = "full" /\ watch' = 0
  BY DEF FullGet, etcd, disk
<1>1. SharedStore'
  BY <1>0, SharedKept DEF disk, SharedStore
<1>2. CASE Works /\ lastRev' = rev /\ UNCHANGED events
           /\ pc' = IF IsFinal /\ prev.final /\ prev.kind = "Full" /\ prev.last = rev
                    THEN "fullWatch" ELSE "fullSave"
  <2>1. pc' = "fullWatch" => prev \in store /\ Fulls(store) # {}
    <3> SUFFICES ASSUME pc' = "fullWatch" PROVE prev \in store /\ Fulls(store) # {}
      OBVIOUS
    <3>1. prev.final /\ prev.kind = "Full"
      BY <1>2
    <3>0. ~DummySnapshot.final
      BY DEF DummySnapshot, FullSnapshot
    <3>2. prev # DummySnapshot
      BY <3>0, <3>1
    <3> QED
      BY <1>0, <3>1, <3>2 DEF SidePoints, Fulls
  <2>2. SideTypes'
    BY <1>0, <1>2 DEF SideTypes, PCs, SharedStore
  <2>3. SidePoints'
    BY <1>0, <1>2, <2>1 DEF SidePoints
  <2>4. SideEvents'
    BY <1>0, <1>2 DEF SideEvents
  <2>5. Effect
    BY <1>0, <1>2 DEF Effect, Nothing, Works
  <2> QED
    BY <1>1, <2>2, <2>3, <2>4, <2>5
<1>3. CASE Fails /\ FullReturns(FALSE) /\ UNCHANGED lastRev
  <2>1. pc' \in {"probe", "stopping"} /\ events' = <<>> /\ lastRev' = lastRev
    BY <1>3 DEF FullReturns
  <2>2. SideTypes' /\ SidePoints'
    BY SMTT(20), <1>0, <2>1 DEF SideTypes, SidePoints, PCs
  <2>3. SideEvents'
    BY <2>1, NoEvents
  <2>4. Effect
    BY <1>0, <1>3, <2>1 DEF Effect, Nothing, Fails
  <2> QED
    BY <1>1, <2>2, <2>3, <2>4
<1> QED
  BY <1>2, <1>3 DEF FullGet

\* saving it,
LEMMA SideFullSave ==
    ASSUME SharedStore, Side, FullSave, faults \in Nat
    PROVE  SharedStore' /\ Side' /\ Effect
PROOF
<1> USE DEF Side
<1>0. UNCHANGED <<rev, lastRev, watch>> /\ pc = "fullSave" /\ rev \in Nat /\ clock \in Nat
  BY DEF FullSave, etcd, SharedStore
<1>1. PICK db \in lastRev .. rev :
        LET snap == FullSnapshot(lastRev, db, clock + 1, IsFinal)
        IN \/ /\ Saved(snap)
              /\ prev' = snap /\ prevFull' = snap /\ pc' = "fullWatch" /\ UNCHANGED events
           \/ SaveFails(snap) /\ FullReturns(FALSE) /\ UNCHANGED <<prev, prevFull>>
  BY DEF FullSave
<1> DEFINE snap == FullSnapshot(lastRev, db, clock + 1, IsFinal)
<1>2. lastRev \in Nat /\ db \in Nat /\ lastRev <= db /\ db <= rev /\ IsFinal \in BOOLEAN
  BY <1>0 DEF SideTypes, IsFinal
<1>3. snap \in Snapshot /\ snap.kind = "Full" /\ snap.last = lastRev /\ snap.db = db
      /\ snap.created = clock + 1
  <2>1. snap \in Snapshot
    BY <1>0, <1>2, SnapshotTypes
  <2> QED
    BY <2>1 DEF FullSnapshot
<1> HIDE DEF snap
<1>4. Fits(snap)
  <2>1. lastRev <= rev
    BY <1>0, <1>2
  <2>2. snap.last <= rev /\ snap.db <= rev /\ snap.last <= snap.db /\ snap.kind # "Delta"
    BY <1>2, <1>3, <2>1
  <2> QED
    BY <1>3, <2>2 DEF Fits
<1>5. SharedStore' /\ store \subseteq store'
  BY <1>0, <1>1, <1>3, <1>4, SaveKeeps DEF snap
<1>6. CASE Saved(snap) /\ prev' = snap /\ prevFull' = snap /\ pc' = "fullWatch" /\ UNCHANGED events
  <2>1. store' = store \cup {snap} /\ clock' = clock + 1 /\ faults' = faults
    BY <1>6 DEF Saved, Works
  <2>2. snap \in Fulls(store')
    BY <2>1, <1>3 DEF Fulls
  <2>3. SideTypes' /\ SidePoints' /\ SideEvents'
    BY <1>0, <1>3, <1>6, <2>1, <2>2 DEF SideTypes, SidePoints, SideEvents, PCs
  <2>4. Effect
    BY <1>0, <1>3, <1>6, <2>1 DEF Effect, Adds
  <2> QED
    BY <1>5, <2>3, <2>4
<1>7. CASE SaveFails(snap) /\ FullReturns(FALSE) /\ UNCHANGED <<prev, prevFull>>
  <2>1. pc' \in {"probe", "stopping"} /\ events' = <<>>
    BY <1>7 DEF FullReturns
  <2>2. SideTypes' /\ SidePoints' /\ SideEvents'
    <3>1. SideTypes'
      BY <1>0, <1>7, <2>1 DEF SideTypes, PCs
    <3>2. SidePoints'
      BY <1>0, <1>5, <1>7, <2>1 DEF SidePoints, Fulls
    <3>3. SideEvents'
      BY <2>1, NoEvents
    <3> QED
      BY <3>1, <3>2, <3>3
  <2>3. faults' = faults + 1 /\ faults' # faults
    BY <1>7 DEF SaveFails, Fails
  <2>4. (store' = store /\ clock' = clock) \/ Breaks
    BY <1>7, <2>3 DEF SaveFails, disk, Breaks
  <2>5. Effect
    BY <1>0, <1>7, <2>1, <2>3, <2>4 DEF Effect, Nothing
  <2> QED
    BY <1>5, <2>2, <2>5
<1> QED
  BY <1>1, <1>6, <1>7 DEF snap

\* and watching etcd from it on.
LEMMA SideFullWatch ==
    ASSUME SharedStore, Side, FullWatch
    PROVE  SharedStore' /\ Side' /\ Effect
PROOF
<1> USE DEF Side
<1>0. /\ UNCHANGED <<rev, store, clock, prev, prevFull, lastRev>> /\ pc = "fullWatch"
      /\ prev.last \in Nat /\ prev.last <= rev /\ rev \in Nat
      /\ prev \in store /\ Fulls(store) # {}
  BY PrevBound DEF FullWatch, etcd, disk, SharedStore, SidePoints
<1>1. SharedStore'
  BY SMTT(20), <1>0, SharedKept DEF disk, SharedStore
<1>2. /\ events' = <<>> /\ watch' \in {0, prev.last + 1} /\ faults' \in {faults, faults + 1}
      /\ pc' \in {"start", "handler", "probe", "stopping"}
  BY DEF FullWatch, FullReturns, Works, Fails
<1>3. SideTypes'
  BY SMTT(20), <1>0, <1>2 DEF SideTypes, PCs
<1>4. SidePoints'
  BY <1>0, <1>2 DEF SidePoints
<1>5. SideEvents'
  <2>1. watch' # 0 => watch' <= rev' + 1 /\ watch' = prev'.last + 1
    BY <1>0, <1>2
  <2> QED
    BY <1>2, <2>1, NoEvents
<1>6. Effect
  BY <1>0, <1>2 DEF Effect, Nothing
<1> QED
  BY <1>1, <1>3, <1>4, <1>5, <1>6

\* One more event continues a run or starts another.
LEMMA RunsAppend ==
    ASSUME NEW evs \in Seq(Nat), NEW first \in Nat, NEW r \in Nat, Runs(evs, first),
           r = first \/ (evs # <<>> /\ r = evs[Len(evs)] + 1)
    PROVE  LET a == Append(evs, r) IN Runs(a, first) /\ a \in Seq(Nat) /\ a # <<>> /\ a[Len(a)] = r
PROOF
<1> DEFINE a == Append(evs, r)
<1>1. /\ a \in Seq(Nat) /\ Len(evs) \in Nat /\ Len(a) = Len(evs) + 1 /\ a # <<>>
      /\ a[Len(a)] = r
  OBVIOUS
<1>2. \A i \in 1 .. Len(evs) : a[i] = evs[i] /\ evs[i] \in Nat
  OBVIOUS
<1>3. evs # <<>> => Len(evs) \in 1 .. Len(evs)
  OBVIOUS
<1> HIDE DEF a
<1>4. first <= r
  BY <1>2, <1>3 DEF Runs
<1>5. a[1] = first
  <2>1. CASE evs = <<>>
    BY <2>1, <1>1
  <2>2. CASE evs # <<>>
    BY <2>2, <1>1, <1>2, <1>3 DEF Runs
  <2> QED
    BY <2>1, <2>2
<1>6. \A i \in 1 .. Len(a) : first <= a[i]
  <2>1. \A i \in 1 .. Len(evs) : first <= a[i]
    BY <1>2 DEF Runs
  <2>2. 1 .. Len(a) = (1 .. Len(evs)) \cup {Len(a)}
    BY <1>1
  <2> QED
    BY <1>1, <1>4, <2>1, <2>2
<1>7. ASSUME NEW i \in 2 .. Len(a)
      PROVE  a[i] = a[i - 1] + 1 \/ a[i] = first
  <2>1. i - 1 \in 1 .. Len(evs)
    BY <1>1
  <2>2. CASE i \in 2 .. Len(evs)
    <3>0. i \in 1 .. Len(evs)
      BY <2>2, <1>1
    <3>1. a[i] = evs[i] /\ a[i - 1] = evs[i - 1]
      BY <2>1, <3>0, <1>2
    <3> QED
      BY <2>2, <3>1 DEF Runs
  <2>3. CASE i = Len(a)
    <3>1. i - 1 = Len(evs) /\ evs # <<>>
      BY <2>1, <2>3, <1>1
    <3> QED
      BY <2>1, <2>3, <3>1, <1>1, <1>2
  <2> QED
    BY <2>2, <2>3, <1>1
<1>8. Runs(a, first)
  BY <1>5, <1>6, <1>7 DEF Runs
<1> QED
  BY <1>1, <1>8 DEF a

\* TakeDeltaSnapshot, on events that follow PrevSnapshot.
LEMMA SideTake ==
    ASSUME SharedStore, rev' = rev, faults \in Nat, prev \in store, Fulls(store) # {},
           NEW evs \in Seq(Nat), NEW ok \in BOOLEAN, Runs(evs, prev.last + 1),
           \A i \in 1 .. Len(evs) : evs[i] <= rev,
           TakeDeltaSnapshot(evs, ok), pc # "off", pc' \notin {"off", "fullSave"}
    PROVE  /\ SharedStore' /\ Effect /\ events' = <<>>
           /\ prev' \in store' /\ prev' \in Snapshot /\ Fulls(store') # {}
           /\ IF ok /\ evs # <<>> THEN prev'.last = evs[Len(evs)] ELSE prev' = prev
PROOF
<1> DEFINE snap == DeltaSnapshot(prev.last + 1, evs[Len(evs)], evs, clock + 1)
<1>0. prev \in Snapshot /\ prev.last \in Nat /\ clock \in Nat /\ prev.created \in 1 .. clock /\ rev \in Nat
  BY SnapshotFields DEF SharedStore, Fits
<1>1. CASE evs = <<>>
  <2>1. events' = <<>> /\ store' = store /\ clock' = clock /\ prev' = prev /\ faults' = faults
    BY <1>1 DEF TakeDeltaSnapshot, Works, disk
  <2>2. SharedStore'
    BY SMTT(20), <2>1, <1>0, SharedKept DEF disk
  <2>3. Effect
    BY <2>1 DEF Effect, Nothing
  <2> QED
    BY <1>0, <1>1, <2>1, <2>2, <2>3
<1>2. CASE evs # <<>>
  <2>1. Len(evs) \in Nat /\ Len(evs) \in 1 .. Len(evs) /\ evs[Len(evs)] \in Nat
    BY <1>2
  <2>2. prev.last + 1 <= evs[Len(evs)] /\ evs[Len(evs)] <= rev
    BY <2>1 DEF Runs
  <2>3. snap \in Snapshot
    BY SMTT(20), <1>0, <2>1, SnapshotTypes
  <2>4. /\ snap.kind = "Delta" /\ snap.start = prev.last + 1 /\ snap.last = evs[Len(evs)]
        /\ snap.events = evs /\ snap.created = clock + 1
    BY DEF DeltaSnapshot
  <2>5. events' = <<>> /\ \/ ok /\ Saved(snap) /\ prev' = snap
                          \/ ~ok /\ SaveFails(snap) /\ prev' = prev
    BY <1>2 DEF TakeDeltaSnapshot
  <2> HIDE DEF snap
  <2>6. Fits(snap)
    <3>0. prev.created < clock + 1
      BY <1>0
    <3>1. prev.last + 1 = snap.start /\ prev.created < snap.created
      BY <2>4, <3>0
    <3>2. Runs(snap.events, snap.start) /\ snap.events[Len(snap.events)] = snap.last
      BY <2>4
    <3> QED
      BY <2>2, <2>3, <2>4, <3>1, <3>2 DEF Fits
  <2>7. SharedStore' /\ store \subseteq store'
    BY <2>4, <2>5, <2>6, SaveKeeps
  <2>8. Fulls(store') # {}
    BY <2>7 DEF Fulls
  <2>9. CASE ok /\ Saved(snap) /\ prev' = snap
    <3>1. store' = store \cup {snap} /\ clock' = clock + 1 /\ faults' = faults
      BY <2>9 DEF Saved, Works
    <3>2. Effect
      BY <3>1, <2>4, <2>9 DEF Effect, Adds
    <3>3. prev' \in store' /\ prev' \in Snapshot /\ prev'.last = evs[Len(evs)]
      BY <3>1, <2>3, <2>4, <2>9
    <3> QED
      BY <3>2, <3>3, <1>2, <2>5, <2>7, <2>8, <2>9
  <2>10. CASE ~ok /\ SaveFails(snap) /\ prev' = prev
    <3>1. faults' = faults + 1 /\ faults' # faults
      BY <2>10 DEF SaveFails, Fails
    <3>2. (store' = store /\ clock' = clock) \/ Breaks
      BY <2>10, <3>1 DEF SaveFails, disk, Breaks
    <3>3. Effect
      BY <3>1, <3>2, <2>10 DEF Effect, Nothing
    <3> QED
      BY <3>3, <1>0, <2>5, <2>7, <2>8, <2>10
  <2> QED
    BY <2>5, <2>9, <2>10
<1> QED
  BY <1>1, <1>2

\* Delta snapshots of the events in memory.
LEMMA SideDelta ==
    ASSUME SharedStore, Side, faults \in Nat,
           FirstDelta \/ DeltaTimer \/ \E c \in Clients : DeltaRequest(c)
    PROVE  SharedStore' /\ Side' /\ Effect
PROOF
<1> USE DEF Side
<1>1. PICK ok \in BOOLEAN :
        /\ TakeDeltaSnapshot(events, ok)
        /\ pc \in {"collected", "handler"}
        /\ pc' \in IF ok THEN {"start", "handler"} ELSE {"probe", "stopping"}
        /\ UNCHANGED <<rev, lastRev, prevFull, watch>>
  BY DEF FirstDelta, DeltaTimer, DeltaRequest, HandlerContinues, etcd
<1>2. /\ prev \in store /\ Fulls(store) # {} /\ events \in Seq(Nat)
      /\ Runs(events, prev.last + 1) /\ \A i \in 1 .. Len(events) : events[i] <= rev
  BY <1>1 DEF SidePoints, SideTypes, SideEvents
<1>3. /\ SharedStore' /\ Effect /\ events' = <<>>
      /\ prev' \in store' /\ prev' \in Snapshot /\ Fulls(store') # {}
      /\ IF ok /\ events # <<>> THEN prev'.last = events[Len(events)] ELSE prev' = prev
  BY <1>1, <1>2, SideTake
<1>4. SideTypes'
  BY <1>1, <1>3 DEF SideTypes, PCs
<1>5. SidePoints'
  BY <1>1, <1>3 DEF SidePoints
<1>6. pc' \in {"start", "handler"} /\ watch # 0 => watch <= rev + 1 /\ watch = prev'.last + 1
  BY <1>1, <1>3 DEF SideEvents
<1>7. SideEvents'
  BY <1>1, <1>3, <1>6, NoEvents
<1> QED
  BY <1>3, <1>4, <1>5, <1>7

\* An event is received, and kept or saved at once.
LEMMA SideEvent ==
    ASSUME SharedStore, Side, faults \in Nat, CollectEvent \/ HandleWatchEvents
    PROVE  SharedStore' /\ Side' /\ Effect
PROOF
<1> USE DEF Side
<1> DEFINE evs == Append(events, watch)
<1>0. /\ pc \in {"collecting", "handler"} /\ watch' = watch + 1 /\ watch # 0 /\ watch <= rev
      /\ UNCHANGED <<rev, lastRev, prevFull>>
  BY DEF CollectEvent, HandleWatchEvents, Response, etcd
<1>1. /\ prev \in store /\ Fulls(store) # {} /\ events \in Seq(Nat) /\ watch \in Nat /\ rev \in Nat
      /\ prev.last \in Nat
  BY <1>0, PrevBound DEF SidePoints, SideTypes, SharedStore
<1>2. Runs(evs, prev.last + 1) /\ evs \in Seq(Nat) /\ evs # <<>> /\ evs[Len(evs)] = watch
  <2>1. Runs(events, prev.last + 1)
    BY <1>0 DEF SideEvents
  <2>2. watch = prev.last + 1 \/ (events # <<>> /\ watch = events[Len(events)] + 1)
    BY <1>0 DEF SideEvents
  <2>3. prev.last + 1 \in Nat
    BY <1>1
  <2> HIDE DEF evs
  <2> QED
    BY <1>1, <2>1, <2>2, <2>3, RunsAppend DEF evs
<1>3. \A i \in 1 .. Len(evs) : evs[i] <= rev
  <2>1. \A i \in 1 .. Len(events) : events[i] <= rev
    BY <1>0 DEF SideEvents
  <2> QED
    BY <1>0, <1>1, <2>1, Appended
<1> HIDE DEF evs
<1>4. CASE /\ events' = evs /\ Works /\ UNCHANGED <<disk, prev>>
           /\ pc' \in {"collecting", "collected", "handler"}
  <2>1. UNCHANGED <<store, clock, prev, faults>>
    BY <1>4 DEF disk, Works
  <2>2. SharedStore'
    BY <1>0, <1>1, <2>1, SharedKept DEF disk
  <2>3. SideTypes'
    BY SMTT(20), <1>0, <1>1, <1>2, <1>4, <2>1 DEF SideTypes, PCs
  <2>4. SidePoints'
    BY <1>1, <1>4, <2>1 DEF SidePoints
  <2>5. watch' <= rev + 1 /\ watch' # 0 /\ watch' = events'[Len(events')] + 1
    BY <1>0, <1>1, <1>2, <1>4
  <2>6. SideEvents'
    BY <1>0, <1>2, <1>3, <1>4, <2>1, <2>5 DEF SideEvents
  <2>7. Effect
    BY <1>0, <1>4, <2>1 DEF Effect, Nothing
  <2> QED
    BY <2>2, <2>3, <2>4, <2>6, <2>7
<1>5. ASSUME NEW ok \in BOOLEAN, TakeDeltaSnapshot(evs, ok),
             pc' \in IF ok THEN {"collecting", "collected", "handler"} ELSE {"full", "hung", "stopping"}
      PROVE  SharedStore' /\ Side' /\ Effect
  <2>1. pc' \notin {"off", "fullSave"}
    BY <1>5
  <2>2. /\ SharedStore' /\ Effect /\ events' = <<>>
        /\ prev' \in store' /\ prev' \in Snapshot /\ Fulls(store') # {}
        /\ IF ok THEN prev'.last = watch ELSE prev' = prev
    BY <1>0, <1>1, <1>2, <1>3, <1>5, <2>1, SideTake
  <2>3. SideTypes'
    BY SMTT(20), <1>0, <1>1, <1>5, <2>2 DEF SideTypes, PCs
  <2>4. SidePoints'
    BY <1>5, <2>2 DEF SidePoints
  <2>5. pc' \in {"collecting", "collected", "handler"} =>
          watch' # 0 /\ watch' <= rev + 1 /\ watch' = prev'.last + 1
    BY SMTT(20), <1>0, <1>1, <1>5, <2>2
  <2>6. SideEvents'
    BY <1>0, <1>5, <2>2, <2>5, NoEvents
  <2> QED
    BY <2>2, <2>3, <2>4, <2>6
<1>6. CASE CollectEvent
  <2>1. \/ events' = evs /\ Works /\ UNCHANGED <<disk, prev>> /\ pc' \in {"collecting", "collected", "handler"}
        \/ TakeDeltaSnapshot(evs, TRUE) /\ pc' \in {"collecting", "collected", "handler"}
        \/ TakeDeltaSnapshot(evs, FALSE) /\ pc' \in {"full", "hung", "stopping"}
    BY <1>6 DEF CollectEvent, CollectSucceeds, CollectFails, RunReturnsEarly, evs
  <2> QED
    BY <2>1, <1>4, <1>5
<1>7. CASE HandleWatchEvents
  <2>1. \/ events' = evs /\ Works /\ UNCHANGED <<disk, prev>> /\ pc' = "handler"
        \/ \E ok \in BOOLEAN :
             TakeDeltaSnapshot(evs, ok) /\ pc' = IF ok THEN "handler" ELSE "stopping"
    BY <1>7 DEF HandleWatchEvents, HandlerContinues, evs
  <2> QED
    BY <2>1, <1>4, <1>5
<1> QED
  BY <1>6, <1>7

\* Every step of a snapshotter beside others keeps the store and itself, and has one of
\* three effects on the store.
LEMMA SideStep ==
    ASSUME SharedStore, Side, faults \in Nat,
           Fulls(store) # {} => LatestFull(store) \in Fulls(store) /\ LatestSnapshot(store) \in store,
           OnStartedLeading \/ OnStoppedLeading \/ Crash \/ Loop
    PROVE  SharedStore' /\ Side' /\ Effect
PROOF
<1>1. CASE OnStartedLeading
  BY <1>1, SideStarted
<1>2. CASE Crash
  BY <1>2, SideForget DEF Crash, Fails
<1>3. CASE ProbeExit
  BY <1>3, SideForget DEF ProbeExit
<1> QED
  BY <1>1, <1>2, <1>3, SideControl, SideCollect, SideCollectStopped, SideFullGet, SideFullSave,
     SideFullWatch, SideDelta, SideEvent DEF Loop
=============================================================================
