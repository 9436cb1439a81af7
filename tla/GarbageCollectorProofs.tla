------------------------ MODULE GarbageCollectorProofs ------------------------
(***************************************************************************)
(* The garbage collector deletes nothing that a restoration needs and no   *)
(* chunk of a delta snapshot that is being uploaded, and the limit-based   *)
(* policy keeps as many full snapshots as its limit says; the exponential  *)
(* policy keeps the last full snapshot of each of the past seven days and  *)
(* of each hour of the day.  All for every number of uploads, faults and   *)
(* rounds and every course of the clock.                                   *)
(***************************************************************************)
EXTENDS MCGarbageCollector, FiniteSetTheorems, WellFoundedInduction, TLAPS

\* No two snapshots are of the same time, so Less orders them, and there is a last one.
Ordered(S) ==
    /\ S \subseteq Objects
    /\ \A s \in S : s.part = 0 /\ s.last <= rev /\ s.created < saves
    /\ \A s, t \in S : s.created = t.created => s = t

GTypes ==
    /\ rev \in Nat /\ prevLast \in Nat /\ saves \in Nat /\ now \in Nat
    /\ up \in Objects \cup {None} /\ put \subseteq 1 .. NoOfChunks
    /\ gc \in {"idle", "chunks", "streams", "deltas", "head"}
    /\ store \subseteq Objects /\ IsFiniteSet(store) /\ Ordered(Snapshots(store))

\* What is being uploaded is newer than every snapshot, and a delta snapshot continues
\* PrevSnapshot.
UploadFits ==
    up # None =>
        /\ up.part = 0 /\ up.last <= rev /\ up.created < saves
        /\ \A s \in Snapshots(store) : s.created < up.created
        /\ up.kind = "Delta" => up.start = prevLast + 1

\* Until the first stream is looked at, all listed snapshots are there.
ListFits ==
    /\ Ordered(listed) /\ IsFiniteSet(listed)
    /\ chunks \subseteq Objects /\ \A c \in chunks : c.part # 0
    /\ gc \in {"idle", "chunks"} => todo = {}
    /\ gc = "chunks" => listed \subseteq store
    /\ gc = "deltas" <=> left # {}

\* The head of the latest stream in the list.
Newest == Greatest(Heads(listed))

InStream == gc \in {"deltas", "head"}

\* The full snapshot of the latest stream is there as long as anything may be deleted, and
\* only what is older is.
NewestKept ==
    /\ todo # {} \/ InStream => Newest \in store /\ Newest.kind = "Full"
    /\ todo \subseteq Heads(listed) /\ \A h \in todo : Less(h, Newest)
    /\ InStream => cur \in Heads(listed) /\ Less(cur, Newest)
    /\ \A s \in left : s \in listed /\ s.kind = "Delta" /\ Less(s, Newest)

\* The limit-based policy goes up the list: what it has not come to is there.
RestKept ==
    /\ todo \subseteq store
    /\ \A t \in todo : \A h \in Heads(listed) \ (todo \cup {Newest}) : Less(h, t)
    /\ InStream => /\ \A h \in Heads(listed) : Less(cur, h) => h \in todo \cup {Newest}
                   /\ \A t \in todo : Less(cur, t)
    /\ \A s \in left, t \in todo : Less(s, t)

GInv ==
    /\ GTypes /\ UploadFits /\ ListFits /\ NewestKept
    /\ Policy = "LimitBased" => RestKept

-----------------------------------------------------------------------------
(* First and last elements *)

\* A set of numbers has a least element: of the intervals that end in one of them, one
\* has no other for a subset.
LEMMA NatMin ==
    ASSUME NEW T, T \subseteq Nat, T # {}
    PROVE  \E x \in T : \A y \in T : x <= y
<1> DEFINE I == {0 .. x : x \in T}
<1>1. I \subseteq FiniteSubsetsOf(Nat)
  <2>1. ASSUME NEW x \in T PROVE 0 .. x \in FiniteSubsetsOf(Nat)
    <3>1. IsFiniteSet(0 .. x)
      BY FS_Interval
    <3>2. 0 .. x \subseteq Nat
      OBVIOUS
    <3> QED
      BY <3>1, <3>2 DEF FiniteSubsetsOf
  <2> QED
    BY <2>1
<1>2. PICK i \in I : \A j \in I : ~(<<j, i>> \in StrictSubsetOrdering(Nat))
  <2>1. I # {}
    OBVIOUS
  <2> HIDE DEF I
  <2> QED
    BY <1>1, <2>1, WFMin, FS_StrictSubsetOrderingWellFounded
<1>3. PICK x \in T : i = 0 .. x
  OBVIOUS
<1>4. ASSUME NEW y \in T, y < x PROVE FALSE
  <2>1. 0 .. y \subseteq 0 .. x /\ 0 .. y # 0 .. x
    <3>1. x \in Nat /\ y \in Nat /\ x \in 0 .. x /\ x \notin 0 .. y
      BY <1>4
    <3> QED
      BY <1>4, <3>1
  <2>2. 0 .. x \in SUBSET Nat /\ 0 .. y \in SUBSET Nat
    OBVIOUS
  <2>3. <<0 .. y, 0 .. x>> \in StrictSubsetOrdering(Nat)
    BY <2>1, <2>2 DEF StrictSubsetOrdering
  <2> QED
    BY <1>2, <1>3, <2>3
<1> QED
  BY <1>4

\* A bounded set of numbers has a greatest element.
LEMMA NatMax ==
    ASSUME NEW T, T \subseteq Nat, T # {}, NEW n \in Nat, \A x \in T : x <= n
    PROVE  \E x \in T : \A y \in T : y <= x
<1> DEFINE U == {n - x : x \in T}
<1>1. U \subseteq Nat /\ U # {}
  <2>1. \A x \in T : n - x \in Nat
    OBVIOUS
  <2> QED
    BY <2>1
<1>2. PICK u \in U : \A y \in U : u <= y
  <2> HIDE DEF U
  <2> QED
    BY <1>1, NatMin
<1>3. PICK x \in T : u = n - x
  OBVIOUS
<1>4. ASSUME NEW y \in T PROVE y <= x
  <2>1. u <= n - y
    BY <1>2
  <2> QED
    BY <1>3, <2>1
<1> QED
  BY <1>4

\* What the sorted listing starts with.
LEMMA LeastExists ==
    ASSUME NEW S, Ordered(S), NEW T, T \subseteq S, T # {}
    PROVE  Least(T) \in T /\ \A t \in T \ {Least(T)} : Less(Least(T), t)
<1> USE DEF Ordered, Objects
<1>1. PICK a \in T : \A t \in T : a.last <= t.last
  <2> DEFINE L == {t.last : t \in T}
  <2>1. PICK x \in L : \A y \in L : x <= y
    <3>1. L \subseteq Nat /\ L # {}
      OBVIOUS
    <3> QED
      BY <3>1, NatMin
  <2> QED
    BY <2>1
<1>2. PICK b \in T : b.last = a.last /\ \A t \in T : t.last = a.last => b.created <= t.created
  <2> DEFINE C == {t.created : t \in {u \in T : u.last = a.last}}
  <2>1. PICK x \in C : \A y \in C : x <= y
    <3>1. C \subseteq Nat /\ C # {}
      OBVIOUS
    <3> QED
      BY <3>1, NatMin
  <2> QED
    BY <2>1
<1>3. \A t \in T \ {b} : Less(b, t)
  BY <1>1, <1>2 DEF Less
<1> QED
  BY <1>3 DEF Least

\* What the sorted listing ends with.
LEMMA GreatestExists ==
    ASSUME NEW S, Ordered(S), NEW T, T \subseteq S, T # {}, rev \in Nat, saves \in Nat
    PROVE  Greatest(T) \in T /\ \A t \in T \ {Greatest(T)} : Less(t, Greatest(T))
<1> USE DEF Ordered, Objects
<1>1. PICK a \in T : \A t \in T : t.last <= a.last
  <2> DEFINE L == {t.last : t \in T}
  <2>1. L \subseteq Nat /\ L # {} /\ \A x \in L : x <= rev
    OBVIOUS
  <2>2. PICK x \in L : \A y \in L : y <= x
    BY <2>1, NatMax
  <2> QED
    BY <2>2
<1>2. PICK b \in T : b.last = a.last /\ \A t \in T : t.last = a.last => t.created <= b.created
  <2> DEFINE C == {t.created : t \in {u \in T : u.last = a.last}}
  <2>1. C \subseteq Nat /\ C # {} /\ \A x \in C : x <= saves
    OBVIOUS
  <2>2. PICK x \in C : \A y \in C : y <= x
    BY <2>1, NatMax
  <2> QED
    BY <2>2
<1>3. \A t \in T \ {b} : Less(t, b)
  BY <1>1, <1>2 DEF Less
<1> QED
  BY <1>3 DEF Greatest

\* Of several heads the greatest is a full snapshot, and any head but a full snapshot is
\* what the list starts with.
LEMMA HeadsOrdered ==
    ASSUME GTypes, Ordered(listed), listed # {}
    PROVE  /\ Heads(listed) \subseteq listed /\ Newest \in Heads(listed)
           /\ \A h \in Heads(listed) \ {Newest} : Less(h, Newest)
           /\ Heads(listed) # {Newest} => Newest.kind = "Full"
           /\ \A h \in Heads(listed) : h.kind # "Full" => \A s \in listed \ {h} : Less(h, s)
<1>1. Least(listed) \in listed /\ \A t \in listed \ {Least(listed)} : Less(Least(listed), t)
  BY LeastExists
<1>2. Heads(listed) \subseteq listed /\ Heads(listed) # {}
  BY <1>1 DEF Heads
<1>3. Newest \in Heads(listed) /\ \A h \in Heads(listed) \ {Newest} : Less(h, Newest)
  BY <1>2, GreatestExists DEF Newest, GTypes
<1>4. \A h \in Heads(listed) : h.kind # "Full" => h = Least(listed)
  BY DEF Heads
<1>5. ASSUME Heads(listed) # {Newest} PROVE Newest.kind = "Full"
  <2>1. PICK h \in Heads(listed) : h # Newest
    BY <1>3, <1>5
  <2>2. Less(h, Newest)
    BY <1>3, <2>1
  <2>3. ~Less(Newest, h)
    BY <1>2, <1>3, <2>1, <2>2 DEF Less, Ordered, Objects
  <2> QED
    BY <1>1, <1>2, <1>3, <1>4, <2>1, <2>3
<1> QED
  BY <1>1, <1>2, <1>3, <1>4, <1>5

-----------------------------------------------------------------------------
(* What the collector deletes *)

\* The snapshots that may still be deleted are in the list.
LEMMA OldAreListed ==
    ASSUME GInv, todo # {} \/ InStream
    PROVE  /\ listed # {} /\ Newest \in listed /\ Newest \in Snapshots(store)
           /\ todo \subseteq listed /\ (InStream => cur \in listed)
<1>1. listed # {}
  BY DEF GInv, NewestKept, Heads
<1> QED
  BY <1>1, HeadsOrdered DEF GInv, ListFits, NewestKept, GTypes, Ordered, Snapshots

\* It deletes chunks of composed snapshots, and snapshots that are older than a full
\* snapshot of the store.
LEMMA WhatIsDeleted ==
    ASSUME GInv, Collect
    PROVE  \/ store' = store
           \/ \E o \in Objects :
                /\ store' = store \ {o}
                /\ \/ o.part # 0 /\ ~ChunkInUse(o)
                   \/ /\ o.part = 0 /\ Less(o, Newest)
                      /\ Newest \in Snapshots(store) /\ Newest.kind = "Full"
                      /\ \/ o.kind = "Delta"
                         \/ gc = "head" /\ o = cur /\ (Policy = "LimitBased" => BeyondLimit)
<1>1. CASE CollectChunk
  BY <1>1 DEF CollectChunk, NotDeleted, Deleted, DeleteFails, GInv, ListFits
<1>2. CASE CollectDelta
  <2>1. InStream /\ left # {} /\ left \subseteq listed
    BY <1>2 DEF CollectDelta, InStream, GInv, ListFits, NewestKept
  <2>2. Greatest(left) \in left
    BY <2>1, GreatestExists DEF GInv, GTypes, ListFits
  <2>3. store' = store \/ store' = store \ {Greatest(left)}
    BY <1>2 DEF CollectDelta, NotDeleted, Deleted, DeleteFails
  <2> QED
    BY <2>1, <2>2, <2>3, OldAreListed DEF GInv, ListFits, NewestKept, Ordered
<1>3. CASE CollectHead
  <2>1. InStream /\ gc = "head"
    BY <1>3 DEF CollectHead, InStream
  <2>2. store' = store \/ (store' = store \ {cur} /\ (Policy = "LimitBased" => BeyondLimit))
    BY <1>3 DEF CollectHead, NotDeleted, Deleted, DeleteFails
  <2> QED
    BY <2>1, <2>2, OldAreListed DEF GInv, ListFits, NewestKept, Ordered
<1> QED
  BY <1>1, <1>2, <1>3 DEF Collect, List, StartStreams, NextStream, RoundEnds

\* What is older than some full snapshot of the store is of no use to a restoration.
LEMMA OldIsUnused ==
    ASSUME GTypes, NEW f \in Snapshots(store), f.kind = "Full",
           NEW o \in Objects, Less(o, f)
    PROVE  o \notin RestoreSet(Snapshots(store))
<1> DEFINE S == Snapshots(store)
           l == LatestFull(S)
<1>1. Ordered(S) /\ Fulls(S) \subseteq S /\ f \in Fulls(S)
  BY DEF GTypes, Fulls
<1>2. l = Greatest(Fulls(S))
  BY <1>1 DEF LatestFull, Greatest
<1>3. l \in Fulls(S) /\ (f = l \/ Less(f, l))
  BY <1>1, <1>2, GreatestExists DEF GTypes
<1>4. Less(o, l) /\ ~Less(l, o) /\ o # l
  BY <1>1, <1>3 DEF Less, Ordered, Objects, Fulls
<1> QED
  BY <1>1, <1>4 DEF RestoreSet, LatestDeltas

-----------------------------------------------------------------------------
(* The invariant *)

\* At first there is nothing in the store and no round.
LEMMA InitGInv == Init => GInv
<1> SUFFICES ASSUME Init PROVE GInv
  OBVIOUS
<1>1. Ordered({}) /\ IsFiniteSet({}) /\ Snapshots({}) = {}
  BY FS_EmptySet DEF Ordered, Snapshots
<1> QED
  BY <1>1 DEF Init, GInv, GTypes, UploadFits, ListFits, NewestKept, RestKept, InStream

\* While the snapshotter works, the list is as good as it was.
LEMMA RoundUnchanged ==
    ASSUME GInv, UNCHANGED round, store \subseteq store',
           rev' \in Nat, saves' \in Nat, rev <= rev', saves <= saves'
    PROVE  ListFits' /\ NewestKept' /\ (Policy = "LimitBased" => RestKept')
<1>1. Ordered(listed)'
  BY DEF Ordered, round, GInv, GTypes, ListFits, Objects
<1> QED
  BY <1>1 DEF round, GInv, ListFits, NewestKept, RestKept, InStream, Newest

\* The clock and the steps of an upload.
LEMMA UploadKeepsGInv ==
    ASSUME GInv, Tick \/ BeginSave \/ PutChunk \/ Compose \/ SaveFails
    PROVE  GInv'
<1>1. CASE Tick
  <2>1. GTypes'
    BY <1>1, GCAssumption DEF Tick, upload, GInv, GTypes, Ordered, Snapshots, round
  <2> QED
    BY <1>1, <2>1, RoundUnchanged DEF Tick, upload, GInv, GTypes, UploadFits, Snapshots
<1>2. CASE BeginSave
  <2>1. saves' = saves + 1 /\ rev' \in {rev, rev + 1} /\ up' \in Objects
    BY <1>2 DEF BeginSave, Object, Objects, GInv, GTypes
  <2>2. GTypes'
    BY <1>2, <2>1 DEF BeginSave, time, GInv, GTypes, Ordered, Snapshots, Objects, round
  <2>3. UploadFits'
    BY <1>2, <2>1 DEF BeginSave, Object, GInv, GTypes, UploadFits, Ordered, Snapshots, Objects
  <2> QED
    BY <1>2, <2>1, <2>2, <2>3, RoundUnchanged DEF BeginSave, GInv, GTypes
<1>3. CASE PutChunk
  <2>1. PICK i \in 1 .. NoOfChunks :
           put' = put \cup {i} /\ store' = store \cup {[up EXCEPT !.part = i]}
    BY <1>3 DEF PutChunk
  <2>2. [up EXCEPT !.part = i] \in Objects /\ [up EXCEPT !.part = i].part # 0
    BY <1>3, GCAssumption DEF PutChunk, GInv, GTypes, Objects
  <2>3. Snapshots(store') = Snapshots(store)
    BY <2>1, <2>2 DEF Snapshots
  <2>4. IsFiniteSet(store')
    BY <2>1, FS_AddElement DEF GInv, GTypes
  <2>5. GTypes'
    BY <1>3, <2>1, <2>2, <2>3, <2>4 DEF PutChunk, time, GInv, GTypes, Ordered, round
  <2>6. UploadFits'
    BY <1>3, <2>3 DEF PutChunk, GInv, UploadFits
  <2> QED
    BY <1>3, <2>1, <2>5, <2>6, RoundUnchanged DEF PutChunk, GInv, GTypes
<1>4. CASE Compose
  <2>1. up \in Objects /\ up.part = 0 /\ store' = store \cup {up}
    BY <1>4 DEF Compose, GInv, GTypes, UploadFits
  <2>2. Snapshots(store') = Snapshots(store) \cup {up}
    BY <2>1 DEF Snapshots
  <2>3. Ordered(Snapshots(store))'
    <3>1. Ordered(Snapshots(store)) /\ up.last <= rev /\ up.created < saves
          /\ \A s \in Snapshots(store) : s.created < up.created
      BY <1>4 DEF Compose, GInv, GTypes, UploadFits
    <3>2. UNCHANGED <<rev, saves>>
      BY <1>4 DEF Compose
    <3> QED
      BY <2>1, <2>2, <3>1, <3>2 DEF Ordered, Objects
  <2>4. IsFiniteSet(store')
    BY <2>1, FS_AddElement DEF GInv, GTypes
  <2>5. GTypes'
    BY <1>4, <2>1, <2>3, <2>4 DEF Compose, time, GInv, GTypes, Objects, round
  <2> QED
    BY <1>4, <2>1, <2>5, RoundUnchanged DEF Compose, GInv, GTypes, UploadFits
<1>5. CASE SaveFails
  <2>1. GTypes'
    BY <1>5 DEF SaveFails, time, GInv, GTypes, Ordered, round
  <2> QED
    BY <1>5, <2>1, RoundUnchanged DEF SaveFails, GInv, GTypes, UploadFits
<1> QED
  BY <1>1, <1>2, <1>3, <1>4, <1>5

\* The revision that a new Snapshotter reads from the store.
LEMMA CoveredIsNat ==
    ASSUME GTypes
    PROVE  CoveredRevision(Snapshots(store)) \in Nat
<1> DEFINE S == Snapshots(store)
<1>1. Ordered(S) /\ Fulls(S) \subseteq S /\ LatestDeltas(S) \subseteq S
  BY DEF GTypes, Fulls, LatestDeltas
<1>2. CASE Fulls(S) = {}
  BY <1>2 DEF CoveredRevision, LatestSnapshot, DummySnapshot, FullSnapshot
<1>3. CASE Fulls(S) # {} /\ LatestDeltas(S) = {}
  <2>1. LatestFull(S) = Greatest(Fulls(S))
    BY <1>3 DEF LatestFull, Greatest
  <2>2. LatestFull(S) \in S
    BY <1>1, <1>3, <2>1, GreatestExists DEF GTypes
  <2> QED
    BY <1>1, <1>3, <2>2 DEF CoveredRevision, LatestSnapshot, Ordered, Objects
<1>4. CASE Fulls(S) # {} /\ LatestDeltas(S) # {}
  <2>1. LastDelta(S) = Greatest(LatestDeltas(S))
    BY DEF LastDelta, Greatest
  <2>2. LastDelta(S) \in S
    BY <1>1, <1>4, <2>1, GreatestExists DEF GTypes
  <2> QED
    BY <1>1, <1>4, <2>2 DEF CoveredRevision, LatestSnapshot, Ordered, Objects
<1> QED
  BY <1>2, <1>3, <1>4

\* A crash forgets the upload and the round.
LEMMA CrashKeepsGInv ==
    ASSUME GInv, Crash
    PROVE  GInv'
<1>1. prevLast' \in Nat
  BY CoveredIsNat DEF Crash, GInv
<1>2. GTypes'
  BY <1>1 DEF Crash, time, GInv, GTypes, Ordered
<1>3. ListFits'
  BY FS_EmptySet DEF Crash, ListFits, Ordered
<1> QED
  BY <1>2, <1>3 DEF Crash, GInv, UploadFits, NewestKept, RestKept, InStream

\* A step of the collector leaves the upload alone.
LEMMA UploadUnchanged ==
    ASSUME GInv, Collect
    PROVE  GTypes' /\ UploadFits'
<1>1. store' \subseteq store /\ IsFiniteSet(store')
  BY WhatIsDeleted, FS_Subset DEF GInv, GTypes
<1>2. UNCHANGED <<rev, prevLast, saves, now, up, put>>
      /\ gc' \in {"idle", "chunks", "streams", "deltas", "head"}
  BY DEF Collect, List, CollectChunk, StartStreams, NextStream, CollectDelta, CollectHead,
         RoundEnds, upload, time, GInv, GTypes
<1>3. Snapshots(store') \subseteq Snapshots(store)
  BY <1>1 DEF Snapshots
<1>4. Ordered(Snapshots(store))'
  BY <1>2, <1>3 DEF Ordered, GInv, GTypes
<1> QED
  BY <1>1, <1>2, <1>3, <1>4 DEF GInv, GTypes, UploadFits

\* The three parts of the invariant that speak of the round.
RoundFits == ListFits /\ NewestKept /\ (Policy = "LimitBased" => RestKept)

\* A new list is what is in the store.
LEMMA ListKeepsRound ==
    ASSUME GInv, List
    PROVE  RoundFits'
<1>1. todo = {} /\ left = {} /\ UNCHANGED <<todo, left, store, rev, saves>> /\ gc' = "chunks"
  BY DEF List, upload, GInv, ListFits
<1>2. Ordered(listed)' /\ IsFiniteSet(listed') /\ listed' \subseteq store
  BY <1>1, FS_Subset DEF List, GInv, GTypes, Snapshots, Ordered
<1>3. chunks' \subseteq Objects /\ \A c \in chunks' : c.part # 0
  BY DEF List, Chunks, Snapshots, GInv, GTypes
<1> QED
  BY <1>1, <1>2, <1>3 DEF RoundFits, ListFits, NewestKept, RestKept, InStream

\* Chunks are not snapshots.
LEMMA CollectChunkKeepsRound ==
    ASSUME GInv, CollectChunk
    PROVE  RoundFits'
<1>1. UNCHANGED <<rev, saves, gc, listed, todo, cur, left>> /\ chunks' \subseteq chunks
      /\ gc = "chunks"
  BY DEF CollectChunk, upload
<1>2. PICK c \in chunks : store' = store \/ store' = store \ {c}
  BY DEF CollectChunk, NotDeleted, Deleted, DeleteFails
<1>3. Ordered(listed)'
  BY <1>1 DEF GInv, ListFits, Ordered
<1>4. listed \subseteq store'
  BY <1>1, <1>2 DEF GInv, ListFits, Ordered
<1> QED
  BY <1>1, <1>3, <1>4 DEF RoundFits, GInv, ListFits, NewestKept, RestKept, InStream

\* All heads but the newest are to be looked at, and all are there.
LEMMA StartStreamsKeepsRound ==
    ASSUME GInv, StartStreams
    PROVE  RoundFits'
<1>1. UNCHANGED <<store, rev, saves, listed, chunks, left>> /\ gc' = "streams" /\ left = {}
      /\ listed \subseteq store
  BY DEF StartStreams, upload, GInv, ListFits
<1>2. Ordered(listed)'
  BY <1>1 DEF GInv, ListFits, Ordered
<1>3. ListFits'
  BY <1>1, <1>2 DEF GInv, ListFits
<1>4. CASE listed = {}
  BY <1>1, <1>3, <1>4 DEF StartStreams, RoundFits, NewestKept, RestKept, InStream
<1>5. CASE listed # {}
  <2>1. todo' = Heads(listed) \ {Newest} /\ Newest' = Newest
    BY <1>1, <1>5 DEF StartStreams, Newest
  <2>2. /\ Heads(listed) \subseteq listed /\ Newest \in Heads(listed)
        /\ \A h \in Heads(listed) \ {Newest} : Less(h, Newest)
        /\ Heads(listed) # {Newest} => Newest.kind = "Full"
    BY <1>5, HeadsOrdered DEF GInv, ListFits
  <2>3. NewestKept'
    BY <1>1, <2>1, <2>2 DEF NewestKept, InStream
  <2>4. RestKept'
    BY <1>1, <2>1, <2>2 DEF RestKept, InStream
  <2> QED
    BY <1>3, <2>3, <2>4 DEF RoundFits
<1> QED
  BY <1>4, <1>5

\* A stream ends before the next head, so before the newest.
LEMMA NextStreamKeepsRound ==
    ASSUME GInv, NextStream
    PROVE  RoundFits'
<1>1. /\ UNCHANGED <<store, rev, saves, listed, chunks>> /\ gc' \in {"deltas", "head"}
      /\ gc' = "deltas" <=> left' # {}
      /\ todo # {} /\ todo' = todo \ {cur'}
      /\ left' \subseteq Stream(cur') /\ \A s \in left' : s.kind = "Delta"
  BY DEF NextStream, upload
<1>2. Ordered(listed)' /\ Newest' = Newest
  BY <1>1 DEF GInv, ListFits, Ordered, Newest
<1>3. ListFits'
  BY <1>1, <1>2 DEF GInv, ListFits
<1>4. listed # {} /\ Newest \in listed /\ todo \subseteq listed
  BY <1>1, OldAreListed
<1>5. cur' \in todo
  <2>1. Least(todo) \in todo /\ Greatest(todo) \in todo
    BY <1>1, <1>4, LeastExists, GreatestExists DEF GInv, GTypes, ListFits
  <2> QED
    BY <2>1 DEF NextStream
<1>6. /\ cur' \in Heads(listed) /\ Less(cur', Newest)
      /\ Newest \in store /\ Newest.kind = "Full"
  BY <1>1, <1>5 DEF GInv, NewestKept
<1>7. Newest \in Heads(listed)
  BY <1>4, <1>6 DEF Heads
<1>8. \A s \in left' : s \in listed /\ \A g \in Heads(listed) : Less(cur', g) => Less(s, g)
  BY <1>1 DEF Stream
<1>9. NewestKept'
  BY <1>1, <1>2, <1>6, <1>7, <1>8 DEF NewestKept, InStream, GInv
<1>10. ASSUME Policy = "LimitBased" PROVE RestKept'
  <2>1. cur' = Least(todo) /\ \A t \in todo \ {cur'} : Less(cur', t)
    BY <1>1, <1>4, <1>10, LeastExists DEF NextStream, GInv, ListFits
  <2>2. /\ todo \subseteq store
        /\ \A t \in todo : \A h \in Heads(listed) \ (todo \cup {Newest}) : Less(h, t)
    BY <1>10 DEF GInv, RestKept
  <2>3. \A h \in Heads(listed) : Less(cur', h) => h \in todo' \cup {Newest}
    <3>1. SUFFICES ASSUME NEW h \in Heads(listed), Less(cur', h), h \notin todo' \cup {Newest}
                   PROVE  FALSE
      OBVIOUS
    <3>2. h \in listed /\ cur' \in listed
      BY <1>4, <1>5, HeadsOrdered DEF GInv, ListFits
    <3>3. h = cur' \/ Less(h, cur')
      BY <1>1, <1>5, <2>2, <3>1
    <3> QED
      BY <3>1, <3>2, <3>3 DEF Less, GInv, ListFits, Ordered, Objects
  <2>4. \A s \in left', t \in todo' : Less(s, t)
    BY <1>1, <1>8, <2>1 DEF GInv, NewestKept
  <2>5. \A t \in todo' : \A h \in Heads(listed) \ (todo' \cup {Newest}) : Less(h, t)
    BY <1>1, <2>1, <2>2
  <2> QED
    BY <1>1, <1>2, <2>1, <2>2, <2>3, <2>4, <2>5 DEF RestKept, InStream
<1> QED
  BY <1>3, <1>9, <1>10 DEF RoundFits

\* With the round its list is forgotten.
LEMMA RoundEndsKeepsRound ==
    ASSUME GInv, RoundEnds
    PROVE  RoundFits'
<1>1. Ordered({}) /\ IsFiniteSet({})
  BY FS_EmptySet DEF Ordered
<1>2. todo' = {} /\ left' = {} /\ gc' = "idle" /\ listed' = {} /\ chunks' = chunks
  BY DEF RoundEnds, GInv, ListFits
<1>3. Ordered(listed)'
  BY <1>2 DEF Ordered
<1> QED
  BY <1>1, <1>2, <1>3 DEF RoundFits, GInv, ListFits, NewestKept, RestKept, InStream

\* What is deleted is older than what must be kept.
LEMMA DeletionKeepsRound ==
    ASSUME GInv, CollectDelta \/ CollectHead
    PROVE  RoundFits'
<1>1. /\ UNCHANGED <<rev, saves, listed, chunks, todo, cur>>
      /\ InStream /\ gc' \in {"streams", "deltas", "head"}
  BY DEF CollectDelta, CollectHead, upload, InStream
<1>2. left' \subseteq left /\ (gc' = "deltas" <=> left' # {})
  BY DEF CollectDelta, CollectHead, GInv, ListFits
<1>3. Ordered(listed)' /\ Newest' = Newest
  BY <1>1 DEF GInv, ListFits, Ordered, Newest
<1>4. ListFits'
  BY <1>1, <1>2, <1>3 DEF GInv, ListFits, InStream
<1>5. \/ store' = store
      \/ \E o \in left \cup {cur} : store' = store \ {o}
  <2>1. CASE CollectDelta
    <3>1. left # {} /\ left \subseteq listed
      BY <2>1 DEF CollectDelta, GInv, ListFits, NewestKept
    <3>2. Greatest(left) \in left
      BY <3>1, GreatestExists DEF GInv, GTypes, ListFits
    <3> QED
      BY <2>1, <3>2 DEF CollectDelta, NotDeleted, Deleted, DeleteFails
  <2>2. CASE CollectHead
    BY <2>2 DEF CollectHead, NotDeleted, Deleted, DeleteFails
  <2> QED
    BY <2>1, <2>2
<1>6. /\ Newest \in listed /\ todo \subseteq listed /\ cur \in listed /\ left \subseteq listed
      /\ Newest \in store /\ Newest.kind = "Full"
  BY <1>1, OldAreListed DEF GInv, NewestKept
<1>7. \A a \in listed, b \in listed : Less(a, b) => a # b
  BY DEF Less, GInv, ListFits, Ordered, Objects
<1>8. \A o \in left \cup {cur} : Less(o, Newest)
  BY <1>1 DEF GInv, NewestKept
<1>9. Newest \in store'
  BY <1>5, <1>6, <1>7, <1>8
<1>10. NewestKept'
  BY <1>1, <1>2, <1>3, <1>6, <1>9 DEF NewestKept, InStream, GInv
<1>11. ASSUME Policy = "LimitBased" PROVE RestKept'
  <2>1. \A o \in left \cup {cur}, t \in todo : Less(o, t)
    BY <1>1, <1>11 DEF GInv, RestKept
  <2>2. todo \subseteq store'
    BY <1>5, <1>6, <1>7, <1>11, <2>1 DEF GInv, RestKept
  <2> QED
    BY <1>1, <1>2, <1>3, <1>11, <2>2 DEF GInv, RestKept, InStream
<1> QED
  BY <1>4, <1>10, <1>11 DEF RoundFits

\* Every step keeps the invariant.
LEMMA NextGInv == GInv /\ [Next]_vars => GInv'
<1> SUFFICES ASSUME GInv, [Next]_vars PROVE GInv'
  OBVIOUS
<1>1. CASE Tick \/ BeginSave \/ PutChunk \/ Compose \/ SaveFails
  BY <1>1, UploadKeepsGInv
<1>2. CASE Crash
  BY <1>2, CrashKeepsGInv
<1>3. CASE Collect
  <2>1. RoundFits'
    BY <1>3, ListKeepsRound, CollectChunkKeepsRound, StartStreamsKeepsRound,
       NextStreamKeepsRound, RoundEndsKeepsRound, DeletionKeepsRound DEF Collect
  <2> QED
    BY <1>3, <2>1, UploadUnchanged DEF RoundFits, GInv
<1>4. CASE UNCHANGED vars
  <2>1. GTypes'
    BY <1>4 DEF vars, upload, time, round, GInv, GTypes, Ordered
  <2>2. UploadFits'
    BY <1>4 DEF vars, upload, GInv, UploadFits
  <2>3. ListFits' /\ NewestKept' /\ (Policy = "LimitBased" => RestKept')
    BY <1>4, RoundUnchanged DEF vars, upload, GInv, GTypes
  <2> QED
    BY <2>1, <2>2, <2>3 DEF GInv
<1> QED
  BY <1>1, <1>2, <1>3, <1>4 DEF Next

\* GInv holds in every state.
LEMMA GInvariance == Spec => []GInv
<1> QED
  BY InitGInv, NextGInv, PTL DEF Spec

-----------------------------------------------------------------------------
(* The theorems *)

\* No step deletes a snapshot that a restoration at that moment would use: the list that
\* the collector works from may be old, but what it deletes is older than a full snapshot
\* that is still in the store (RunGarbageCollector).
THEOREM RestorationIsSafe == Spec => LatestKept
<1>1. ASSUME GInv, [Next]_vars PROVE RestoreSet(Snapshots(store)) \subseteq store'
  <2>1. RestoreSet(Snapshots(store)) \subseteq Snapshots(store)
    <3>1. Fulls(Snapshots(store)) # {} => LatestFull(Snapshots(store)) \in Snapshots(store)
      <4> DEFINE F == Fulls(Snapshots(store))
      <4>1. F # {} => LatestFull(Snapshots(store)) = Greatest(F)
        BY DEF LatestFull, Greatest
      <4>2. F \subseteq Snapshots(store)
        BY DEF Fulls
      <4> QED
        BY <1>1, <4>1, <4>2, GreatestExists DEF GInv, GTypes
    <3> QED
      BY <3>1 DEF RestoreSet, LatestDeltas
  <2>2. CASE Collect
    <3>1. ASSUME NEW o \in Objects, o.part # 0 PROVE o \notin RestoreSet(Snapshots(store))
      BY <2>1, <3>1 DEF Snapshots
    <3> QED
      BY <1>1, <2>1, <2>2, <3>1, WhatIsDeleted, OldIsUnused DEF GInv, Snapshots
  <2>3. CASE ~Collect
    <3>1. store \subseteq store'
      BY <1>1, <2>3 DEF Next, Tick, BeginSave, PutChunk, Compose, SaveFails, Crash, vars
    <3> QED
      BY <2>1, <3>1 DEF Snapshots
  <2> QED
    BY <2>2, <2>3
<1> QED
  BY <1>1, GInvariance, PTL DEF Spec, LatestKept

\* The chunks of a delta snapshot stay in the store while it is being uploaded: it starts
\* past PrevSnapshot, and GarbageCollectChunks spares chunks that do.
THEOREM ChunksAreSafe == Spec => []DeltaChunksKept
<1>1. Init => DeltaChunksKept
  BY DEF Init, DeltaChunksKept
<1>2. ASSUME GInv, DeltaChunksKept, [Next]_vars PROVE DeltaChunksKept'
  <2>1. CASE Collect
    <3>1. UNCHANGED <<up, put>>
      BY <2>1 DEF Collect, List, CollectChunk, StartStreams, NextStream, CollectDelta,
                  CollectHead, RoundEnds, upload
    <3>2. SUFFICES ASSUME up # None, up.kind = "Delta", NEW i \in put
                   PROVE  [up EXCEPT !.part = i] \in store'
      BY <3>1 DEF DeltaChunksKept
    <3>3. [up EXCEPT !.part = i] \in store
      BY <1>2, <3>2 DEF DeltaChunksKept
    <3>4. /\ [up EXCEPT !.part = i].part # 0
          /\ [up EXCEPT !.part = i].start = prevLast + 1
      BY <1>2, <3>2 DEF GInv, GTypes, UploadFits, Objects
    <3>5. ASSUME NEW o \in Objects, o.part = 0 \/ ~ChunkInUse(o)
          PROVE  o # [up EXCEPT !.part = i]
      BY <1>2, <3>4, <3>5 DEF ChunkInUse, GInv, GTypes, Objects
    <3> QED
      BY <1>2, <2>1, <3>3, <3>5, WhatIsDeleted
  <2>2. CASE PutChunk
    BY <1>2, <2>2 DEF PutChunk, DeltaChunksKept
  <2>3. CASE Tick \/ BeginSave \/ Compose \/ SaveFails \/ Crash \/ UNCHANGED vars
    BY <1>2, <2>3 DEF Tick, BeginSave, Compose, SaveFails, Crash, vars, upload, DeltaChunksKept
  <2> QED
    BY <1>2, <2>1, <2>2, <2>3 DEF Next
<1> QED
  BY <1>1, <1>2, GInvariance, PTL DEF Spec

\* A head beyond the limit has MaxBackups full snapshots after it, all of them there.
LEMMA EnoughFollow ==
    ASSUME Policy = "LimitBased", GInv, gc = "head", BeyondLimit
    PROVE  Cardinality(Fulls(Snapshots(store \ {cur}))) >= MaxBackups
<1> DEFINE H == Heads(listed)
           Lo == {h \in H : Less(h, cur)}
           Hi == {h \in H : Less(cur, h)}
           F == Fulls(Snapshots(store \ {cur}))
<1>1. /\ listed # {} /\ cur \in H /\ H \subseteq listed
      /\ \A h \in H : h.kind # "Full" => \A s \in listed \ {h} : Less(h, s)
  BY OldAreListed, HeadsOrdered DEF InStream, GInv, ListFits, NewestKept
<1>2. /\ \A h \in H : h = cur \/ h \in Lo \/ h \in Hi
      /\ cur \notin Lo /\ cur \notin Hi /\ Lo \cap Hi = {}
  <2>1. \A h \in H : h.last \in Nat /\ h.created \in Nat /\ (h.created = cur.created => h = cur)
    BY <1>1 DEF GInv, ListFits, Ordered, Objects
  <2> QED
    BY <1>1, <2>1 DEF Less
<1>3. IsFiniteSet(H) /\ IsFiniteSet(Lo) /\ IsFiniteSet(Hi) /\ IsFiniteSet(F)
  <2>1. IsFiniteSet(listed) /\ IsFiniteSet(store) /\ F \subseteq store
    BY DEF GInv, ListFits, GTypes, Fulls, Snapshots
  <2> QED
    BY <1>1, <2>1, FS_Subset
<1>4. Cardinality(H) = Cardinality(Lo) + Cardinality(Hi) + 1
  <2>1. IsFiniteSet(Lo \cup Hi) /\ Cardinality(Lo \cup Hi) = Cardinality(Lo) + Cardinality(Hi)
    <3> HIDE DEF Lo, Hi
    <3>1. Cardinality(Lo \cap Hi) = 0
      BY <1>2, FS_EmptySet
    <3>2. /\ IsFiniteSet(Lo \cup Hi)
          /\ Cardinality(Lo \cup Hi) =
               Cardinality(Lo) + Cardinality(Hi) - Cardinality(Lo \cap Hi)
      BY <1>3, FS_Union
    <3>3. Cardinality(Lo) \in Nat /\ Cardinality(Hi) \in Nat
      BY <1>3, FS_CardinalityType
    <3> QED
      BY <3>1, <3>2, <3>3
  <2>2. H = (Lo \cup Hi) \cup {cur} /\ cur \notin Lo \cup Hi
    BY <1>1, <1>2
  <2> HIDE DEF H, Lo, Hi
  <2> QED
    BY <2>1, <2>2, FS_AddElement
<1>5. Cardinality(Hi) >= MaxBackups
  BY <1>3, <1>4, FS_CardinalityType, GCAssumption DEF BeyondLimit
<1>6. Hi \subseteq F
  <2>1. SUFFICES ASSUME NEW h \in Hi PROVE h \in F
    OBVIOUS
  <2>2. h \in listed /\ h # cur /\ ~Less(h, cur)
    BY <1>1, <1>2
  <2>3. h.kind = "Full"
    BY <1>1, <2>2
  <2>4. h \in store
    BY DEF GInv, RestKept, NewestKept, InStream
  <2> QED
    BY <2>2, <2>3, <2>4 DEF Fulls, Snapshots, GInv, ListFits, Ordered
<1>7. Cardinality(Hi) <= Cardinality(F)
  BY <1>3, <1>6, FS_Subset
<1> QED
  BY <1>3, <1>5, <1>7, FS_CardinalityType, GCAssumption

\* A step of the limit-based policy that deletes a full snapshot leaves at least MaxBackups
\* of them (GarbageCollectionPolicyLimitBased), also when the list starts with delta snapshots.
THEOREM LimitIsSafe == ASSUME Policy = "LimitBased" PROVE Spec => BackupsKept
<1>1. ASSUME GInv, [Next]_vars,
             Cardinality(Fulls(Snapshots(store'))) < Cardinality(Fulls(Snapshots(store)))
      PROVE  Cardinality(Fulls(Snapshots(store'))) >= MaxBackups
  <2> DEFINE F == Fulls(Snapshots(store))
             G == Fulls(Snapshots(store'))
  <2>1. IsFiniteSet(F) /\ IsFiniteSet(G)
    <3>1. GInv'
      BY <1>1, NextGInv
    <3>2. F \subseteq store /\ G \subseteq store'
      BY DEF Fulls, Snapshots
    <3> QED
      BY <1>1, <3>1, <3>2, FS_Subset DEF GInv, GTypes
  <2>2. ~(F \subseteq G)
    <3> HIDE DEF F, G
    <3>1. SUFFICES ASSUME F \subseteq G PROVE ~(Cardinality(G) < Cardinality(F))
      BY <1>1 DEF F, G
    <3> QED
      BY <2>1, <3>1, FS_Subset, FS_CardinalityType
  <2>3. Collect
    <3>1. SUFFICES ASSUME ~Collect PROVE store \subseteq store'
      BY <2>2 DEF Fulls, Snapshots
    <3> QED
      BY <1>1, <3>1 DEF Next, Tick, BeginSave, PutChunk, Compose, SaveFails, Crash, vars
  <2>4. gc = "head" /\ BeyondLimit /\ store' = store \ {cur}
    BY <1>1, <2>2, <2>3, WhatIsDeleted DEF Fulls, Snapshots
  <2> QED
    BY <1>1, <2>4, EnoughFollow
<1> QED
  BY <1>1, GInvariance, PTL DEF Spec, BackupsKept

-----------------------------------------------------------------------------
(* The exponential policy: the record of all full snapshots *)

Chronicle == taken \cup listed \cup Snapshots(store)

\* t was taken after s.
Follows(t, s) == s.created < t.created /\ s.last <= t.last /\ s.hour <= t.hour

\* All snapshots that are recorded, listed or stored were taken one after the other, and
\* what is being uploaded after all of them.
InOrder ==
    /\ \A s \in taken : s.kind = "Full"
    /\ Fulls(Snapshots(store)) \cup Fulls(listed) \subseteq taken
    /\ \A s \in Chronicle :
         /\ s \in Objects /\ s.part = 0 /\ s.hour <= now /\ s.last <= rev /\ s.created < saves
         /\ \A t \in Chronicle : t = s \/ Follows(t, s) \/ Follows(s, t)
    /\ up # None => up.hour <= now /\ \A s \in Chronicle : Follows(up, s)

Passing == gc \in {"streams", "deltas", "head"}

WeekOld(h) == Day(start) - Day(h.hour) >= 8

\* The exponential policy goes down the list; the end of day is moved back only once all
\* that is left is older than a week.
WalkFits ==
    /\ start \in Nat
    /\ Passing => /\ start <= now /\ \A s \in listed : s.hour <= start
                  /\ trackingWeek \/ eod = Day(start) * 24 + 23
    /\ InStream => \A h \in todo : Less(h, cur)
    /\ trackingWeek => /\ \A h \in todo : WeekOld(h)
                       /\ InStream => WeekOld(cur)
    /\ ~Passing => ~trackingWeek

\* Hours and the days they are in.
LEMMA DayOf ==
    ASSUME NEW h \in Nat
    PROVE  Day(h) \in Nat /\ Day(h) * 24 <= h /\ h <= Day(h) * 24 + 23
BY DEF Day

\* Later hours are in later days.
LEMMA DaysGrow ==
    ASSUME NEW g \in Nat, NEW h \in Nat, g <= h
    PROVE  Day(g) <= Day(h)
BY DayOf

\* At the end of a day, whole days ago are days of the calendar.
LEMMA WholeDays ==
    ASSUME NEW d \in Nat, NEW h \in Nat, Day(h) <= d
    PROVE  Trunc(d * 24 + 23 - h, 24) = d - Day(h) /\ d * 24 + 23 - h >= 0
<1> DEFINE x == d * 24 + 23 - h
           q == d - Day(h)
<1>1. q \in Nat /\ x \in Nat /\ q * 24 <= x /\ x <= q * 24 + 23
  <2>1. PICK k \in Nat : k = Day(h) /\ k * 24 <= h /\ h <= k * 24 + 23
    BY DayOf
  <2> QED
    BY <2>1
<1>2. x \div 24 = q
  <2> HIDE DEF x, q
  <2> QED
    BY <1>1
<1> QED
  BY <1>1, <1>2 DEF Trunc

\* An hour ago is an hour ago.
LEMMA WholeHours ==
    ASSUME NEW x \in Nat
    PROVE  Trunc(x, 1) = x
BY DEF Trunc

\* The last snapshot of one of the past seven days is not outdated by one of a later day.
LEMMA DayIsSpared ==
    ASSUME NEW s \in Objects, NEW f \in Objects, start \in Nat,
           s.hour <= f.hour, f.hour <= start, Day(f.hour) # Day(s.hour),
           Day(start) - Day(s.hour) <= 7
    PROVE  LET e == Day(start) * 24 + 23
           IN ~Outdated(s, f, Threshold(s, e), e) /\ e - s.hour < 8 * 24
<1> DEFINE d == Day(start)
           e == d * 24 + 23
<1>1. s.hour \in Nat /\ f.hour \in Nat
  BY DEF Objects
<1>2. d \in Nat /\ Day(s.hour) \in Nat /\ Day(f.hour) \in Nat
      /\ Day(s.hour) < Day(f.hour) /\ Day(f.hour) <= d
  <2>1. d \in Nat /\ Day(s.hour) \in Nat /\ Day(f.hour) \in Nat
    BY <1>1, DayOf
  <2>2. Day(s.hour) <= Day(f.hour) /\ Day(f.hour) <= d
    BY <1>1, DaysGrow
  <2> QED
    BY <2>1, <2>2
<1>3. Change(s, f, e, 24) = Day(f.hour) - Day(s.hour)
  <2>1. Trunc(e - s.hour, 24) = d - Day(s.hour) /\ Trunc(e - f.hour, 24) = d - Day(f.hour)
    BY <1>1, <1>2, WholeDays
  <2> HIDE DEF d, e
  <2> QED
    BY <1>2, <2>1 DEF Change
<1>4. e - s.hour \in Int /\ e - s.hour >= 24 /\ e - s.hour < 8 * 24
  <2>1. PICK k \in Nat : k = Day(s.hour) /\ k * 24 <= s.hour /\ s.hour <= k * 24 + 23
    BY <1>1, DayOf
  <2>2. k < d /\ d <= k + 7
    BY <1>2, <2>1
  <2> HIDE DEF d
  <2> QED
    BY <1>1, <1>2, <2>1, <2>2
<1>5. Threshold(s, e) = 24
  <2> HIDE DEF e
  <2> QED
    BY <1>4 DEF Threshold
<1>6. Change(s, f, e, 24) * 24 >= 24
  BY <1>2, <1>3
<1>7. ~Outdated(s, f, 24, e)
  <2> HIDE DEF e
  <2>1. Change(s, f, e, 24) \in Int
    BY <1>2, <1>3
  <2> QED
    BY <1>6, <2>1 DEF Outdated
<1> QED
  BY <1>4, <1>5, <1>7

\* The last snapshot of an hour of the day is not outdated by one of a later hour.
LEMMA HourIsSpared ==
    ASSUME NEW s \in Objects, NEW f \in Objects, start \in Nat,
           s.hour < f.hour, f.hour <= start, Day(start) = Day(s.hour)
    PROVE  LET e == Day(start) * 24 + 23
           IN ~Outdated(s, f, Threshold(s, e), e) /\ e - s.hour < 8 * 24
<1> DEFINE e == Day(start) * 24 + 23
<1>1. s.hour \in Nat /\ f.hour \in Nat
  BY DEF Objects
<1>2. e \in Nat /\ s.hour <= e /\ f.hour <= e /\ e - s.hour < 24
  <2>1. PICK k \in Nat : k = Day(start) /\ start <= k * 24 + 23 /\ k * 24 <= s.hour
    BY <1>1, DayOf
  <2> QED
    BY <1>1, <2>1
<1> HIDE DEF e
<1>3. Change(s, f, e, 1) = f.hour - s.hour
  <2>1. Trunc(e - s.hour, 1) = e - s.hour /\ Trunc(e - f.hour, 1) = e - f.hour
    BY <1>1, <1>2, WholeHours
  <2> QED
    BY <1>1, <1>2, <2>1 DEF Change
<1>4. Threshold(s, e) \in {0, 1}
  BY <1>2 DEF Threshold
<1>5. ~Outdated(s, f, Threshold(s, e), e)
  <2>1. ~(Change(s, f, e, 1) < 1)
    BY <1>1, <1>3
  <2> QED
    BY <1>4, <2>1 DEF Outdated
<1> QED
  BY <1>1, <1>2, <1>5 DEF e

\* Less is the order in which snapshots were taken.
LEMMA LessFollows ==
    ASSUME InOrder, NEW s \in Chronicle, NEW t \in Chronicle, Less(s, t)
    PROVE  Follows(t, s)
<1>1. s \in Objects /\ t \in Objects /\ (t = s \/ Follows(t, s) \/ Follows(s, t))
  BY DEF InOrder
<1> QED
  BY <1>1 DEF Less, Follows, Objects

\* The head that a head is compared with is a full snapshot that was taken later.
LEMMA FollowingFits ==
    ASSUME GInv, InOrder, gc = "head"
    PROVE  /\ cur \in listed /\ Following \in Fulls(listed)
           /\ Following \in taken /\ Follows(Following, cur)
<1> DEFINE H == {h \in Heads(listed) : Less(cur, h)}
<1>1. /\ listed # {} /\ cur \in listed /\ Heads(listed) \subseteq listed /\ Newest \in H
      /\ \A h \in Heads(listed) : h.kind # "Full" => \A s \in listed \ {h} : Less(h, s)
  BY OldAreListed, HeadsOrdered DEF InStream, GInv, ListFits, NewestKept
<1>2. Following \in H
  <2>1. H \subseteq listed /\ H # {}
    BY <1>1
  <2>2. Following = Least(H)
    BY DEF Following
  <2> HIDE DEF H
  <2> QED
    BY <2>1, <2>2, LeastExists DEF GInv, ListFits
<1>3. Following \in listed /\ Following \in Heads(listed) /\ Less(cur, Following)
  BY <1>1, <1>2
<1>4. Follows(Following, cur)
  BY <1>1, <1>3, LessFollows DEF Chronicle
<1>5. Following # cur /\ ~Less(Following, cur)
  <2>1. cur \in Objects /\ Following \in Objects
    BY <1>1, <1>3 DEF InOrder, Chronicle
  <2> QED
    BY <1>3, <1>4, <2>1 DEF Less, Follows, Objects
<1>6. Following.kind = "Full"
  BY <1>1, <1>3, <1>5
<1> QED
  BY <1>1, <1>3, <1>4, <1>6 DEF Fulls, InOrder

\* A full snapshot that a step deletes is outdated.
LEMMA OnlyOutdated ==
    ASSUME Policy = "Exponential", GInv, Next, NEW s \in Fulls(Snapshots(store)), s \notin store'
    PROVE  /\ CollectHead /\ s = cur
           /\ Outdated(cur, Following, Threshold(cur, eod), eod')
<1>1. Collect
  BY DEF Next, Tick, BeginSave, PutChunk, Compose, SaveFails, Crash, Fulls, Snapshots
<1>2. s = cur /\ gc = "head"
  BY <1>1, WhatIsDeleted DEF Fulls, Snapshots
<1>3. CollectHead
  BY <1>1, <1>2 DEF Collect, List, CollectChunk, StartStreams, NextStream, CollectDelta, RoundEnds
<1> QED
  BY <1>2, <1>3 DEF CollectHead, Fulls, Snapshots

\* Nothing is added to what is recorded, and the clock only goes forward.
LEMMA OrderStays ==
    ASSUME GInv, InOrder, Chronicle' \subseteq Chronicle, taken' = taken,
           Fulls(Snapshots(store')) \cup Fulls(listed') \subseteq taken,
           up' = up \/ up' = None, now' \in Nat, now <= now', UNCHANGED <<rev, saves>>
    PROVE  InOrder'
<1> DEFINE C == Chronicle
           D == Chronicle'
<1>1. now \in Nat /\ (up # None => up \in Objects)
  BY DEF GInv, GTypes
<1>2. \A s \in C :
        /\ s \in Objects /\ s.part = 0 /\ s.hour <= now' /\ s.last <= rev /\ s.created < saves
        /\ \A t \in C : t = s \/ Follows(t, s) \/ Follows(s, t)
  BY <1>1 DEF InOrder, Objects
<1>3. up' # None => up'.hour <= now' /\ \A s \in C : Follows(up', s)
  BY <1>1 DEF InOrder, Objects
<1>4. D \subseteq C
  OBVIOUS
<1>5. \A s \in taken : s.kind = "Full"
  BY DEF InOrder
<1> HIDE DEF C, D
<1>6. /\ \A s \in D :
           /\ s \in Objects /\ s.part = 0 /\ s.hour <= now' /\ s.last <= rev' /\ s.created < saves'
           /\ \A t \in D : t = s \/ Follows(t, s) \/ Follows(s, t)
      /\ up' # None => up'.hour <= now' /\ \A s \in D : Follows(up', s)
  BY <1>2, <1>3, <1>4
<1> QED
  BY <1>5, <1>6 DEF InOrder, D, Follows

\* The record is kept in order.
LEMMA OrderKept ==
    ASSUME GInv, InOrder, MCNext
    PROVE  InOrder'
<1> USE DEF MCNext
<1>1. rev \in Nat /\ saves \in Nat /\ now \in Nat
  BY DEF GInv, GTypes
<1>2. CASE Tick
  <2>1. /\ UNCHANGED <<store, listed, up, rev, saves, taken>>
        /\ now' \in Nat /\ now <= now'
    <3>1. now' \in Nat /\ now <= now'
      BY <1>1, <1>2, GCAssumption DEF Tick
    <3> QED
      BY <1>2, <3>1 DEF Tick, upload, round, InOrder
  <2> QED
    BY <2>1, OrderStays DEF Chronicle, InOrder
<1>3. CASE PutChunk
  <2>1. UNCHANGED <<listed, up, rev, saves, now>>
    BY <1>3 DEF PutChunk, time, round
  <2>2. Snapshots(store') = Snapshots(store)
    <3>1. PICK i \in 1 .. NoOfChunks : store' = store \cup {[up EXCEPT !.part = i]}
      BY <1>3 DEF PutChunk
    <3>2. [up EXCEPT !.part = i].part # 0
      BY <1>3, <3>1 DEF PutChunk, GInv, GTypes, Objects
    <3> QED
      BY <3>1, <3>2 DEF Snapshots
  <2>3. taken' = taken
    BY <2>2 DEF InOrder
  <2> QED
    BY <1>1, <2>1, <2>2, <2>3, OrderStays DEF Chronicle, InOrder
<1>4. CASE SaveFails
  <2>1. UNCHANGED <<store, listed, rev, saves, now, taken>> /\ up' = None
    BY <1>4 DEF SaveFails, time, round, InOrder
  <2> QED
    BY <1>1, <2>1, OrderStays DEF Chronicle, InOrder
<1>5. CASE Crash
  <2>1. UNCHANGED <<store, rev, saves, now, taken>> /\ up' = None /\ listed' = {}
    BY <1>5 DEF Crash, time, InOrder
  <2> QED
    BY <1>1, <2>1, OrderStays DEF Chronicle, InOrder, Fulls
<1>6. CASE Collect
  <2>1. store' \subseteq store
    BY <1>6, WhatIsDeleted
  <2>2. Snapshots(store') \subseteq Snapshots(store)
        /\ Fulls(Snapshots(store')) \subseteq Fulls(Snapshots(store))
    BY <2>1 DEF Snapshots, Fulls
  <2>3. UNCHANGED <<rev, saves, now, up>>
        /\ (listed' = listed \/ listed' = {} \/ listed' = Snapshots(store))
    BY <1>6 DEF Collect, List, CollectChunk, StartStreams, NextStream, CollectDelta, CollectHead,
                RoundEnds, upload, time
  <2>4. taken' = taken
    BY <2>2 DEF InOrder
  <2>5. Fulls(listed') \subseteq taken
    BY <2>3 DEF InOrder, Fulls
  <2>6. Chronicle' \subseteq Chronicle
    BY <2>2, <2>3, <2>4 DEF Chronicle
  <2> QED
    BY <1>1, <2>2, <2>3, <2>4, <2>5, <2>6, OrderStays DEF InOrder
<1>7. CASE BeginSave
  <2>1. UNCHANGED <<store, listed, now, taken>>
    BY <1>7 DEF BeginSave, time, round, InOrder
  <2>2. /\ up'.hour = now /\ up'.created = saves /\ saves' = saves + 1
        /\ rev' \in Nat /\ up'.last \in Nat /\ rev <= rev' /\ rev <= up'.last
    BY <1>1, <1>7 DEF BeginSave, Object
  <2>3. Chronicle' = Chronicle
    BY <2>1 DEF Chronicle
  <2>4. \A s \in Chronicle : Follows(up', s)
    BY <1>1, <2>2 DEF InOrder, Follows, Objects
  <2>5. \A s \in Chronicle : s.last <= rev' /\ s.created < saves'
    BY <1>1, <2>2 DEF InOrder, Objects
  <2> QED
    BY <1>1, <2>1, <2>2, <2>3, <2>4, <2>5 DEF InOrder, Follows
<1>8. CASE Compose
  <2>1. /\ UNCHANGED <<listed, now, rev, saves>> /\ up' = None /\ up # None
        /\ store' = store \cup {up}
    BY <1>8 DEF Compose, time, round
  <2>2. up \in Objects /\ up.part = 0 /\ up.last <= rev /\ up.created < saves /\ up.hour <= now
        /\ \A s \in Chronicle : Follows(up, s)
    BY <2>1 DEF GInv, GTypes, UploadFits, InOrder
  <2>3. Snapshots(store') = Snapshots(store) \cup {up}
    BY <2>1, <2>2 DEF Snapshots
  <2>4. /\ Fulls(Snapshots(store')) \subseteq taken' /\ Fulls(listed') \subseteq taken'
        /\ \A s \in taken' : s.kind = "Full"
    BY <2>1 DEF InOrder, Fulls
  <2>5. Chronicle' \subseteq Chronicle \cup {up}
    BY <2>1, <2>3 DEF Chronicle, Fulls
  <2>6. \A s \in Chronicle \cup {up} :
          /\ s \in Objects /\ s.part = 0 /\ s.hour <= now /\ s.last <= rev /\ s.created < saves
          /\ \A t \in Chronicle \cup {up} : t = s \/ Follows(t, s) \/ Follows(s, t)
    BY <2>2 DEF InOrder
  <2> QED
    BY <2>1, <2>4, <2>5, <2>6 DEF InOrder, Follows
<1> QED
  BY <1>2, <1>3, <1>4, <1>5, <1>6, <1>7, <1>8 DEF Next

\* Whatever is older than a snapshot of more than a week ago is that old too.
LEMMA OlderThanWeek ==
    ASSUME GInv, InOrder, start \in Nat, NEW c \in listed, NEW h \in listed,
           Less(h, c), WeekOld(c)
    PROVE  WeekOld(h)
<1>1. h.hour \in Nat /\ c.hour \in Nat /\ h.hour <= c.hour
  <2>1. h \in Chronicle /\ c \in Chronicle
    BY DEF Chronicle
  <2>2. h \in Objects /\ c \in Objects
    BY <2>1 DEF InOrder
  <2>3. Follows(c, h)
    BY <2>1, LessFollows
  <2> QED
    BY <2>2, <2>3 DEF Follows, Objects
<1>2. Day(h.hour) <= Day(c.hour) /\ Day(h.hour) \in Nat /\ Day(c.hour) \in Nat /\ Day(start) \in Nat
  BY <1>1, DaysGrow, DayOf
<1> QED
  BY <1>2 DEF WeekOld

\* The steps of a round of the exponential policy.
LEMMA WalkKept ==
    ASSUME Policy = "Exponential", GInv, InOrder, WalkFits, [Next]_vars
    PROVE  WalkFits'
<1> USE DEF Passing, InStream
<1>1. now \in Nat
  BY DEF GInv, GTypes
<1>2. CASE UNCHANGED round /\ now' \in Nat /\ now <= now'
  BY <1>1, <1>2 DEF round, WalkFits, WeekOld
<1>3. CASE Tick \/ BeginSave \/ PutChunk \/ Compose \/ SaveFails \/ UNCHANGED vars
  <2>1. UNCHANGED round
    BY <1>3 DEF Tick, BeginSave, PutChunk, Compose, SaveFails, vars
  <2>2. now' \in Nat /\ now <= now'
    BY <1>1, <1>3, GCAssumption DEF Tick, BeginSave, PutChunk, Compose, SaveFails, vars, time
  <2> QED
    BY <1>2, <2>1, <2>2
<1>4. CASE Crash
  BY <1>4 DEF Crash, WalkFits
<1>5. CASE List
  BY <1>5 DEF List, WalkFits, GInv, ListFits
<1>6. CASE CollectChunk
  BY <1>6 DEF CollectChunk, WalkFits, time, GInv, ListFits
<1>7. CASE StartStreams
  <2>1. \A s \in listed : s.hour <= now
    BY DEF InOrder, Chronicle
  <2> QED
    BY <1>1, <1>7, <2>1 DEF StartStreams, WalkFits, time, Day
<1>8. CASE NextStream
  <2>1. /\ UNCHANGED <<now, listed, start, eod, trackingWeek>>
        /\ todo # {} /\ cur' = Greatest(todo) /\ todo' = todo \ {cur'} /\ gc = "streams"
        /\ gc' \in {"deltas", "head"}
    BY <1>8 DEF NextStream, time
  <2>2. todo \subseteq listed
    BY <2>1, OldAreListed
  <2>3. cur' \in todo /\ \A h \in todo' : Less(h, cur')
    BY <2>1, <2>2, GreatestExists DEF GInv, GTypes, ListFits
  <2> QED
    BY <2>1, <2>3 DEF WalkFits, WeekOld
<1>9. CASE CollectDelta
  BY <1>9 DEF CollectDelta, WalkFits, time, WeekOld
<1>10. CASE CollectHead
  <2>1. /\ UNCHANGED <<now, listed, start, todo, cur>> /\ gc = "head" /\ gc' = "streams"
        /\ trackingWeek' = (trackingWeek \/ WeekStarts)
        /\ eod' = IF WeekStarts THEN eod - 24 ELSE eod
    BY <1>10 DEF CollectHead, time
  <2>2. todo \subseteq listed /\ cur \in listed
    BY <2>1, OldAreListed
  <2>3. ASSUME WeekStarts PROVE WeekOld(cur)
    <3>1. eod = Day(start) * 24 + 23 /\ eod - cur.hour >= 8 * 24 /\ start \in Nat
      BY <2>1, <2>3 DEF WeekStarts, WalkFits
    <3>2. cur.hour \in Nat
      BY <2>2 DEF InOrder, Chronicle, Objects
    <3>3. PICK k \in Nat : k = Day(cur.hour) /\ k * 24 <= cur.hour
      BY <3>2, DayOf
    <3>4. PICK d \in Nat : d = Day(start)
      BY <3>1, DayOf
    <3>5. d - k >= 8
      BY <3>1, <3>2, <3>3, <3>4
    <3> QED
      BY <3>3, <3>4, <3>5 DEF WeekOld
  <2>4. ASSUME trackingWeek' PROVE \A h \in todo : WeekOld(h)
    <3>1. WeekOld(cur)
      BY <2>1, <2>3, <2>4 DEF WalkFits
    <3>2. \A h \in todo : Less(h, cur)
      BY <2>1 DEF WalkFits
    <3> QED
      BY <2>2, <3>1, <3>2, OlderThanWeek DEF WalkFits
  <2>5. trackingWeek' \/ eod' = Day(start) * 24 + 23
    BY <2>1 DEF WalkFits
  <2> QED
    BY <2>1, <2>4, <2>5 DEF WalkFits, WeekOld
<1>11. CASE RoundEnds
  BY <1>11 DEF RoundEnds, WalkFits
<1> QED
  BY <1>3, <1>4, <1>5, <1>6, <1>7, <1>8, <1>9, <1>10, <1>11 DEF Next, Collect

\* The record and the walk at first.
LEMMA WalkInit == MCInit => GInv /\ InOrder /\ WalkFits
<1> SUFFICES ASSUME MCInit PROVE GInv /\ InOrder /\ WalkFits
  OBVIOUS
<1>1. Chronicle = {} /\ Fulls(Snapshots(store)) = {} /\ Fulls(listed) = {}
  BY DEF MCInit, Init, Chronicle, Fulls, Snapshots
<1> QED
  BY <1>1, InitGInv DEF MCInit, Init, InOrder, WalkFits, Passing, InStream

WInv == GInv /\ InOrder /\ WalkFits

\* The invariant of the exponential policy.
LEMMA WalkInvariance == ASSUME Policy = "Exponential" PROVE MCSpec => []WInv
<1>1. MCInit => WInv
  BY WalkInit DEF WInv
<1>2. WInv /\ [MCNext]_<<vars, taken>> => WInv'
  <2>1. SUFFICES ASSUME WInv, [MCNext]_<<vars, taken>> PROVE WInv'
    OBVIOUS
  <2>2. [Next]_vars
    BY <2>1 DEF MCNext
  <2>3. GInv' /\ WalkFits'
    BY <2>1, <2>2, NextGInv, WalkKept DEF WInv
  <2>4. CASE MCNext
    BY <2>1, <2>3, <2>4, OrderKept DEF WInv
  <2>5. CASE UNCHANGED <<vars, taken>>
    <3>1. InOrder'
      BY <2>1, <2>5 DEF WInv, InOrder, Chronicle, Follows, vars, upload, time, round
    <3> QED
      BY <2>3, <3>1 DEF WInv
  <2> QED
    BY <2>1, <2>4, <2>5
<1> QED
  BY <1>1, <1>2, PTL DEF MCSpec

\* What a step deletes is neither the last snapshot of one of the past seven days nor the
\* last one of an hour of the day.
LEMMA LastIsSpared ==
    ASSUME Policy = "Exponential", WInv, Next, NEW s \in taken, s \in store,
           \/ Day(now) - Day(s.hour) <= 7 /\ LastOf(s, 24)
           \/ Day(now) = Day(s.hour) /\ LastOf(s, 1)
    PROVE  s \in store'
<1>1. SUFFICES ASSUME s \notin store' PROVE FALSE
  OBVIOUS
<1>2. GInv /\ InOrder /\ WalkFits
  BY DEF WInv
<1>3. s \in Fulls(Snapshots(store)) /\ s \in Objects
  BY <1>2 DEF InOrder, Chronicle, Fulls, Snapshots
<1>4. CollectHead /\ s = cur /\ Outdated(s, Following, Threshold(s, eod), eod')
  BY <1>1, <1>2, <1>3, OnlyOutdated
<1>5. gc = "head" /\ eod' = IF WeekStarts THEN eod - 24 ELSE eod
  BY <1>4 DEF CollectHead
<1> DEFINE f == Following
<1>6. s \in listed /\ f \in listed /\ f \in taken /\ Follows(f, s)
  BY <1>2, <1>4, <1>5, FollowingFits DEF Fulls
<1>7. f \in Objects /\ f # s /\ ~Less(f, s)
  <2>1. f \in Objects
    BY <1>2, <1>6 DEF InOrder, Chronicle
  <2> HIDE DEF f
  <2> QED
    BY <1>3, <1>6, <2>1 DEF Follows, Less, Objects
<1>8. start \in Nat /\ now \in Nat /\ start <= now /\ f.hour <= start /\ s.hour <= f.hour
      /\ s.hour \in Nat /\ f.hour \in Nat
  BY <1>2, <1>3, <1>5, <1>6, <1>7 DEF WalkFits, Passing, GInv, GTypes, Follows, Objects
<1> HIDE DEF f
<1>9. /\ Day(s.hour) \in Nat /\ Day(f.hour) \in Nat /\ Day(start) \in Nat /\ Day(now) \in Nat
      /\ Day(s.hour) <= Day(f.hour) /\ Day(f.hour) <= Day(start) /\ Day(start) <= Day(now)
  BY <1>8, DayOf, DaysGrow
<1>10. Day(start) - Day(s.hour) <= 7
  BY <1>9
<1>11. ~trackingWeek /\ eod = Day(start) * 24 + 23
  BY <1>2, <1>4, <1>5, <1>9, <1>10 DEF WalkFits, WeekOld, Passing, InStream
<1>12. eod - s.hour < 8 * 24 => eod' = eod
  <2>1. eod - s.hour \in Int
    BY <1>8, <1>9, <1>11
  <2>2. eod - cur.hour < 8 * 24 => ~WeekStarts
    BY <1>4, <2>1 DEF WeekStarts
  <2> QED
    BY <1>4, <1>5, <2>2
<1>13. CASE Day(f.hour) # Day(s.hour)
  <2>1. ~Outdated(s, f, Threshold(s, eod), eod) /\ eod - s.hour < 8 * 24
    BY <1>3, <1>7, <1>8, <1>10, <1>11, <1>13, DayIsSpared
  <2> QED
    BY <1>4, <1>12, <2>1 DEF f
<1>14. CASE Day(f.hour) = Day(s.hour)
  <2>1. Day(now) = Day(s.hour) /\ LastOf(s, 1)
    BY <1>6, <1>7, <1>14 DEF LastOf, Day
  <2>2. f.hour \div 1 = f.hour /\ s.hour \div 1 = s.hour
    BY <1>8
  <2>3. f.hour # s.hour
    BY <1>6, <1>7, <2>1, <2>2 DEF LastOf
  <2>4. ~Outdated(s, f, Threshold(s, eod), eod) /\ eod - s.hour < 8 * 24
    <3>1. s.hour < f.hour /\ Day(start) = Day(s.hour)
      BY <1>8, <1>9, <2>1, <2>3
    <3> QED
      BY <1>3, <1>7, <1>8, <1>11, <3>1, HourIsSpared
  <2> QED
    BY <1>4, <1>12, <2>4 DEF f
<1> QED
  BY <1>13, <1>14

\* The clock does not go back, and what is recorded is not of the future.
LEMMA ClockAdvances ==
    ASSUME WInv, MCNext, NEW s \in taken
    PROVE  now \in Nat /\ now' \in Nat /\ now <= now' /\ s.hour \in Nat /\ s.hour <= now
<1>1. now \in Nat /\ s.hour \in Nat /\ s.hour <= now
  BY DEF WInv, GInv, GTypes, InOrder, Chronicle, Objects
<1>2. CASE Tick
  BY <1>1, <1>2, GCAssumption DEF Tick
<1>3. CASE BeginSave \/ PutChunk \/ Compose \/ SaveFails \/ Crash
  BY <1>1, <1>3 DEF BeginSave, PutChunk, Compose, SaveFails, Crash, time
<1>4. CASE Collect
  <2>1. now' = now
    BY <1>4 DEF Collect, List, CollectChunk, StartStreams, NextStream, CollectDelta, CollectHead,
                RoundEnds, time
  <2> QED
    BY <1>1, <2>1
<1> QED
  BY <1>2, <1>3, <1>4 DEF MCNext, Next

\* Of each of the past seven days the last full snapshot stays in the store, through any
\* number of rounds at any times of day, faults and crashes (the exponential policy of
\* RunGarbageCollector).
THEOREM DailyBackupsStay == ASSUME Policy = "Exponential" PROVE MCSpec => []DailyKept
<1>1. MCInit => DailyKept
  BY DEF MCInit, DailyKept
<1>2. ASSUME WInv, WInv', DailyKept, [MCNext]_<<vars, taken>> PROVE DailyKept'
  <2>1. CASE MCNext
    <3>1. SUFFICES ASSUME NEW s \in taken', Day(now') - Day(s.hour) <= 7, LastOf(s, 24)'
                   PROVE  s \in store'
      BY DEF DailyKept, Day
    <3>2. CASE s \in Fulls(Snapshots(store'))
      BY <3>2 DEF Fulls, Snapshots
    <3>3. CASE s \in taken
      <4>1. Day(now) <= Day(now') /\ Day(now) \in Nat /\ Day(now') \in Nat /\ Day(s.hour) \in Nat
        <5>1. now \in Nat /\ now' \in Nat /\ now <= now' /\ s.hour \in Nat
          BY <1>2, <2>1, <3>3, ClockAdvances
        <5> QED
          BY <5>1, DaysGrow, DayOf
      <4>2. Day(now) - Day(s.hour) <= 7
        BY <3>1, <4>1
      <4>3. LastOf(s, 24)
        BY <2>1, <3>1 DEF MCNext, LastOf
      <4>4. s \in store
        BY <1>2, <3>3, <4>2, <4>3 DEF DailyKept
      <4> QED
        BY <1>2, <2>1, <3>3, <4>2, <4>3, <4>4, LastIsSpared DEF MCNext
    <3> QED
      BY <2>1, <3>1, <3>2, <3>3 DEF MCNext
  <2>2. CASE UNCHANGED <<vars, taken>>
    BY <1>2, <2>2 DEF DailyKept, LastOf, Day, vars, time
  <2> QED
    BY <1>2, <2>1, <2>2
<1> QED
  BY <1>1, <1>2, WalkInvariance, PTL DEF MCSpec

\* Of each hour of the current day the last full snapshot stays in the store (the
\* exponential policy of RunGarbageCollector).
THEOREM HourlyBackupsStay == ASSUME Policy = "Exponential" PROVE MCSpec => []HourlyKept
<1>1. MCInit => HourlyKept
  BY DEF MCInit, HourlyKept
<1>2. ASSUME WInv, WInv', HourlyKept, [MCNext]_<<vars, taken>> PROVE HourlyKept'
  <2>1. CASE MCNext
    <3>1. SUFFICES ASSUME NEW s \in taken', Day(now') = Day(s.hour), LastOf(s, 1)'
                   PROVE  s \in store'
      BY DEF HourlyKept, Day
    <3>2. CASE s \in Fulls(Snapshots(store'))
      BY <3>2 DEF Fulls, Snapshots
    <3>3. CASE s \in taken
      <4>1. Day(now) <= Day(now') /\ Day(s.hour) <= Day(now)
            /\ Day(now) \in Nat /\ Day(now') \in Nat /\ Day(s.hour) \in Nat
        <5>1. now \in Nat /\ now' \in Nat /\ now <= now' /\ s.hour \in Nat /\ s.hour <= now
          BY <1>2, <2>1, <3>3, ClockAdvances
        <5> QED
          BY <5>1, DaysGrow, DayOf
      <4>2. Day(now) = Day(s.hour)
        BY <3>1, <4>1
      <4>3. LastOf(s, 1)
        BY <2>1, <3>1 DEF MCNext, LastOf
      <4>4. s \in store
        BY <1>2, <3>3, <4>2, <4>3 DEF HourlyKept
      <4> QED
        BY <1>2, <2>1, <3>3, <4>2, <4>3, <4>4, LastIsSpared DEF MCNext
    <3> QED
      BY <2>1, <3>1, <3>2, <3>3 DEF MCNext
  <2>2. CASE UNCHANGED <<vars, taken>>
    BY <1>2, <2>2 DEF HourlyKept, LastOf, Day, vars, time
  <2> QED
    BY <1>2, <2>1, <2>2
<1> QED
  BY <1>1, <1>2, WalkInvariance, PTL DEF MCSpec
=============================================================================
