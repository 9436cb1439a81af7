----------------------------- MODULE BucketProofs -----------------------------
(***************************************************************************)
(* Proofs about what a restoration makes of a bucket, whatever snapshots   *)
(* it holds (when the restored database is a state of the original, and    *)
(* when the restoration succeeds), and about what a step of a sidecar or   *)
(* of the compactor keeps of the bucket.                                   *)
(***************************************************************************)
EXTENDS Bucket, FiniteSetTheorems, WellFoundedInduction, TLAPS

(***************************************************************************)
(* Numbers and finite sets.                                                *)
(***************************************************************************)

\* Every set of naturals has a least element.
LEMMA NatMin ==
    ASSUME NEW T, T \subseteq Nat, T # {}
    PROVE  \E x \in T : \A y \in T : x <= y
<1> DEFINE I == {0 .. x : x \in T}
<1>1. I \subseteq FiniteSubsetsOf(Nat) /\ I # {}
  <2>1. ASSUME NEW x \in T PROVE 0 .. x \in FiniteSubsetsOf(Nat)
    BY FS_Interval DEF FiniteSubsetsOf
  <2> QED
    BY <2>1
<1>2. PICK i \in I : \A j \in I : ~(<<j, i>> \in StrictSubsetOrdering(Nat))
  <2> HIDE DEF I
  <2> QED
    BY <1>1, WFMin, FS_StrictSubsetOrderingWellFounded
<1>3. PICK x \in T : i = 0 .. x
  OBVIOUS
<1>4. ASSUME NEW y \in T, y < x PROVE FALSE
  <2>1. x \in 0 .. x /\ x \notin 0 .. y /\ 0 .. y \subseteq 0 .. x
    BY <1>4
  <2>2. <<0 .. y, i>> \in StrictSubsetOrdering(Nat)
    BY <1>3, <2>1 DEF StrictSubsetOrdering
  <2> QED
    BY <1>2, <2>2
<1> QED
  BY <1>4

\* What holds of 0, and of each number up to n if of the one before, holds up to n.
LEMMA UpToN ==
    ASSUME NEW n \in Nat, NEW H, H \subseteq 0 .. n, 0 \in H,
           \A i \in 1 .. n : i - 1 \in H => i \in H
    PROVE  H = 0 .. n
<1> SUFFICES ASSUME 0 .. n \ H # {} PROVE FALSE
  OBVIOUS
<1>0. 0 .. n \ H \subseteq Nat
  OBVIOUS
<1>1. PICK x \in 0 .. n \ H : \A y \in 0 .. n \ H : x <= y
  BY <1>0, NatMin
<1>2. x # 0 /\ x - 1 \in 0 .. n
  BY <1>1
<1> QED
  BY <1>1, <1>2

(***************************************************************************)
(* The order of List.                                                      *)
(***************************************************************************)

\* Snapshots of a store: finitely many, no two saved at once.
Listable(S) ==
    /\ IsFiniteSet(S) /\ S \subseteq Snapshot
    /\ \A s, t \in S : s.created = t.created => s = t

\* SnapList.Less orders them totally.
LEMMA LessOrders ==
    ASSUME NEW S, Listable(S)
    PROVE  /\ \A s \in S : ~Less(s, s)
           /\ \A s, t \in S : s = t \/ Less(s, t) \/ Less(t, s)
           /\ \A s, t \in S : ~(Less(s, t) /\ Less(t, s))
           /\ \A s, t, u \in S : Less(s, t) /\ Less(t, u) => Less(s, u)
<1>1. \A s \in S : s.last \in Nat /\ s.created \in Nat
  BY DEF Listable, Snapshot
<1> QED
  BY <1>1 DEF Listable, Less

\* How many snapshots come before each,
Rank(S) == [s \in S |-> Cardinality({t \in S : Less(t, s)})]

\* which numbers them.
LEMMA RankBijects ==
    ASSUME NEW S, Listable(S)
    PROVE  LET rank == Rank(S) IN
           /\ Cardinality(S) \in Nat
           /\ \A s \in S : rank[s] \in 0 .. Cardinality(S) - 1
           /\ \A s, t \in S : Less(s, t) => rank[s] < rank[t]
           /\ \A i \in 0 .. Cardinality(S) - 1 : \E s \in S : rank[s] = i
<1> DEFINE pre(s) == {t \in S : Less(t, s)}
           n == Cardinality(S)
           rank == Rank(S)
<1>0. IsFiniteSet(S) /\ n \in Nat
  BY FS_CardinalityType DEF Listable
<1>1. ASSUME NEW s \in S
      PROVE  /\ IsFiniteSet(pre(s)) /\ rank[s] = Cardinality(pre(s)) /\ rank[s] \in 0 .. n - 1
             /\ IsFiniteSet(pre(s) \cup {s}) /\ Cardinality(pre(s) \cup {s}) = rank[s] + 1
  <2>1. pre(s) \in SUBSET S /\ s \notin pre(s) /\ pre(s) \cup {s} \in SUBSET S
    BY LessOrders
  <2>2. rank[s] = Cardinality(pre(s))
    BY DEF Rank
  <2> HIDE DEF pre, n, rank
  <2>3. IsFiniteSet(pre(s)) /\ Cardinality(pre(s)) \in Nat
    BY <1>0, <2>1, FS_Subset, FS_CardinalityType
  <2>4. IsFiniteSet(pre(s) \cup {s}) /\ Cardinality(pre(s) \cup {s}) = Cardinality(pre(s)) + 1
    BY <2>1, <2>3, FS_AddElement
  <2>5. Cardinality(pre(s) \cup {s}) <= n
    BY <1>0, <2>1, FS_Subset DEF n
  <2> QED
    BY <1>0, <2>2, <2>3, <2>4, <2>5
<1>2. ASSUME NEW s \in S, NEW t \in S, Less(s, t)
      PROVE  rank[s] < rank[t]
  <2>1. pre(s) \cup {s} \in SUBSET pre(t)
    BY <1>2, LessOrders
  <2> HIDE DEF pre, n, rank
  <2>2. Cardinality(pre(s) \cup {s}) <= Cardinality(pre(t))
    BY <2>1, <1>1, FS_Subset
  <2>3. rank[s] + 1 <= rank[t] /\ rank[s] \in 0 .. n - 1 /\ rank[t] \in 0 .. n - 1
    BY <2>2, <1>1, Zenon
  <2> QED
    BY <2>3, <1>0
<1>6. rank = [s \in S |-> rank[s]]
  BY DEF Rank
<1> HIDE DEF pre, n, rank
<1>7. \A s \in S : rank[s] \in 0 .. n - 1
  BY <1>1, Zenon
<1>3. rank \in Injection(S, 0 .. n - 1)
  <2>1. rank \in [S -> 0 .. n - 1]
    BY <1>1, <1>6
  <2>2. \A s, t \in S : rank[s] = rank[t] => s = t
    <3>1. \A s \in S : rank[s] \in Nat
      BY <1>0, <1>7
    <3> QED
      BY <3>1, <1>2, LessOrders
  <2> QED
    BY <2>1, <2>2 DEF Injection, IsInjective
<1>4. IsFiniteSet(0 .. n - 1) /\ Cardinality(0 .. n - 1) = n
  BY <1>0, FS_Interval
<1>5. rank \in Surjection(S, 0 .. n - 1)
  BY <1>3, <1>4, FS_Injection DEF n
<1> QED
  BY <1>0, <1>1, <1>2, <1>5 DEF Surjection, n, rank

\* Sorted is a listing of the snapshots in that order.
LEMMA SortedLists ==
    ASSUME NEW S, Listable(S)
    PROVE  LET list == Sorted(S)
           IN /\ list \in Seq(S) /\ Len(list) = Cardinality(S) /\ Len(list) \in Nat
              /\ DOMAIN list = 1 .. Len(list)
              /\ \A i, j \in 1 .. Len(list) : i < j <=> Less(list[i], list[j])
              /\ \A s \in S : \E i \in 1 .. Len(list) : list[i] = s
              /\ list = <<>> <=> S = {}
<1> DEFINE list == Sorted(S)
           n == Cardinality(S)
           rank == Rank(S)
<1>0. \A s \in S : rank[s] = Cardinality({t \in S : Less(t, s)})
  BY DEF Rank
<1>1. /\ n \in Nat /\ \A s \in S : rank[s] \in 0 .. n - 1
      /\ \A s, t \in S : Less(s, t) => rank[s] < rank[t]
      /\ \A i \in 0 .. n - 1 : \E s \in S : rank[s] = i
  BY RankBijects
<1>2. list = [i \in 1 .. n |-> CHOOSE s \in S : Cardinality({t \in S : Less(t, s)}) = i - 1]
  BY DEF Sorted
<1> HIDE DEF n, list, rank
<1>3. ASSUME NEW i \in 1 .. n
      PROVE  list[i] \in S /\ rank[list[i]] = i - 1
  <2>1. i - 1 \in 0 .. n - 1
    BY <1>1
  <2>2. PICK s \in S : rank[s] = i - 1
    BY <1>1, <2>1
  <2>3. Cardinality({t \in S : Less(t, s)}) = i - 1
    BY <2>2, <1>0
  <2>4. list[i] = CHOOSE x \in S : Cardinality({t \in S : Less(t, x)}) = i - 1
    BY <1>2
  <2>5. list[i] \in S /\ Cardinality({t \in S : Less(t, list[i])}) = i - 1
    BY <2>3, <2>4
  <2> QED
    BY <2>5, <1>0
<1>4. list \in Seq(S) /\ Len(list) = n /\ DOMAIN list = 1 .. n
  <2>1. list \in [1 .. n -> S]
    BY <1>2, <1>3
  <2> QED
    BY <1>1, <2>1
<1>5. \A i, j \in 1 .. n : i < j <=> Less(list[i], list[j])
  <2> SUFFICES ASSUME NEW i \in 1 .. n, NEW j \in 1 .. n
               PROVE  i < j <=> Less(list[i], list[j])
    OBVIOUS
  <2>1. i \in Nat /\ j \in Nat /\ rank[list[i]] = i - 1 /\ rank[list[j]] = j - 1
    BY <1>1, <1>3
  <2>2. \/ list[i] = list[j] \/ Less(list[i], list[j]) \/ Less(list[j], list[i])
    BY <1>3, LessOrders
  <2>3. Less(list[i], list[j]) => rank[list[i]] < rank[list[j]]
    BY <1>1, <1>3
  <2>4. Less(list[j], list[i]) => rank[list[j]] < rank[list[i]]
    BY <1>1, <1>3
  <2> QED
    BY <2>1, <2>2, <2>3, <2>4
<1>6. ASSUME NEW s \in S PROVE \E i \in 1 .. n : list[i] = s
  <2>1. rank[s] + 1 \in 1 .. n
    BY <1>1
  <2>2. list[rank[s] + 1] \in S /\ rank[list[rank[s] + 1]] = rank[s]
    BY <1>1, <1>3, <2>1
  <2>3. list[rank[s] + 1] = s
    <3>1. rank[s] \in Nat
      BY <1>1
    <3> QED
      BY <1>1, <2>2, <3>1, LessOrders
  <2> QED
    BY <2>1, <2>3
<1>7. list = <<>> <=> S = {}
  BY <1>1, <1>3, <1>4, <1>6
<1> QED
  BY <1>1, <1>4, <1>5, <1>6, <1>7 DEF list, n

\* The last of the list comes after all others.
LEMMA LastOfSorted ==
    ASSUME NEW S, Listable(S), S # {}
    PROVE  LET list == Sorted(S)
               top == list[Len(list)]
           IN /\ Len(list) \in 1 .. Len(list) /\ top \in S
              /\ \A s \in S \ {top} : Less(s, top)
              /\ top = CHOOSE x \in S : \A s \in S \ {x} : Less(s, x)
<1> DEFINE list == Sorted(S)
           top == list[Len(list)]
<1>1. /\ list \in Seq(S) /\ Len(list) \in Nat /\ list # <<>>
      /\ \A i, j \in 1 .. Len(list) : i < j <=> Less(list[i], list[j])
      /\ \A s \in S : \E i \in 1 .. Len(list) : list[i] = s
  BY SortedLists
<1> HIDE DEF list
<1>2. Len(list) \in 1 .. Len(list) /\ top \in S
  BY <1>1
<1>3. ASSUME NEW s \in S \ {top} PROVE Less(s, top)
  <2>1. PICK i \in 1 .. Len(list) : list[i] = s
    BY <1>1
  <2>2. i < Len(list)
    <3>1. i # Len(list)
      BY <2>1
    <3> QED
      BY <3>1, <1>2
  <2> QED
    BY <1>1, <1>2, <2>1, <2>2
<1> HIDE DEF top
<1>4. top = CHOOSE x \in S : \A s \in S \ {x} : Less(s, x)
  <2> DEFINE y == CHOOSE x \in S : \A s \in S \ {x} : Less(s, x)
  <2>1. y \in S /\ \A s \in S \ {y} : Less(s, y)
    BY <1>2, <1>3
  <2> HIDE DEF y
  <2>2. y = top
    BY <1>2, <1>3, <2>1, LessOrders
  <2> QED
    BY <2>2 DEF y
<1> QED
  BY <1>2, <1>3, <1>4 DEF top, list

\* The latest full snapshot comes after every other,
LEMMA TopFull ==
    ASSUME NEW S, Listable(S), Fulls(S) # {}
    PROVE  /\ LatestFull(S) \in Fulls(S)
           /\ \A g \in Fulls(S) \ {LatestFull(S)} : Less(g, LatestFull(S))
<1>1. Listable(Fulls(S))
  BY FS_Subset DEF Listable, Fulls
<1> DEFINE top == Sorted(Fulls(S))[Len(Sorted(Fulls(S)))]
<1>2. /\ top \in Fulls(S) /\ \A s \in Fulls(S) \ {top} : Less(s, top)
      /\ top = CHOOSE x \in Fulls(S) : \A s \in Fulls(S) \ {x} : Less(s, x)
  BY <1>1, LastOfSorted
<1> HIDE DEF top
<1>3. LatestFull(S) = top
  BY <1>2, Zenon DEF LatestFull
<1> QED
  BY <1>2, <1>3

\* and the delta snapshots after it are listed in order; the last of them, or the full
\* snapshot if there is none, is what a new Snapshotter continues from.
LEMMA TopDelta ==
    ASSUME NEW S, Listable(S), Fulls(S) # {}
    PROVE  LET list == DeltaList(S) IN
           /\ LatestDeltas(S) = {d \in S : d.kind = "Delta" /\ Less(LatestFull(S), d)}
           /\ list \in Seq(LatestDeltas(S)) /\ Len(list) \in Nat
           /\ DOMAIN list = 1 .. Len(list)
           /\ \A i, j \in 1 .. Len(list) : i < j <=> Less(list[i], list[j])
           /\ \A s \in LatestDeltas(S) : \E i \in 1 .. Len(list) : list[i] = s
           /\ list = <<>> <=> LatestDeltas(S) = {}
           /\ LatestDeltas(S) = {} => LatestSnapshot(S) = LatestFull(S)
           /\ LatestDeltas(S) # {} =>
                Len(list) \in 1 .. Len(list) /\ LatestSnapshot(S) = list[Len(list)]
<1> DEFINE D == LatestDeltas(S)
<1>1. D = {d \in S : d.kind = "Delta" /\ Less(LatestFull(S), d)}
  BY DEF LatestDeltas
<1>2. Listable(D)
  BY <1>1, FS_Subset DEF Listable
<1> HIDE DEF D
<1>3. D = {} => LatestSnapshot(S) = LatestFull(S)
  BY DEF LatestSnapshot, D
<1>4. ASSUME D # {}
      PROVE  LET list == Sorted(D)
             IN Len(list) \in 1 .. Len(list) /\ LatestSnapshot(S) = list[Len(list)]
  <2> DEFINE top == Sorted(D)[Len(Sorted(D))]
  <2>1. /\ Len(Sorted(D)) \in 1 .. Len(Sorted(D))
        /\ top = CHOOSE x \in D : \A s \in D \ {x} : Less(s, x)
    BY <1>2, <1>4, LastOfSorted
  <2> HIDE DEF top
  <2>2. LatestSnapshot(S) = top
    BY <1>4, <2>1, Zenon DEF LatestSnapshot, LastDelta, D
  <2> QED
    BY <2>1, <2>2 DEF top
<1>5. DeltaList(S) = Sorted(D)
  BY DEF DeltaList, D
<1> DEFINE list == Sorted(D)
<1>6. /\ list \in Seq(D) /\ Len(list) \in Nat /\ DOMAIN list = 1 .. Len(list)
      /\ \A i, j \in 1 .. Len(list) : i < j <=> Less(list[i], list[j])
      /\ \A s \in D : \E i \in 1 .. Len(list) : list[i] = s
      /\ list = <<>> <=> D = {}
  BY <1>2, SortedLists
<1>7. D # {} => Len(list) \in 1 .. Len(list) /\ LatestSnapshot(S) = list[Len(list)]
  BY <1>4
<1> HIDE DEF list
<1>8. DeltaList(S) = list
  BY <1>5 DEF list
<1> QED
  BY <1>1, <1>3, <1>6, <1>7, <1>8, Zenon DEF D

\* No snapshot claims a revision past that one's.
LEMMA LatestCovers ==
    ASSUME NEW S, Listable(S), Fulls(S) # {}
    PROVE  /\ LatestSnapshot(S) \in S /\ LatestSnapshot(S).last \in Nat
           /\ \A s \in S : s.last <= LatestSnapshot(S).last
           /\ LatestFull(S).last <= LatestSnapshot(S).last
<1> DEFINE top == LatestSnapshot(S)
           full == LatestFull(S)
           list == DeltaList(S)
           D == LatestDeltas(S)
<1>0. \A s \in S : s.last \in Nat /\ s.kind \in {"Full", "Delta"}
  BY DEF Listable, Snapshot
<1>1. full \in S /\ full.kind = "Full" /\ \A s \in S : s.kind = "Full" /\ s # full => Less(s, full)
  BY TopFull DEF Fulls
<1>2. /\ D = {d \in S : d.kind = "Delta" /\ Less(full, d)}
      /\ list \in Seq(D) /\ Len(list) \in Nat
      /\ \A i, j \in 1 .. Len(list) : i < j <=> Less(list[i], list[j])
      /\ \A s \in D : \E i \in 1 .. Len(list) : list[i] = s
      /\ D = {} => top = full
      /\ D # {} => Len(list) \in 1 .. Len(list) /\ top = list[Len(list)]
  BY TopDelta
<1> HIDE DEF top, full, list, D
<1>3. top \in S /\ (top = full \/ Less(full, top)) /\ \A d \in D : d = top \/ Less(d, top)
  <2>1. CASE D = {}
    BY <2>1, <1>1, <1>2
  <2>2. CASE D # {}
    <3>1. top \in D
      BY <2>2, <1>2
    <3>2. ASSUME NEW d \in D PROVE d = top \/ Less(d, top)
      <4>1. PICK i \in 1 .. Len(list) : list[i] = d
        BY <1>2
      <4>2. i = Len(list) \/ i < Len(list)
        BY <1>2
      <4>3. Len(list) \in 1 .. Len(list) /\ top = list[Len(list)]
        BY <2>2, <1>2
      <4>4. i < Len(list) => Less(list[i], list[Len(list)])
        BY <4>3, <1>2, Zenon
      <4> QED
        BY <4>1, <4>2, <4>3, <4>4, Zenon
    <3> QED
      BY <3>1, <3>2, <1>2
  <2> QED
    BY <2>1, <2>2
<1>4. \A s, t \in S : s = t \/ Less(s, t) => s.last <= t.last
  BY <1>0 DEF Less
<1>5. full.last <= top.last
  BY <1>1, <1>3, <1>4
<1>6. ASSUME NEW s \in S PROVE s.last <= top.last
  <2>1. s \in D \/ s = full \/ Less(s, full)
    BY <1>0, <1>1, <1>2, LessOrders
  <2>2. CASE s \in D
    BY <2>2, <1>3, <1>4
  <2>3. CASE s = full \/ Less(s, full)
    BY <2>3, <1>0, <1>1, <1>3, <1>4, <1>5
  <2> QED
    BY <2>1, <2>2, <2>3
<1> QED
  BY <1>0, <1>3, <1>5, <1>6 DEF top, full

(***************************************************************************)
(* What the restorer does with a list of delta snapshots.                  *)
(***************************************************************************)

\* What Replay defines.
Replays(db, base, list) ==
    db = [i \in 0 .. Len(list) |->
            IF i = 0 THEN base
            ELSE IF i = 1 THEN Then(base, Verified(ApplyFirst(base, list[1]), list[1]))
            ELSE ApplyNext(db[i - 1], list[i])]

\* The databases on the way exist,
LEMMA ReplayExists ==
    ASSUME NEW base, NEW list, Len(list) \in Nat
    PROVE  \E db : Replays(db, base, list)
<1> DEFINE first == Then(base, Verified(ApplyFirst(base, list[1]), list[1]))
           At(db, i) == IF i = 0 THEN base ELSE IF i = 1 THEN first ELSE ApplyNext(db[i - 1], list[i])
           H == {m \in 0 .. Len(list) : \E db : db = [i \in 0 .. m |-> At(db, i)]}
<1> HIDE DEF first
<1>1. 0 \in H
  <2> DEFINE db == [i \in 0 .. 0 |-> base]
  <2>1. db = [i \in 0 .. 0 |-> At(db, i)]
    OBVIOUS
  <2> HIDE DEF db, At
  <2>2. 0 \in 0 .. Len(list)
    OBVIOUS
  <2> QED
    BY <2>1, <2>2
<1>2. ASSUME NEW m \in 1 .. Len(list), m - 1 \in H PROVE m \in H
  <2>1. PICK db : db = [i \in 0 .. m - 1 |-> At(db, i)]
    BY <1>2
  <2> DEFINE next == [i \in 0 .. m |-> IF i = m THEN At(db, m) ELSE db[i]]
  <2>2. \A i \in 1 .. m : i - 1 \in 0 .. m /\ i - 1 # m /\ next[i - 1] = db[i - 1]
    OBVIOUS
  <2>3. ASSUME NEW i \in 0 .. m PROVE next[i] = At(next, i)
    <3>0. \A j \in 0 .. m - 1 : db[j] = At(db, j)
      BY <2>1, Zenon
    <3>1. next[i] = At(db, i)
      BY <3>0
    <3> HIDE DEF next
    <3>2. At(db, i) = At(next, i)
      BY <2>2
    <3> QED
      BY <3>1, <3>2
  <2>4. next = [i \in 0 .. m |-> next[i]]
    OBVIOUS
  <2> HIDE DEF next, At
  <2>5. next = [i \in 0 .. m |-> At(next, i)]
    BY <2>3, <2>4
  <2> QED
    BY <2>5
<1>3. H = 0 .. Len(list)
  <2> HIDE DEF At
  <2>1. H \subseteq 0 .. Len(list)
    OBVIOUS
  <2> HIDE DEF H
  <2> QED
    BY <1>1, <1>2, <2>1, UpToN
<1>4. Len(list) \in H
  BY <1>3
<1> QED
  BY <1>4, Zenon DEF first, Replays

\* and each comes from the one before it.
LEMMA ReplaySteps ==
    ASSUME NEW base, NEW list, Len(list) \in Nat
    PROVE  LET db == Replay(base, list) IN
           /\ db[0] = base
           /\ Len(list) >= 1 => db[1] = Then(base, Verified(ApplyFirst(base, list[1]), list[1]))
           /\ \A i \in 2 .. Len(list) : db[i] = ApplyNext(db[i - 1], list[i])
<1>0. \E db : Replays(db, base, list)
  BY ReplayExists
<1> DEFINE db == Replay(base, list)
<1>1. Replays(db, base, list)
  BY <1>0, Zenon DEF Replay, Replays
<1> HIDE DEF db
<1>2. \A i \in 0 .. Len(list) : db[i] =
             IF i = 0 THEN base
             ELSE IF i = 1 THEN Then(base, Verified(ApplyFirst(base, list[1]), list[1]))
             ELSE ApplyNext(db[i - 1], list[i])
  BY <1>1, Zenon DEF Replays
<1>3. db[0] = base
  BY <1>2
<1>4. Len(list) >= 1 => db[1] = Then(base, Verified(ApplyFirst(base, list[1]), list[1]))
  BY <1>2
<1>5. \A i \in 2 .. Len(list) : db[i] = ApplyNext(db[i - 1], list[i])
  BY <1>2
<1> QED
  BY <1>3, <1>4, <1>5 DEF db

\* The indices up to k at which a list of events goes up.
Ups(evs, k) == {i \in 2 .. k : evs[i] > evs[i - 1]}

\* Runs of successive revisions that all start at first.
Restarts(evs, first) ==
    /\ \A i \in 1 .. Len(evs) : first <= evs[i]
    /\ \A i \in 2 .. Len(evs) : evs[i] = evs[i - 1] + 1 \/ evs[i] = first

\* One event more.
LEMMA UpsNext ==
    ASSUME NEW evs \in Seq(Nat), NEW k \in Nat, k >= 1, IsFiniteSet(Ups(evs, k))
    PROVE  /\ IsFiniteSet(Ups(evs, k + 1)) /\ Cardinality(Ups(evs, k)) \in Nat
           /\ Cardinality(Ups(evs, k + 1)) =
                IF evs[k + 1] > evs[k] THEN Cardinality(Ups(evs, k)) + 1 ELSE Cardinality(Ups(evs, k))
<1>1. Cardinality(Ups(evs, k)) \in Nat /\ k + 1 \notin Ups(evs, k)
  BY FS_CardinalityType DEF Ups
<1>2. \A i : i \in 2 .. k + 1 <=> i \in 2 .. k \/ i = k + 1
  OBVIOUS
<1>3. (k + 1) - 1 = k
  OBVIOUS
<1>4. CASE evs[k + 1] > evs[k]
  <2>1. Ups(evs, k + 1) = Ups(evs, k) \cup {k + 1}
    BY <1>2, <1>3, <1>4, Zenon DEF Ups
  <2> QED
    BY <1>1, <1>4, <2>1, FS_AddElement
<1>5. CASE ~(evs[k + 1] > evs[k])
  <2>1. Ups(evs, k + 1) = Ups(evs, k)
    BY <1>2, <1>3, <1>5, Zenon DEF Ups
  <2> QED
    BY <1>1, <1>5, <2>1
<1> QED
  BY <1>4, <1>5

\* Events that start over go up more often than their last revision shows, so the
\* revision that is verified after each delta snapshot gives them away.
LEMMA UpsCount ==
    ASSUME NEW evs \in Seq(Nat), NEW first \in Nat, evs # <<>>, Restarts(evs, first),
           \A i \in 2 .. Len(evs) : evs[i] # evs[i - 1]
    PROVE  LET n == Len(evs)
               ups == Cardinality(Ups(evs, n))
           IN /\ ups \in Nat /\ evs[n] <= evs[1] + ups
              /\ evs[n] = evs[1] + ups => \A j \in 1 .. n : evs[j] = evs[1] + j - 1
<1> DEFINE c(k) == Cardinality(Ups(evs, k))
           P(k) == /\ IsFiniteSet(Ups(evs, k)) /\ c(k) \in Nat /\ evs[k] <= evs[1] + c(k)
                   /\ evs[k] = evs[1] + c(k) => \A j \in 1 .. k : evs[j] = evs[1] + j - 1
           m == Len(evs) - 1
           H == {k \in 0 .. m : P(k + 1)}
<1>0. m \in Nat /\ Len(evs) = m + 1 /\ \A i \in 1 .. Len(evs) : evs[i] \in Nat
  OBVIOUS
<1>1. P(1)
  <2>1. Ups(evs, 1) = {}
    BY DEF Ups
  <2>2. IsFiniteSet(Ups(evs, 1)) /\ c(1) = 0
    BY <2>1, FS_EmptySet
  <2> HIDE DEF c
  <2> QED
    BY <2>2, <1>0
<1>2. ASSUME NEW k \in 1 .. m, P(k) PROVE P(k + 1)
  <2>0. /\ k \in Nat /\ k >= 1 /\ k \in 1 .. Len(evs) /\ k + 1 \in 2 .. Len(evs)
        /\ k + 1 \in 1 .. Len(evs) /\ 1 \in 1 .. Len(evs) /\ (k + 1) - 1 = k
    BY <1>0
  <2>1. evs[1] \in Nat /\ evs[k] \in Nat /\ evs[k + 1] \in Nat
    BY <1>0, <2>0
  <2>2. /\ evs[k + 1] # evs[k] /\ first <= evs[k]
        /\ evs[k + 1] = evs[k] + 1 \/ evs[k + 1] = first
    BY <2>0, Zenon DEF Restarts
  <2>3. /\ IsFiniteSet(Ups(evs, k)) /\ c(k) \in Nat /\ evs[k] <= evs[1] + c(k)
        /\ evs[k] = evs[1] + c(k) => \A j \in 1 .. k : evs[j] = evs[1] + j - 1
    BY <1>2
  <2>4. /\ IsFiniteSet(Ups(evs, k + 1))
        /\ c(k + 1) = IF evs[k + 1] > evs[k] THEN c(k) + 1 ELSE c(k)
    BY <2>0, <2>3, UpsNext
  <2> HIDE DEF c
  <2>5. /\ c(k + 1) \in Nat /\ evs[k + 1] <= evs[1] + c(k + 1)
        /\ evs[k + 1] = evs[1] + c(k + 1) => evs[k] = evs[1] + c(k) /\ evs[k + 1] = evs[k] + 1
    <3> DEFINE a == evs[1]
               x == evs[k]
               y == evs[k + 1]
               u == c(k)
               w == c(k + 1)
    <3>1. /\ a \in Nat /\ x \in Nat /\ y \in Nat /\ y # x /\ first <= x /\ (y = x + 1 \/ y = first)
          /\ u \in Nat /\ x <= a + u /\ w = IF y > x THEN u + 1 ELSE u
      BY <2>1, <2>2, <2>3, <2>4
    <3> HIDE DEF a, x, y, u, w
    <3>2. /\ w \in Nat /\ y <= a + w
          /\ y = a + w => x = a + u /\ y = x + 1
      BY <3>1
    <3> QED
      BY <3>2 DEF a, x, y, u, w
  <2>6. ASSUME evs[k + 1] = evs[1] + c(k + 1), NEW j \in 1 .. k + 1
        PROVE  evs[j] = evs[1] + j - 1
    <3>1. /\ \A i \in 1 .. k : evs[i] = evs[1] + i - 1
          /\ evs[k + 1] = evs[k] + 1
      BY <2>3, <2>5, <2>6
    <3>2. k \in 1 .. k
      BY <2>0
    <3>3. CASE j \in 1 .. k
      BY <3>1, <3>3
    <3>4. CASE j = k + 1
      <4>1. evs[j] = (evs[1] + k - 1) + 1
        BY <3>1, <3>2, <3>4
      <4> QED
        BY <2>0, <2>1, <3>4, <4>1
    <3> QED
      BY <2>0, <3>3, <3>4
  <2> QED
    BY <2>4, <2>5, <2>6
<1> HIDE DEF c, P
<1>3. H = 0 .. m
  <2> HIDE DEF m
  <2>1. H \subseteq 0 .. m /\ 0 \in H
    BY <1>0, <1>1
  <2>2. ASSUME NEW i \in 1 .. m, i - 1 \in H PROVE i \in H
    <3>1. P(i)
      BY <2>2, <1>0
    <3> QED
      BY <3>1, <1>0, <1>2
  <2> HIDE DEF H
  <2> QED
    BY <2>1, <2>2, <1>0, UpToN
<1>4. P(Len(evs))
  <2> HIDE DEF m, H
  <2>1. m \in H
    BY <1>0, <1>3
  <2>2. P(m + 1)
    BY <2>1 DEF H
  <2> QED
    BY <2>2, <1>0
<1> QED
  BY <1>4 DEF P, c

\* The history up to r and the events after it.
LEMMA UpToConcat ==
    ASSUME NEW r \in Nat, NEW evs \in Seq(Nat), \A j \in 1 .. Len(evs) : evs[j] = r + j
    PROVE  UpTo(r) \o evs = UpTo(r + Len(evs))
<1>1. UpTo(r) \in Seq(Nat) /\ Len(UpTo(r)) = r /\ \A j \in 1 .. r : UpTo(r)[j] = j
  BY DEF UpTo
<1>2. Len(evs) \in Nat
  OBVIOUS
<1> DEFINE whole == UpTo(r) \o evs
<1>3. whole \in Seq(Nat) /\ Len(whole) = r + Len(evs)
  <2> DEFINE u == UpTo(r)
  <2>1. u \in Seq(Nat) /\ Len(u) = r
    BY <1>1
  <2> HIDE DEF u
  <2>2. u \o evs \in Seq(Nat) /\ Len(u \o evs) = r + Len(evs)
    BY <2>1
  <2> QED
    BY <2>2 DEF u
<1>4. ASSUME NEW j \in 1 .. r + Len(evs) PROVE whole[j] = j
  <2>1. CASE j \in 1 .. r
    BY <2>1, <1>1
  <2>2. CASE j \notin 1 .. r
    <3>1. j - r \in 1 .. Len(evs) /\ r + (j - r) = j
      BY <2>2, <1>2
    <3>2. whole[j] = evs[j - r]
      <4> DEFINE u == UpTo(r)
      <4>1. u \in Seq(Nat) /\ Len(u) = r
        BY <1>1
      <4> HIDE DEF u
      <4>2. (u \o evs)[j] = evs[j - r]
        BY <4>1, <2>2, <1>2
      <4> QED
        BY <4>2 DEF u
    <3>3. evs[j - r] = r + (j - r)
      BY <3>1
    <3> QED
      BY <3>1, <3>2, <3>3
  <2> QED
    BY <2>1, <2>2
<1> HIDE DEF whole
<1>5. whole = [j \in 1 .. r + Len(evs) |-> j]
  BY <1>2, <1>3, <1>4
<1> QED
  BY <1>5 DEF whole, UpTo

\* A database with the whole history up to its revision.
Complete(db) == db.rev \in Nat /\ db.hist = UpTo(db.rev)

\* Events that start no later than after the database's revision are exactly the ones
\* it lacks, if they bring it to the last of them.
LEMMA ApplySound ==
    ASSUME NEW db, Complete(db), NEW evs \in Seq(Nat), evs # <<>>,
           NEW first \in Nat, Restarts(evs, first), evs[1] <= db.rev + 1,
           ApplyEvents(db, evs).rev = evs[Len(evs)]
    PROVE  Complete(ApplyEvents(db, evs))
<1> DEFINE n == Len(evs)
           ups == Cardinality(Ups(evs, n))
<1>0. n \in Nat /\ n >= 1 /\ n \in 1 .. n /\ 1 \in 1 .. n /\ \A i \in 1 .. n : evs[i] \in Nat
  OBVIOUS
<1>1. ~\E i \in 2 .. n : evs[i] = evs[i - 1]
  <2> SUFFICES ASSUME \E i \in 2 .. n : evs[i] = evs[i - 1] PROVE FALSE
    OBVIOUS
  <2>1. ApplyEvents(db, evs) = Failed
    BY DEF ApplyEvents
  <2>2. ApplyEvents(db, evs).rev = -1
    BY <2>1 DEF Failed
  <2>3. evs[n] \in Nat /\ evs[n] = -1
    BY <1>0, <2>2, Zenon
  <2> QED
    BY <2>3
<1>2. ApplyEvents(db, evs) = [rev |-> db.rev + 1 + ups, hist |-> db.hist \o evs]
  BY <1>1 DEF ApplyEvents, Ups
<1>3. /\ ups \in Nat /\ evs[n] <= evs[1] + ups
      /\ evs[n] = evs[1] + ups => \A j \in 1 .. n : evs[j] = evs[1] + j - 1
  BY <1>1, UpsCount
<1> HIDE DEF ups
<1>4. evs[n] = db.rev + 1 + ups
  BY <1>2
<1>5. evs[1] \in Nat /\ evs[n] \in Nat /\ db.rev \in Nat
  BY <1>0 DEF Complete
<1>6. evs[1] = db.rev + 1 /\ evs[n] = evs[1] + ups
  <2> DEFINE a == evs[1]
             z == evs[n]
             r == db.rev
  <2>1. a \in Nat /\ z \in Nat /\ r \in Nat /\ z = r + 1 + ups /\ z <= a + ups /\ a <= r + 1 /\ ups \in Nat
    BY <1>3, <1>4, <1>5
  <2> HIDE DEF a, z, r
  <2>2. a = r + 1 /\ z = a + ups
    BY <2>1
  <2> QED
    BY <2>2 DEF a, z, r
<1>7. ASSUME NEW j \in 1 .. n PROVE evs[j] = db.rev + j
  <2>1. evs[j] = evs[1] + j - 1
    BY <1>3, <1>6
  <2> QED
    BY <2>1, <1>0, <1>5, <1>6
<1>8. db.hist \o evs = UpTo(db.rev + n)
  BY <1>5, <1>7, UpToConcat DEF Complete
<1>9. evs[n] = db.rev + n
  BY <1>0, <1>7
<1>10. ApplyEvents(db, evs).rev = db.rev + n /\ ApplyEvents(db, evs).hist = UpTo(db.rev + n)
  BY <1>2, <1>4, <1>8, <1>9
<1> QED
  BY <1>0, <1>5, <1>10 DEF Complete

\* Exactly the events it lacks bring a database to the last of them.
LEMMA ApplyWorks ==
    ASSUME NEW db, db.rev \in Nat, NEW evs \in Seq(Nat), evs # <<>>,
           \A j \in 1 .. Len(evs) : evs[j] = db.rev + j
    PROVE  /\ ApplyEvents(db, evs).rev = evs[Len(evs)]
           /\ ApplyEvents(db, evs) # Failed
<1> DEFINE n == Len(evs)
           commits == {i \in 2 .. n : evs[i] > evs[i - 1]}
<1>0. n \in Nat /\ n >= 1 /\ n \in 1 .. n
  OBVIOUS
<1>1. ASSUME NEW i \in 2 .. n PROVE evs[i] = evs[i - 1] + 1 /\ evs[i] > evs[i - 1] /\ evs[i] # evs[i - 1]
  <2>1. i \in 1 .. n /\ i - 1 \in 1 .. n
    BY <1>0
  <2> DEFINE r == db.rev
             x == evs[i]
             y == evs[i - 1]
  <2>2. x = r + i /\ y = r + (i - 1) /\ r \in Nat
    BY <2>1
  <2> HIDE DEF r, x, y
  <2>3. x = y + 1 /\ x > y /\ x # y
    BY <2>2
  <2> QED
    BY <2>3 DEF x, y
<1>2. commits = 2 .. n
  BY <1>1
<1>3. Cardinality(2 .. n) = n - 1
  BY <1>0, FS_Interval
<1>4. ApplyEvents(db, evs) = [rev |-> db.rev + 1 + Cardinality(commits), hist |-> db.hist \o evs]
  BY <1>1 DEF ApplyEvents
<1> HIDE DEF commits
<1>5. ApplyEvents(db, evs).rev = db.rev + 1 + (n - 1)
  BY <1>2, <1>3, <1>4
<1>6. evs[n] = db.rev + n
  BY <1>0
<1>7. ApplyEvents(db, evs).rev = evs[n] /\ ApplyEvents(db, evs).rev >= 0
  BY <1>0, <1>5, <1>6
<1> QED
  BY <1>7 DEF Failed

\* A delta snapshot that was not cut short holds events from its first to its last
\* revision, which may start over in between.
HoldsEvents(d) ==
    d.events # <<>> =>
      /\ Restarts(d.events, d.start)
      /\ d.events[1] = d.start /\ d.events[Len(d.events)] = d.last

\* What ApplyNext makes of a complete database, without an error, is complete.
LEMMA NextSound ==
    ASSUME NEW db, Complete(db), NEW d \in Snapshot, HoldsEvents(d), d.start <= db.rev + 1,
           ApplyNext(db, d) # Failed
    PROVE  Complete(ApplyNext(db, d)) /\ ApplyNext(db, d).rev = d.last
<1> DEFINE out == ApplyEvents(db, d.events)
<1>1. ApplyNext(db, d) = Verified(out, d) /\ d.events # <<>>
  BY DEF ApplyNext, Then, Readable
<1>2. ApplyNext(db, d) = out /\ out.rev = d.last
  BY <1>1 DEF Verified
<1>3. d.events \in Seq(Nat) /\ d.start \in Nat
  BY DEF Snapshot
<1>4. /\ Restarts(d.events, d.start) /\ d.events[1] <= db.rev + 1
      /\ out.rev = d.events[Len(d.events)]
  BY <1>1, <1>2 DEF HoldsEvents
<1>5. Complete(out)
  BY <1>1, <1>3, <1>4, ApplySound
<1> QED
  BY <1>2, <1>5

\* The indices of the events past revision r.
Past(evs, r) == {i \in DOMAIN evs : evs[i] > r}

\* The events from the first one past revision r on.
LEMMA FirstPast ==
    ASSUME NEW evs \in Seq(Nat), NEW r \in Nat, NEW first \in Nat,
           Restarts(evs, first), evs[1] = first, first <= r + 1,
           Past(evs, r) # {}
    PROVE  LET from == Min(Past(evs, r))
               sub == SubSeq(evs, from, Len(evs))
           IN /\ from \in 1 .. Len(evs)
              /\ sub \in Seq(Nat) /\ sub # <<>> /\ Len(sub) = Len(evs) - from + 1
              /\ \A j \in 1 .. Len(sub) : sub[j] = evs[from + j - 1]
              /\ sub[1] = r + 1 /\ sub[Len(sub)] = evs[Len(evs)]
              /\ Restarts(sub, first)
<1> DEFINE new == Past(evs, r)
           from == Min(new)
           n == Len(evs)
           sub == SubSeq(evs, from, n)
<1>0. n \in Nat /\ DOMAIN evs = 1 .. n /\ \A i \in 1 .. n : evs[i] \in Nat
  OBVIOUS
<1>1. from \in new /\ \A y \in new : from <= y
  <2>1. new \subseteq Nat
    BY <1>0 DEF Past
  <2>2. \E x \in new : \A y \in new : x <= y
    BY <2>1, NatMin
  <2> QED
    BY <2>2, Zenon DEF Min
<1>2. from \in 1 .. n /\ evs[from] > r
  BY <1>0, <1>1 DEF Past
<1> HIDE DEF from
<1>3. sub \in Seq(Nat) /\ Len(sub) = n - from + 1 /\ \A j \in 1 .. Len(sub) : sub[j] = evs[from + j - 1]
  BY <1>0, <1>2
<1> HIDE DEF sub, n
<1>4. Len(sub) \in Nat /\ Len(sub) >= 1 /\ Len(sub) \in 1 .. Len(sub) /\ 1 \in 1 .. Len(sub)
  BY <1>0, <1>2, <1>3
<1>5. sub[Len(sub)] = evs[n] /\ sub[1] = evs[from]
  <2>1. from + Len(sub) - 1 = n /\ from + 1 - 1 = from
    BY <1>0, <1>2, <1>3
  <2> QED
    BY <1>3, <1>4, <2>1
<1>6. evs[from] = r + 1
  <2>1. CASE from = 1
    BY <2>1, <1>2
  <2>2. CASE from # 1
    <3>1. from \in 2 .. n /\ from - 1 \in 1 .. n /\ from - 1 < from
      BY <1>0, <1>2, <2>2
    <3>2. ~(evs[from - 1] > r)
      <4>1. from - 1 \notin new
        BY <1>1, <1>2, <3>1
      <4> QED
        BY <4>1, <3>1, <1>0, Zenon DEF Past
    <3>3. evs[from] = evs[from - 1] + 1 \/ evs[from] = first
      BY <3>1 DEF Restarts, n
    <3> DEFINE x == evs[from - 1]
               y == evs[from]
    <3>4. x \in Nat /\ y \in Nat /\ ~(x > r) /\ y > r /\ (y = x + 1 \/ y = first)
      BY <1>0, <1>2, <3>1, <3>2, <3>3
    <3> HIDE DEF x, y
    <3>5. y = r + 1
      BY <3>4
    <3> QED
      BY <3>5 DEF y
  <2> QED
    BY <2>1, <2>2
<1>7. Restarts(sub, first)
  <2>1. ASSUME NEW j \in 1 .. Len(sub) PROVE first <= sub[j]
    <3>1. from + j - 1 \in 1 .. n
      BY <1>0, <1>2, <1>3
    <3> QED
      BY <1>3, <3>1 DEF Restarts, n
  <2>2. ASSUME NEW j \in 2 .. Len(sub) PROVE sub[j] = sub[j - 1] + 1 \/ sub[j] = first
    <3>1. /\ from + j - 1 \in 2 .. n /\ j \in 1 .. Len(sub) /\ j - 1 \in 1 .. Len(sub)
          /\ from + (j - 1) - 1 = (from + j - 1) - 1
      BY <1>0, <1>2, <1>3
    <3>2. sub[j] = evs[from + j - 1] /\ sub[j - 1] = evs[(from + j - 1) - 1]
      BY <1>3, <3>1
    <3> QED
      BY <3>1, <3>2, Zenon DEF Restarts, n
  <2> QED
    BY <2>1, <2>2 DEF Restarts
<1>8. sub # <<>> /\ sub[1] = r + 1
  BY <1>4, <1>5, <1>6
<1> QED
  BY <1>2, <1>3, <1>5, <1>7, <1>8, Zenon DEF from, sub, n

\* The same for the first delta snapshot.
LEMMA FirstSound ==
    ASSUME NEW db, Complete(db), NEW d \in Snapshot, HoldsEvents(d), d.start <= db.rev + 1,
           Verified(ApplyFirst(db, d), d) # Failed
    PROVE  LET out == Verified(ApplyFirst(db, d), d) IN Complete(out) /\ out.rev = d.last
<1> DEFINE out == ApplyFirst(db, d)
           evs == d.events
           new == Past(evs, db.rev)
           from == IF new = {} THEN 1 ELSE Min(new)
<1>1. Verified(out, d) = out /\ out.rev = d.last
  BY DEF Verified
<1>2. evs # <<>>
  <2> SUFFICES ASSUME evs = <<>> PROVE FALSE
    OBVIOUS
  <2>1. out = Failed
    BY DEF ApplyFirst, Readable
  <2> QED
    BY <1>1, <2>1
<1>3. evs \in Seq(Nat) /\ d.start \in Nat /\ db.rev \in Nat /\ d.last \in Nat /\ Len(evs) \in 1 .. Len(evs)
  BY <1>2 DEF Snapshot, Complete
<1>4. Restarts(evs, d.start) /\ evs[1] = d.start /\ evs[Len(evs)] = d.last
  BY <1>2 DEF HoldsEvents
<1>5. CASE db.rev = d.last
  <2>1. out = db
    BY <1>2, <1>5 DEF ApplyFirst, Readable
  <2> QED
    BY <2>1, <1>1
<1>6. CASE db.rev # d.last
  <2>1. out = ApplyEvents(db, SubSeq(evs, from, Len(evs)))
    BY <1>2, <1>6 DEF ApplyFirst, Readable, Past
  <2>2. new # {}
    <3> SUFFICES ASSUME new = {} PROVE FALSE
      OBVIOUS
    <3>1. SubSeq(evs, 1, Len(evs)) = evs
      BY <1>3
    <3>2. out = ApplyEvents(db, evs)
      BY <2>1, <3>1
    <3>3. ~(d.last > db.rev)
      BY <1>3, <1>4 DEF Past
    <3>4. out # Failed
      BY <1>1
    <3> DEFINE commits == {i \in 2 .. Len(evs) : evs[i] > evs[i - 1]}
    <3>5. out = [rev |-> db.rev + 1 + Cardinality(commits), hist |-> db.hist \o evs]
      BY <3>2, <3>4 DEF ApplyEvents
    <3>6. Cardinality(commits) \in Nat
      <4>1. IsFiniteSet(2 .. Len(evs))
        BY <1>3, FS_Interval
      <4>2. commits \in SUBSET (2 .. Len(evs))
        OBVIOUS
      <4> HIDE DEF commits
      <4> QED
        BY <4>1, <4>2, FS_Subset, FS_CardinalityType
    <3> HIDE DEF commits
    <3>7. d.last = db.rev + 1 + Cardinality(commits)
      BY <1>1, <3>5
    <3> QED
      BY <1>3, <3>3, <3>6, <3>7
  <2>3. from = Min(new)
    BY <2>2
  <2> DEFINE sub == SubSeq(evs, Min(new), Len(evs))
  <2>4. /\ sub \in Seq(Nat) /\ sub # <<>> /\ sub[1] = db.rev + 1 /\ sub[Len(sub)] = d.last
        /\ Restarts(sub, d.start)
    BY <1>3, <1>4, <2>2, FirstPast
  <2> HIDE DEF sub
  <2>5. out = ApplyEvents(db, sub)
    BY <2>1, <2>3 DEF sub
  <2>6. Complete(ApplyEvents(db, sub))
    BY <1>1, <1>3, <2>4, <2>5, ApplySound
  <2> QED
    BY <1>1, <2>5, <2>6
<1> QED
  BY <1>5, <1>6

(***************************************************************************)
(* What a restoration makes of a store.                                    *)
(***************************************************************************)

\* What two sidecars, failing saves and the compactor keep of the store: a full snapshot
\* that was not cut short holds the revision of its name, a delta snapshot starts after
\* a snapshot of the store.
WellSaved(S) ==
    /\ Listable(S)
    /\ \A f \in S : f.kind = "Full" => f.db = 0 \/ f.last <= f.db
    /\ \A d \in S : d.kind = "Delta" =>
         d.start <= d.last /\ HoldsEvents(d) /\ \E p \in S : p.last + 1 = d.start

\* In the list of a restoration no delta snapshot starts past the one before it.
LEMMA NoGap ==
    ASSUME NEW S, WellSaved(S), Fulls(S) # {}
    PROVE  LET list == DeltaList(S)
               full == LatestFull(S)
           IN /\ full \in S /\ full.kind = "Full"
              /\ \A i \in 1 .. Len(list) :
                   /\ list[i] \in S /\ list[i] \in Snapshot /\ HoldsEvents(list[i])
                   /\ list[i].start \in Nat /\ list[i].start >= 1 /\ list[i].start <= list[i].last
                   /\ Less(full, list[i])
              /\ Len(list) >= 1 => list[1].start <= full.last + 1
              /\ \A i \in 2 .. Len(list) : list[i].start <= list[i - 1].last + 1
<1> DEFINE list == DeltaList(S)
           full == LatestFull(S)
           D == LatestDeltas(S)
<1>0. Listable(S) /\ \A s \in S : s \in Snapshot /\ s.last \in Nat /\ s.start \in Nat /\ s.kind \in {"Full", "Delta"}
  BY DEF WellSaved, Listable, Snapshot
<1>1. full \in S /\ full.kind = "Full" /\ \A s \in S : s.kind = "Full" /\ s # full => Less(s, full)
  BY <1>0, TopFull DEF Fulls
<1>2. /\ D = {d \in S : d.kind = "Delta" /\ Less(full, d)}
      /\ list \in Seq(D) /\ Len(list) \in Nat
      /\ \A i, j \in 1 .. Len(list) : i < j <=> Less(list[i], list[j])
      /\ \A s \in D : \E i \in 1 .. Len(list) : list[i] = s
  BY <1>0, TopDelta
<1> HIDE DEF full, list, D
<1>3. ASSUME NEW i \in 1 .. Len(list)
      PROVE  list[i] \in S /\ list[i].kind = "Delta" /\ Less(full, list[i])
  BY <1>2
<1>4. ASSUME NEW i \in 1 .. Len(list)
      PROVE  /\ list[i] \in Snapshot /\ HoldsEvents(list[i])
             /\ list[i].start \in Nat /\ list[i].start <= list[i].last
             /\ \E p \in S : p.last + 1 = list[i].start
  BY <1>0, <1>3 DEF WellSaved
<1>5. \A i \in 1 .. Len(list) : list[i].start >= 1
  BY <1>0, <1>4
<1>6. ASSUME NEW i \in 1 .. Len(list), NEW q \in S,
             IF i = 1 THEN q = full ELSE q = list[i - 1]
      PROVE  list[i].start <= q.last + 1
  <2>1. PICK p \in S : p.last + 1 = list[i].start
    BY <1>4
  <2>2. /\ p.last \in Nat /\ q.last \in Nat /\ list[i].last \in Nat /\ list[i].start <= list[i].last
        /\ list[i] \in S
    BY <1>0, <1>3, <1>4
  <2> SUFFICES ASSUME p.last > q.last PROVE FALSE
    BY <2>1, <2>2
  <2>3. Less(q, p) /\ Less(p, list[i])
    BY <2>1, <2>2 DEF Less
  <2>4. q = full \/ Less(full, q)
    <3>1. i # 1 => i - 1 \in 1 .. Len(list)
      BY <1>2
    <3> QED
      BY <1>3, <1>6, <3>1
  <2>5. Less(full, p)
    BY <1>0, <1>1, <2>3, <2>4, LessOrders
  <2>6. p \in D
    BY <1>0, <1>1, <1>2, <2>5, LessOrders
  <2>7. PICK j \in 1 .. Len(list) : list[j] = p
    BY <1>2, <2>6
  <2>8. j < i
    BY <1>2, <2>3, <2>7
  <2>9. i # 1 /\ i - 1 \in 1 .. Len(list) /\ q = list[i - 1]
    BY <1>2, <1>6, <2>8
  <2>10. i - 1 < j
    BY <1>2, <2>3, <2>7, <2>9
  <2> QED
    BY <1>2, <2>8, <2>10
<1>7. Len(list) >= 1 => list[1].start <= full.last + 1
  <2>1. Len(list) >= 1 => 1 \in 1 .. Len(list)
    BY <1>2
  <2> QED
    BY <1>1, <1>6, <2>1
<1>8. ASSUME NEW i \in 2 .. Len(list) PROVE list[i].start <= list[i - 1].last + 1
  <2>1. i \in 1 .. Len(list) /\ i - 1 \in 1 .. Len(list) /\ i # 1
    BY <1>2
  <2> QED
    BY <1>3, <1>6, <2>1
<1> QED
  BY <1>1, <1>3, <1>4, <1>5, <1>7, <1>8 DEF list, full

\* The base, if it was not cut short, is complete.
LEMMA BaseSound ==
    ASSUME NEW full \in Snapshot, RestoreBase(full) # Failed
    PROVE  Complete(RestoreBase(full)) /\ RestoreBase(full).rev = full.db /\ full.db # 0
BY DEF RestoreBase, Complete, Snapshot

\* A failure ends the restoration,
LEMMA FailureStays ==
    ASSUME NEW d PROVE ApplyNext(Failed, d) = Failed
BY DEF ApplyNext, Then

\* so a restoration that returns without error has restored all events up to the last
\* revision of the list.
LEMMA RestoreIsSound ==
    ASSUME NEW S, WellSaved(S), Fulls(S) # {}, Restore(S) # Failed
    PROVE  Complete(Restore(S)) /\ Restore(S).rev >= CoveredRevision(S)
<1> DEFINE list == DeltaList(S)
           full == LatestFull(S)
           base == RestoreBase(full)
           n == Len(list)
           db == Replay(base, list)
           H == {i \in 0 .. n : db[i] # Failed =>
                   Complete(db[i]) /\ db[i].rev = IF i = 0 THEN full.db ELSE list[i].last}
<1>0. Listable(S)
  BY DEF WellSaved
<1>1. /\ full \in S /\ full.kind = "Full"
      /\ \A i \in 1 .. n : list[i] \in Snapshot /\ HoldsEvents(list[i])
      /\ n >= 1 => list[1].start <= full.last + 1
      /\ \A i \in 2 .. n : list[i].start <= list[i - 1].last + 1
  BY NoGap
<1>2. /\ n \in Nat /\ (list = <<>> <=> LatestDeltas(S) = {}) /\ list \in Seq(LatestDeltas(S))
      /\ LatestDeltas(S) = {} => LatestSnapshot(S) = full
      /\ LatestDeltas(S) # {} => n \in 1 .. n /\ LatestSnapshot(S) = list[n]
  BY <1>0, TopDelta
<1> HIDE DEF list, n
<1>3. /\ db[0] = base
      /\ n >= 1 => db[1] = Then(base, Verified(ApplyFirst(base, list[1]), list[1]))
      /\ \A i \in 2 .. n : db[i] = ApplyNext(db[i - 1], list[i])
  BY <1>2, ReplaySteps DEF n
<1>4. Restore(S) = db[n]
  BY DEF Restore, list, n
<1> HIDE DEF db
<1>5. full \in Snapshot /\ full.last \in Nat /\ full.db \in Nat /\ (full.db = 0 \/ full.last <= full.db)
  BY <1>1 DEF WellSaved, Listable, Snapshot
<1> HIDE DEF full
<1>6. 0 \in H
  BY <1>2, <1>3, <1>5, BaseSound
<1>7. ASSUME NEW i \in 1 .. n, i - 1 \in H PROVE i \in H
  <2> SUFFICES ASSUME db[i] # Failed PROVE Complete(db[i]) /\ db[i].rev = list[i].last
    BY <1>2
  <2>1. CASE i = 1
    <3>1. base # Failed /\ db[1] = Verified(ApplyFirst(base, list[1]), list[1])
      BY <1>2, <1>3, <2>1 DEF Then
    <3>2. Complete(base) /\ base.rev = full.db /\ full.db # 0
      BY <1>5, <3>1, BaseSound
    <3>3. list[1] \in Snapshot /\ HoldsEvents(list[1]) /\ list[1].start <= full.last + 1
      BY <1>1, <1>2, <2>1
    <3>4. list[1].start <= base.rev + 1
      <4>1. list[1].start \in Nat
        BY <3>3 DEF Snapshot
      <4> QED
        BY <1>5, <3>2, <3>3, <4>1
    <3> HIDE DEF base
    <3> QED
      BY <2>1, <3>1, <3>2, <3>3, <3>4, FirstSound
  <2>2. CASE i # 1
    <3>1. i \in 2 .. n /\ i - 1 # 0
      BY <1>2, <2>2
    <3>2. db[i] = ApplyNext(db[i - 1], list[i])
      BY <1>3, <3>1
    <3>3. db[i - 1] # Failed
      BY <3>2, FailureStays
    <3>4. Complete(db[i - 1]) /\ db[i - 1].rev = list[i - 1].last
      BY <1>7, <3>1, <3>3
    <3>5. list[i] \in Snapshot /\ HoldsEvents(list[i]) /\ list[i].start <= db[i - 1].rev + 1
      BY <1>1, <3>1, <3>4
    <3> QED
      BY <3>2, <3>4, <3>5, NextSound
  <2> QED
    BY <2>1, <2>2
<1>8. H = 0 .. n
  <2>1. H \subseteq 0 .. n
    OBVIOUS
  <2> HIDE DEF H
  <2> QED
    BY <1>2, <1>6, <1>7, <2>1, UpToN
<1>9. Complete(db[n]) /\ db[n].rev = IF n = 0 THEN full.db ELSE list[n].last
  BY <1>2, <1>4, <1>8
<1>10. db[n].rev >= CoveredRevision(S)
  <2>1. CASE n = 0
    <3>1. LatestSnapshot(S) = full
      BY <1>2, <2>1 DEF n
    <3>2. full.db # 0
      BY <1>3, <1>4, <1>5, <2>1, BaseSound
    <3> QED
      BY <1>5, <1>9, <2>1, <3>1, <3>2 DEF CoveredRevision
  <2>2. CASE n # 0
    <3>1. LatestSnapshot(S) = list[n] /\ n \in 1 .. n
      BY <1>2, <2>2 DEF n
    <3>2. list[n].last \in Nat
      BY <1>1, <3>1 DEF Snapshot
    <3> QED
      BY <1>9, <2>2, <3>1, <3>2 DEF CoveredRevision
  <2> QED
    BY <2>1, <2>2
<1> QED
  BY <1>4, <1>9, <1>10

\* Where a restoration ends: at the revision of a snapshot it used.
LEMMA RestoreEnds ==
    ASSUME NEW S, Listable(S), Fulls(S) # {}, Restore(S) # Failed
    PROVE  \/ LatestFull(S) \in S /\ LatestFull(S).kind = "Full" /\ LatestFull(S).db # 0
              /\ Restore(S).rev = LatestFull(S).db
           \/ \E d \in S : d.kind = "Delta" /\ Restore(S).rev = d.last
<1> DEFINE list == DeltaList(S)
           full == LatestFull(S)
           base == RestoreBase(full)
           n == Len(list)
           db == Replay(base, list)
<1>1. full \in S /\ full.kind = "Full"
  BY TopFull DEF Fulls
<1>2. /\ n \in Nat /\ list \in Seq(LatestDeltas(S))
      /\ LatestDeltas(S) = {d \in S : d.kind = "Delta" /\ Less(full, d)}
  BY TopDelta
<1>3. \A i \in 1 .. n : list[i] \in S /\ list[i].kind = "Delta"
  <2> HIDE DEF list
  <2> QED
    BY <1>2
<1> HIDE DEF list, n
<1>4. /\ db[0] = base
      /\ n >= 1 => db[1] = Then(base, Verified(ApplyFirst(base, list[1]), list[1]))
      /\ \A i \in 2 .. n : db[i] = ApplyNext(db[i - 1], list[i])
  BY <1>2, ReplaySteps DEF n
<1>5. Restore(S) = db[n]
  BY DEF Restore, list, n
<1> HIDE DEF db, full
<1>6. CASE n = 0
  <2>1. full \in Snapshot
    BY <1>1 DEF Listable
  <2>2. base # Failed /\ Restore(S) = base
    BY <1>4, <1>5, <1>6
  <2> QED
    BY <1>1, <2>1, <2>2, BaseSound DEF full
<1>7. CASE n # 0
  <2>1. n \in 1 .. n /\ (n = 1 \/ n \in 2 .. n) /\ n >= 1
    BY <1>2, <1>7
  <2>2. db[n].rev = list[n].last
    <3>1. CASE n = 1
      BY <1>4, <1>5, <2>1, <3>1 DEF Then, Verified
    <3>2. CASE n \in 2 .. n
      <4>1. db[n] = ApplyNext(db[n - 1], list[n])
        BY <1>4, <3>2
      <4> QED
        BY <1>5, <4>1 DEF ApplyNext, Then, Verified
    <3> QED
      BY <2>1, <3>1, <3>2
  <2> QED
    BY <1>3, <1>5, <2>1, <2>2
<1> QED
  BY <1>6, <1>7

\* The events that a replayable delta snapshot holds.
Exact(evs, s, l) == evs = SubSeq(UpTo(l), s, l)

\* They are the revisions from s to l.
LEMMA Slice ==
    ASSUME NEW s \in Nat, NEW l \in Nat, s >= 1, s <= l, NEW evs, Exact(evs, s, l)
    PROVE  /\ evs \in Seq(Nat) /\ evs # <<>> /\ Len(evs) = l - s + 1
           /\ \A j \in 1 .. Len(evs) : evs[j] = s + j - 1
           /\ evs[1] = s /\ evs[Len(evs)] = l
           /\ Restarts(evs, s)
<1>1. UpTo(l) \in Seq(Nat) /\ Len(UpTo(l)) = l /\ \A j \in 1 .. l : UpTo(l)[j] = j
  BY DEF UpTo
<1>2. /\ evs \in Seq(Nat) /\ Len(evs) = l - s + 1
      /\ \A j \in 1 .. Len(evs) : evs[j] = UpTo(l)[s + j - 1]
  <2> DEFINE u == UpTo(l)
  <2>1. u \in Seq(Nat) /\ Len(u) = l /\ evs = SubSeq(u, s, l)
    BY <1>1 DEF Exact
  <2> HIDE DEF u
  <2> QED
    BY <2>1 DEF u
<1>3. ASSUME NEW j \in 1 .. Len(evs) PROVE evs[j] = s + j - 1
  <2>1. s + j - 1 \in 1 .. l
    BY <1>2
  <2> QED
    BY <1>1, <1>2, <2>1
<1>4. Len(evs) \in 1 .. Len(evs) /\ 1 \in 1 .. Len(evs) /\ Len(evs) \in Nat
  BY <1>2
<1>5. evs[1] = s /\ evs[Len(evs)] = l
  <2>1. s + Len(evs) - 1 = l /\ s + 1 - 1 = s
    BY <1>2
  <2> QED
    BY <1>3, <1>4, <2>1
<1>6. ASSUME NEW i \in 2 .. Len(evs) PROVE evs[i] = evs[i - 1] + 1
  <2>1. i \in 1 .. Len(evs) /\ i - 1 \in 1 .. Len(evs)
    BY <1>4
  <2>2. evs[i] = s + i - 1 /\ evs[i - 1] = s + (i - 1) - 1
    BY <1>3, <2>1
  <2>3. s + i - 1 = (s + (i - 1) - 1) + 1
    BY <1>4
  <2> QED
    BY <2>2, <2>3
<1>7. ASSUME NEW i \in 1 .. Len(evs) PROVE s <= evs[i]
  <2>1. evs[i] = s + i - 1 /\ s + i - 1 >= s
    BY <1>3, <1>4
  <2> QED
    BY <2>1
<1>8. Restarts(evs, s)
  BY <1>6, <1>7 DEF Restarts
<1> QED
  BY <1>2, <1>3, <1>4, <1>5, <1>8

\* Such a first delta snapshot is applied from the database's revision on,
LEMMA FirstWorks ==
    ASSUME NEW db, db.rev \in Nat, NEW d \in Snapshot, d.start >= 1, d.start <= d.last,
           d.start <= db.rev + 1, d.last >= db.rev,
           Exact(d.events, d.start, d.last)
    PROVE  LET out == Verified(ApplyFirst(db, d), d) IN out # Failed /\ out.rev = d.last
<1> DEFINE out == ApplyFirst(db, d)
           evs == d.events
           r == db.rev
           from == Min(Past(evs, r))
           sub == SubSeq(evs, from, Len(evs))
<1>0. d.start \in Nat /\ d.last \in Nat /\ r \in Nat
  BY DEF Snapshot
<1>1. /\ evs \in Seq(Nat) /\ evs # <<>> /\ Len(evs) = d.last - d.start + 1
      /\ \A j \in 1 .. Len(evs) : evs[j] = d.start + j - 1
      /\ evs[1] = d.start /\ evs[Len(evs)] = d.last /\ Restarts(evs, d.start)
  BY <1>0, Slice
<1>2. Failed.rev = -1
  BY DEF Failed
<1>3. out.rev = d.last
  <2>1. CASE r = d.last
    <3>1. out = db
      BY <1>1, <2>1 DEF ApplyFirst, Readable
    <3> QED
      BY <2>1, <3>1
  <2>2. CASE r # d.last
    <3>1. Past(evs, r) # {}
      <4>0. Len(evs) \in DOMAIN evs
        BY <1>1
      <4>1. d.last > r
        BY <1>0, <2>2
      <4> QED
        BY <1>1, <4>0, <4>1 DEF Past
    <3>2. out = ApplyEvents(db, sub)
      BY <1>1, <2>2, <3>1 DEF ApplyFirst, Readable, Past
    <3>3. /\ from \in 1 .. Len(evs) /\ sub \in Seq(Nat) /\ sub # <<>>
          /\ Len(sub) = Len(evs) - from + 1
          /\ \A j \in 1 .. Len(sub) : sub[j] = evs[from + j - 1]
          /\ sub[1] = r + 1 /\ sub[Len(sub)] = evs[Len(evs)]
      BY <1>0, <1>1, <3>1, FirstPast
    <3> HIDE DEF sub, from, evs, r
    <3>4. ASSUME NEW j \in 1 .. Len(sub) PROVE sub[j] = r + j
      <4>1. from + j - 1 \in 1 .. Len(evs) /\ from + 1 - 1 = from /\ 1 \in 1 .. Len(sub)
        BY <1>1, <3>3
      <4>2. sub[j] = d.start + (from + j - 1) - 1
        BY <1>1, <3>3, <4>1
      <4>3. r + 1 = d.start + from - 1
        BY <1>1, <3>3, <4>1
      <4> DEFINE a == d.start
                 x == sub[j]
      <4>4. x = a + (from + j - 1) - 1 /\ r + 1 = a + from - 1 /\ a \in Nat /\ r \in Nat /\ from \in Nat
        BY <1>0, <1>1, <3>3, <4>2, <4>3
      <4> HIDE DEF a, x
      <4>5. x = r + j
        BY <4>4
      <4> QED
        BY <4>5 DEF x
    <3>5. ApplyEvents(db, sub).rev = sub[Len(sub)]
      BY <1>0, <3>3, <3>4, ApplyWorks DEF r
    <3> QED
      BY <1>1, <3>2, <3>3, <3>5
  <2> QED
    BY <2>1, <2>2
<1>4. Verified(out, d) = out
  BY <1>3 DEF Verified
<1>5. out # Failed
  BY <1>0, <1>2, <1>3
<1> QED
  BY <1>3, <1>4, <1>5

\* and such a later one as a whole.
LEMMA NextWorks ==
    ASSUME NEW db, db.rev \in Nat, NEW d \in Snapshot, d.start >= 1, d.start <= d.last,
           d.start = db.rev + 1, Exact(d.events, d.start, d.last)
    PROVE  ApplyNext(db, d) # Failed /\ ApplyNext(db, d).rev = d.last
<1> DEFINE evs == d.events
           out == ApplyEvents(db, evs)
<1>0. d.start \in Nat /\ d.last \in Nat /\ Failed.rev = -1
  BY DEF Snapshot, Failed
<1>1. /\ evs \in Seq(Nat) /\ evs # <<>> /\ evs[Len(evs)] = d.last
      /\ \A j \in 1 .. Len(evs) : evs[j] = d.start + j - 1
  <2> DEFINE s == d.start
             l == d.last
  <2>1. s \in Nat /\ l \in Nat /\ s >= 1 /\ s <= l /\ Exact(evs, s, l)
    BY <1>0
  <2> HIDE DEF s, l, evs
  <2>2. /\ evs \in Seq(Nat) /\ evs # <<>> /\ evs[Len(evs)] = l
        /\ \A j \in 1 .. Len(evs) : evs[j] = s + j - 1
    BY <2>1, Slice
  <2> QED
    BY <2>2 DEF s, l
<1>2. ASSUME NEW j \in 1 .. Len(evs) PROVE evs[j] = db.rev + j
  <2> DEFINE x == evs[j]
             r == db.rev
  <2>1. x = (r + 1) + j - 1 /\ r \in Nat
    BY <1>1
  <2> HIDE DEF x, r
  <2>2. x = r + j
    BY <2>1
  <2> QED
    BY <2>2 DEF x, r
<1> HIDE DEF evs
<1>3. out.rev = d.last
  BY <1>1, <1>2, ApplyWorks
<1>4. ApplyNext(db, d) = out
  <2>1. db # Failed
    BY <1>0
  <2> QED
    BY <1>1, <1>3, <2>1 DEF ApplyNext, Then, Readable, Verified, evs
<1>5. out # Failed
  BY <1>0, <1>3
<1> QED
  BY <1>3, <1>4, <1>5

\* A replayable list is restored, to its last revision.
LEMMA ReplayableWorks ==
    ASSUME NEW S, WellSaved(S), Fulls(S) # {}, Replayable(S)
    PROVE  /\ Restore(S) # Failed
           /\ LatestDeltas(S) # {} => Restore(S).rev = CoveredRevision(S)
           /\ LatestDeltas(S) = {} => Restore(S).rev = LatestFull(S).db
<1> DEFINE list == DeltaList(S)
           full == LatestFull(S)
           base == RestoreBase(full)
           n == Len(list)
           db == Replay(base, list)
           H == {i \in 0 .. n : db[i] # Failed /\ db[i].rev = IF i = 0 THEN full.db ELSE list[i].last}
<1>0. Listable(S)
  BY DEF WellSaved
<1>1. /\ full \in S /\ full.kind = "Full"
      /\ \A i \in 1 .. n :
           list[i] \in Snapshot /\ list[i].start >= 1 /\ list[i].start <= list[i].last
      /\ n >= 1 => list[1].start <= full.last + 1
  BY NoGap
<1>2. /\ n \in Nat /\ (list = <<>> <=> LatestDeltas(S) = {}) /\ list \in Seq(LatestDeltas(S))
      /\ DOMAIN list = 1 .. n
      /\ LatestDeltas(S) # {} => n \in 1 .. n /\ LatestSnapshot(S) = list[n]
  BY <1>0, TopDelta
<1>3. /\ full.db > 0 /\ \A i \in 2 .. n : list[i].start = list[i - 1].last + 1
      /\ \A i \in 1 .. n : Exact(list[i].events, list[i].start, list[i].last)
      /\ list # <<>> => list[1].last >= full.db
  BY <1>2 DEF Replayable, Exact
<1> HIDE DEF list, n
<1>4. /\ db[0] = base
      /\ n >= 1 => db[1] = Then(base, Verified(ApplyFirst(base, list[1]), list[1]))
      /\ \A i \in 2 .. n : db[i] = ApplyNext(db[i - 1], list[i])
  BY <1>2, ReplaySteps DEF n
<1>5. Restore(S) = db[n]
  BY DEF Restore, list, n
<1> HIDE DEF db
<1>6. full.last \in Nat /\ full.db \in Nat /\ full.last <= full.db
  <2>1. full.last \in Nat /\ full.db \in Nat /\ (full.db = 0 \/ full.last <= full.db)
    BY <1>1 DEF WellSaved, Listable, Snapshot
  <2> QED
    BY <1>3, <2>1
<1> HIDE DEF full
<1>7. base # Failed /\ base.rev = full.db
  <2>1. base = [rev |-> full.db, hist |-> UpTo(full.db)]
    BY <1>3, <1>6 DEF RestoreBase
  <2>2. base.rev = full.db /\ Failed.rev = -1
    BY <2>1 DEF Failed
  <2> HIDE DEF base
  <2> QED
    BY <1>6, <2>2
<1> HIDE DEF base
<1>8. 0 \in H
  BY <1>2, <1>4, <1>7
<1>9. ASSUME NEW i \in 1 .. n, i - 1 \in H PROVE i \in H
  <2>0. list[i] \in Snapshot /\ list[i].start >= 1 /\ list[i].start <= list[i].last
        /\ Exact(list[i].events, list[i].start, list[i].last)
    BY <1>1, <1>3
  <2>1. CASE i = 1
    <3>1. db[1] = Verified(ApplyFirst(base, list[1]), list[1])
      BY <1>2, <1>4, <1>7, <2>1 DEF Then
    <3>2. list # <<>>
      BY <1>2, <2>1 DEF n
    <3>3. list[1].start \in Nat /\ list[1].start <= full.last + 1 /\ list[1].last >= full.db
      BY <1>1, <1>2, <1>3, <2>0, <2>1, <3>2 DEF Snapshot
    <3>4. list[1].start <= base.rev + 1 /\ list[1].last >= base.rev /\ base.rev \in Nat
      BY <1>6, <1>7, <3>3
    <3>5. db[1] # Failed /\ db[1].rev = list[1].last
      BY <2>0, <2>1, <3>1, <3>4, FirstWorks
    <3> QED
      BY <1>2, <2>1, <3>5
  <2>2. CASE i # 1
    <3>1. i \in 2 .. n /\ i - 1 # 0 /\ i - 1 \in 1 .. n /\ i \in 0 .. n /\ i # 0
      BY <1>2, <2>2
    <3>2. db[i] = ApplyNext(db[i - 1], list[i])
      BY <1>4, <3>1
    <3>3. db[i - 1].rev = list[i - 1].last
      BY <1>9, <3>1
    <3>4. db[i - 1].rev \in Nat /\ list[i].start = db[i - 1].rev + 1
      BY <1>1, <1>3, <3>1, <3>3 DEF Snapshot
    <3>5. db[i] # Failed /\ db[i].rev = list[i].last
      BY <2>0, <3>2, <3>4, NextWorks
    <3> QED
      BY <3>1, <3>5
  <2> QED
    BY <2>1, <2>2
<1>10. H = 0 .. n
  <2>1. H \subseteq 0 .. n
    OBVIOUS
  <2> HIDE DEF H
  <2> QED
    BY <1>2, <1>8, <1>9, <2>1, UpToN
<1>11. db[n] # Failed /\ db[n].rev = IF n = 0 THEN full.db ELSE list[n].last
  <2>1. n \in 0 .. n
    BY <1>2
  <2>2. n \in H
    <3> HIDE DEF H
    <3> QED
      BY <2>1, <1>10
  <2> QED
    BY <2>2, Zenon
<1>12. n = 0 <=> LatestDeltas(S) = {}
  BY <1>2 DEF n
<1> QED
  BY <1>2, <1>5, <1>11, <1>12 DEF CoveredRevision, full

\* Where a snapshot of the list is the last one before another, it is its neighbour.
LEMMA Neighbours ==
    ASSUME NEW S, Listable(S), NEW s \in S, NEW t \in S, Less(s, t),
           \A u \in S : ~(Less(s, u) /\ Less(u, t))
    PROVE  LET list == Sorted(S) IN \E i \in 2 .. Len(list) : list[i] = t /\ list[i - 1] = s
<1> DEFINE list == Sorted(S)
<1>1. /\ list \in Seq(S) /\ Len(list) \in Nat
      /\ \A i, j \in 1 .. Len(list) : i < j <=> Less(list[i], list[j])
      /\ \A x \in S : \E i \in 1 .. Len(list) : list[i] = x
  BY SortedLists
<1> HIDE DEF list
<1>2. PICK i \in 1 .. Len(list), j \in 1 .. Len(list) : list[i] = s /\ list[j] = t
  BY <1>1
<1>3. i < j /\ i \in Nat /\ j \in Nat /\ 1 <= i /\ j <= Len(list)
  <2>1. i < j
    BY <1>1, <1>2, Zenon
  <2> QED
    BY <2>1, <1>1
<1>4. i = j - 1
  <2> SUFFICES ASSUME i # j - 1 PROVE FALSE
    OBVIOUS
  <2>0. ASSUME NEW x \in Nat, NEW y \in Nat, NEW n \in Nat, 1 <= x, y <= n, x < y, x # y - 1
        PROVE  y - 1 \in 1 .. n /\ x < y - 1 /\ y - 1 < y
    BY <2>0
  <2>1. j - 1 \in 1 .. Len(list) /\ i < j - 1 /\ j - 1 < j
    BY <2>0, <1>1, <1>3
  <2>2. list[j - 1] \in S
    BY <1>1, <2>1
  <2>3. Less(list[i], list[j - 1]) /\ Less(list[j - 1], list[j])
    BY <1>1, <2>1, Zenon
  <2> QED
    BY <1>2, <2>2, <2>3
<1>5. j \in 2 .. Len(list) /\ list[j] = t /\ list[j - 1] = s
  BY <1>2, <1>3, <1>4
<1> QED
  BY <1>5 DEF list

\* The latest full snapshot is the one that all others come before.
LEMMA LatestFullIs ==
    ASSUME NEW S, Listable(S), NEW f \in Fulls(S), \A g \in Fulls(S) \ {f} : Less(g, f)
    PROVE  LatestFull(S) = f
<1>1. LatestFull(S) \in Fulls(S) /\ \A g \in Fulls(S) \ {LatestFull(S)} : Less(g, LatestFull(S))
  BY TopFull
<1>2. Fulls(S) \subseteq S
  BY DEF Fulls
<1> QED
  BY <1>1, <1>2, LessOrders

\* A compacted snapshot of any revision, saved beside a replayable chain, leaves one
\* that reaches no less.
LEMMA CompactionWorks ==
    ASSUME NEW S, WellSaved(S), Replayable(S),
           NEW c \in Snapshot, c.kind = "Full", c.db = c.last, c.last >= 1,
           \A s \in S : s.created < c.created
    PROVE  Restore(S \cup {c}) # Failed /\ Restore(S \cup {c}).rev >= CoveredRevision(S)
<1> DEFINE T == S \cup {c}
           full == LatestFull(S)
           D == LatestDeltas(S)
           list == DeltaList(S)
<1>0. Listable(S) /\ Fulls(S) # {}
  <2>1. NilSnapshot.db = 0
    BY DEF NilSnapshot
  <2>2. LatestFull(S).db > 0
    BY DEF Replayable
  <2>3. Fulls(S) # {}
    BY <2>1, <2>2 DEF LatestFull
  <2> QED
    BY <2>3 DEF WellSaved
<1>1. \A s \in S : s \in Snapshot /\ s.created \in Nat /\ s.created # c.created /\ s # c
  BY <1>0 DEF Listable, Snapshot
<1>2. Listable(T)
  <2>1. IsFiniteSet(T)
    BY <1>0, FS_AddElement DEF Listable
  <2> QED
    BY <1>0, <1>1, <2>1 DEF Listable
<1>3. WellSaved(T)
  <2>1. c.last \in Nat /\ c.db \in Nat
    BY DEF Snapshot
  <2> HIDE DEF T
  <2>2. \A f \in T : f.kind = "Full" => f.db = 0 \/ f.last <= f.db
    BY <2>1 DEF WellSaved, T
  <2>3. \A d \in T : d.kind = "Delta" =>
          d.start <= d.last /\ HoldsEvents(d) /\ \E p \in T : p.last + 1 = d.start
    BY DEF WellSaved, T
  <2> QED
    BY <1>2, <2>2, <2>3 DEF WellSaved
<1>4. Fulls(T) = Fulls(S) \cup {c} /\ S \subseteq T /\ c \in T
  BY DEF Fulls
<1>5. full \in S /\ full \in Fulls(S) /\ \A g \in Fulls(S) \ {full} : Less(g, full)
  BY <1>0, TopFull DEF Fulls
<1>6. /\ D = {d \in S : d.kind = "Delta" /\ Less(full, d)}
      /\ list \in Seq(D) /\ Len(list) \in Nat /\ DOMAIN list = 1 .. Len(list)
      /\ \A s \in D : \E i \in 1 .. Len(list) : list[i] = s
  BY <1>0, TopDelta
<1>7. LatestDeltas(T) = {d \in S : d.kind = "Delta" /\ Less(LatestFull(T), d)}
  BY <1>4 DEF LatestDeltas
<1>8. list = Sorted(D)
  BY DEF DeltaList
<1>9. /\ full.db > 0 /\ \A i \in 2 .. Len(list) : list[i].start = list[i - 1].last + 1
      /\ \A i \in 1 .. Len(list) :
           list[i].events = SubSeq(UpTo(list[i].last), list[i].start, list[i].last)
      /\ list # <<>> => list[1].last >= full.db
  BY <1>6 DEF Replayable
<1> HIDE DEF T, full, D, list
<1>10. Less(c, full) \/ Less(full, c)
  BY <1>1, <1>2, <1>4, <1>5, LessOrders
<1>11. ASSUME Less(c, full) PROVE Replayable(T)
  <2>1. LatestFull(T) = full
    BY <1>2, <1>4, <1>5, <1>11, LatestFullIs
  <2>2. LatestDeltas(T) = D
    BY <1>6, <1>7, <2>1
  <2>3. DeltaList(T) = list
    BY <1>8, <2>2 DEF DeltaList
  <2> QED
    BY <1>6, <1>9, <2>1, <2>3 DEF Replayable
<1>12. ASSUME Less(full, c) PROVE Replayable(T)
  <2>1. LatestFull(T) = c
    <3>1. \A g \in Fulls(T) \ {c} : Less(g, c)
      <4>1. \A g \in Fulls(S) : g \in T
        BY <1>4 DEF Fulls
      <4> QED
        BY <1>2, <1>4, <1>5, <1>12, <4>1, LessOrders
    <3> QED
      BY <1>2, <1>4, <3>1, LatestFullIs
  <2> DEFINE E == LatestDeltas(T)
             some == DeltaList(T)
  <2>2. E = {d \in D : Less(c, d)}
    <3>1. \A d \in S : Less(c, d) => Less(full, d)
      BY <1>2, <1>4, <1>5, <1>12, LessOrders
    <3> QED
      BY <1>6, <1>7, <2>1, <3>1
  <2>3. /\ some \in Seq(E) /\ Len(some) \in Nat /\ DOMAIN some = 1 .. Len(some)
        /\ \A i, j \in 1 .. Len(some) : i < j <=> Less(some[i], some[j])
        /\ \A s \in E : \E i \in 1 .. Len(some) : some[i] = s
    BY <1>2, <1>4, TopDelta
  <2> HIDE DEF E, some
  <2>4. Listable(D)
    BY <1>0, <1>6, FS_Subset DEF Listable
  <2>5. ASSUME NEW i \in 2 .. Len(some) PROVE some[i].start = some[i - 1].last + 1
    <3>1. /\ i \in 1 .. Len(some) /\ i - 1 \in 1 .. Len(some) /\ i - 1 < i
          /\ some[i] \in E /\ some[i - 1] \in E
      BY <2>3
    <3>2. Less(some[i - 1], some[i]) /\ some[i] \in D /\ some[i - 1] \in D
      BY <2>2, <2>3, <3>1
    <3>3. ASSUME NEW u \in D, Less(some[i - 1], u), Less(u, some[i]) PROVE FALSE
      <4>1. u \in E
        BY <1>2, <1>4, <1>6, <2>2, <3>1, <3>2, <3>3, LessOrders
      <4>2. PICK j \in 1 .. Len(some) : some[j] = u
        BY <2>3, <4>1
      <4>3. i - 1 < j /\ j < i
        BY <2>3, <3>1, <3>3, <4>2
      <4> QED
        BY <2>3, <4>3
    <3>4. PICK k \in 2 .. Len(list) : list[k] = some[i] /\ list[k - 1] = some[i - 1]
      BY <1>8, <2>4, <3>2, <3>3, Neighbours
    <3> QED
      BY <1>9, <3>4
  <2>6. ASSUME NEW i \in 1 .. Len(some)
        PROVE  some[i].events = SubSeq(UpTo(some[i].last), some[i].start, some[i].last)
    <3>1. some[i] \in D
      BY <2>2, <2>3
    <3>2. PICK k \in 1 .. Len(list) : list[k] = some[i]
      BY <1>6, <3>1
    <3> QED
      BY <1>9, <3>2
  <2>7. some # <<>> => some[1].last >= c.db
    <3> SUFFICES ASSUME some # <<>> PROVE some[1].last >= c.last
      OBVIOUS
    <3>1. some[1] \in D /\ Less(c, some[1])
      BY <2>2, <2>3
    <3>2. some[1].last \in Nat /\ c.last \in Nat
      BY <1>1, <1>6, <3>1 DEF Snapshot
    <3> QED
      BY <3>1, <3>2 DEF Less
  <2>8. c.db > 0
    BY DEF Snapshot
  <2> QED
    BY <2>1, <2>3, <2>5, <2>6, <2>7, <2>8 DEF Replayable, some
<1>13. Restore(T) # Failed /\ Restore(T).rev >= CoveredRevision(T) /\ Complete(Restore(T))
  BY <1>3, <1>4, <1>10, <1>11, <1>12, ReplayableWorks, RestoreIsSound
<1>14. CoveredRevision(T) >= CoveredRevision(S) /\ CoveredRevision(T) \in Nat /\ CoveredRevision(S) \in Nat
  BY <1>0, <1>2, <1>4, LatestCovers DEF CoveredRevision
<1>15. Restore(T).rev >= CoveredRevision(S)
  BY <1>13, <1>14 DEF Complete
<1> QED
  BY <1>13, <1>15 DEF T

\* What the compactor lists is a part of the store that can be restored.
LEMMA RestoreSetLists ==
    ASSUME NEW S, Listable(S), Fulls(S) # {}
    PROVE  RestoreSet(S) \subseteq S /\ Fulls(RestoreSet(S)) # {}
<1>1. LatestFull(S) \in S /\ LatestFull(S).kind = "Full"
  BY TopFull DEF Fulls
<1> QED
  BY <1>1 DEF RestoreSet, LatestDeltas, Fulls

\* From a part of the store a restoration comes to a revision of the original.
LEMMA RestoredRevision ==
    ASSUME NEW S, WellSaved(S), NEW r \in Nat, \A s \in S : s.last <= r,
           \A f \in S : f.kind = "Full" => f.db <= r,
           NEW T, T \subseteq S, Fulls(T) # {}, Restore(T) # Failed
    PROVE  Restore(T).rev \in 1 .. r
<1>0. Listable(S) /\ \A s \in S : s.db \in Nat /\ s.start \in Nat /\ s.last \in Nat
  BY DEF WellSaved, Listable, Snapshot
<1>1. Listable(T)
  BY <1>0, FS_Subset DEF Listable
<1>2. CASE /\ LatestFull(T) \in T /\ LatestFull(T).kind = "Full"
           /\ LatestFull(T).db # 0 /\ Restore(T).rev = LatestFull(T).db
  <2>1. LatestFull(T).db \in Nat /\ LatestFull(T).db <= r
    BY <1>0, <1>2
  <2> QED
    BY <1>2, <2>1
<1>3. CASE \E d \in T : d.kind = "Delta" /\ Restore(T).rev = d.last
  <2>1. PICK d \in S : d.kind = "Delta" /\ Restore(T).rev = d.last
    BY <1>3
  <2>2. PICK p \in S : p.last + 1 = d.start
    BY <2>1 DEF WellSaved
  <2>3. d.last \in Nat /\ d.last <= r /\ d.start \in Nat /\ d.start <= d.last /\ p.last \in Nat
    BY <1>0, <2>1, <2>2 DEF WellSaved
  <2> QED
    BY <2>1, <2>2, <2>3
<1> QED
  BY <1>1, <1>2, <1>3, RestoreEnds

\* Delta snapshots that come after the latest full snapshot and that were saved one after
\* the other, each past all before it, have neither gap nor overlap.
LEMMA OrderedFit ==
    ASSUME NEW S, WellSaved(S), Fulls(S) # {}, NEW C, LatestDeltas(S) \subseteq C,
           \A d, e \in C : d.created < e.created => d.last < e.start
    PROVE  LET list == DeltaList(S)
           IN /\ \A i \in 2 .. Len(list) : list[i].start = list[i - 1].last + 1
              /\ list # <<>> => list[1].start <= LatestFull(S).last + 1
<1> DEFINE list == DeltaList(S)
           full == LatestFull(S)
<1>1. Listable(S) /\ \A s \in S : s.created \in Nat /\ s.last \in Nat
  BY DEF WellSaved, Listable, Snapshot
<1>2. /\ \A i \in 1 .. Len(list) : list[i] \in S /\ list[i].start \in Nat /\ list[i].start <= list[i].last
      /\ Len(list) >= 1 => list[1].start <= full.last + 1
      /\ \A i \in 2 .. Len(list) : list[i].start <= list[i - 1].last + 1
  BY NoGap
<1>3. /\ list \in Seq(LatestDeltas(S)) /\ Len(list) \in Nat
      /\ \A i, j \in 1 .. Len(list) : i < j <=> Less(list[i], list[j])
  BY <1>1, TopDelta
<1> HIDE DEF list, full
<1>4. ASSUME NEW i \in 2 .. Len(list) PROVE list[i].start = list[i - 1].last + 1
  <2> DEFINE d == list[i - 1]
             e == list[i]
  <2>1. i \in 1 .. Len(list) /\ i - 1 \in 1 .. Len(list) /\ i - 1 < i
    BY <1>3
  <2>2. /\ d \in C /\ e \in C /\ d \in S /\ e \in S /\ Less(d, e)
        /\ d.start \in Nat /\ d.start <= d.last /\ e.start \in Nat /\ e.start <= e.last
        /\ e.start <= d.last + 1
    BY <1>2, <1>3, <2>1
  <2> HIDE DEF d, e
  <2>3. d.created \in Nat /\ e.created \in Nat /\ d.last \in Nat /\ e.last \in Nat /\ d # e
    BY <1>1, <2>2, LessOrders
  <2>4. d.created # e.created
    BY <1>1, <2>2, <2>3 DEF Listable
  <2>5. /\ d.created < e.created => d.last < e.start
        /\ e.created < d.created => e.last < d.start
    BY <2>2
  <2>6. d.last <= e.last
    BY <2>2, <2>3 DEF Less
  <2>7. e.start = d.last + 1
    BY <2>2, <2>3, <2>4, <2>5, <2>6
  <2> QED
    BY <2>7 DEF d, e
<1>5. list # <<>> => list[1].start <= full.last + 1
  BY <1>2, <1>3
<1> QED
  BY <1>4, <1>5 DEF list, full

-----------------------------------------------------------------------------
(***************************************************************************)
(* What holds of the store, and of the delta snapshots saved since two     *)
(* loops at once or a failing Save disturbed it.                           *)
(***************************************************************************)

\* Every snapshot has the contents that its name claims or was cut short, and every delta
\* snapshot continues one that is there.
Kept ==
    /\ clock \in Nat /\ rev \in Nat
    /\ \A s \in store : s \in Snapshot /\ s.last <= rev /\ s.created \in 1 .. clock
    /\ \A s, t \in store : s.created = t.created => s = t
    /\ \A f \in store : f.kind = "Full" => f.db <= rev /\ (f.db = 0 \/ f.last <= f.db)
    /\ \A d \in store : d.kind = "Delta" =>
         /\ d.start <= d.last /\ HoldsEvents(d) /\ Fulls(store) # {}
         /\ \E p \in store : p.last + 1 = d.start

\* The delta snapshots since the last disturbance
Calm == {d \in store : d.kind = "Delta" /\ d.created > disturbed}

\* follow each other,
CalmOrder == \A d, e \in Calm : d.created < e.created => d.last < e.start

\* and a loop that runs is past them, with its PrevSnapshot p and, about to save a full
\* snapshot, with the revision l of that.
Covers(pc, p, l) ==
    \A d \in Calm : (pc # "off" => d.last <= p.last) /\ (pc = "fullSave" => d.last <= l)

\* The compactor works on snapshots of the store, and restores to a revision of etcd.
JobInv ==
    /\ job # "idle" => listed \subseteq store /\ Fulls(listed) # {}
    /\ job = "save" => embedded.rev \in 1 .. rev

Orderly ==
    /\ IsFiniteSet(store) /\ faults \in Nat /\ disturbed \in 0 .. clock
    /\ CalmOrder /\ JobInv

\* That is what a restoration needs of the store.
LEMMA KeptGives ==
    ASSUME Kept, IsFiniteSet(store)
    PROVE  WellSaved(store) /\ Listable(store)
BY DEF Kept, WellSaved, Listable

\* What a step of a loop does to the store, and to what the loop knows of it: nothing, a
\* snapshot saved, or a Save failed.
Affects(a, p, l, aa, pp, ll) ==
    \/ /\ store' = store /\ clock' = clock
       /\ aa = "off" \/ pp = IF a = "off" THEN LatestSnapshot(store) ELSE p
       /\ aa = "fullSave" => ll = rev \/ (a = "fullSave" /\ ll = l)
    \/ /\ clock' = clock + 1 /\ store' = store \cup {pp}
       /\ a # "off" /\ aa # "fullSave" /\ pp.created = clock + 1
       /\ \/ pp.kind = "Delta" /\ pp.start = p.last + 1
          \/ pp.kind = "Full" /\ a = "fullSave" /\ pp.last = l
    \/ /\ faults' # faults /\ clock' = clock + 1
       /\ \E s \in store' : store' = store \cup {s}

\* Whether that is a disturbance, if on says that the other loop runs.
Marks(a, on) ==
    disturbed' = IF clock' # clock /\ ((a # "off" /\ on) \/ faults' # faults)
                 THEN clock' ELSE disturbed

\* What a step of one loop does to the store keeps the order of the calm delta snapshots,
\* and the loop past them; while the other loop runs they only become fewer.
LEMMA EffectKeeps ==
    ASSUME Kept, Kept', IsFiniteSet(store), disturbed \in 0 .. clock, CalmOrder,
           NEW on \in BOOLEAN, NEW a, NEW p, NEW l, NEW aa, NEW pp, NEW ll,
           Covers(a, p, l), a # "off" => p.last \in Nat,
           Marks(a, on), Affects(a, p, l, aa, pp, ll)
    PROVE  /\ store \subseteq store' /\ IsFiniteSet(store') /\ disturbed' \in 0 .. clock'
           /\ CalmOrder' /\ (on => Calm' \subseteq Calm)
           /\ \A d \in Calm' : (aa # "off" => d.last <= pp.last) /\ (aa = "fullSave" => d.last <= ll)
<1>0. /\ clock \in Nat /\ clock' \in Nat /\ disturbed \in Nat
      /\ \A s \in store : s \in Snapshot /\ s.created \in 1 .. clock /\ s.last \in Nat /\ s.last <= rev
      /\ \A s \in store' : s \in Snapshot /\ s.created \in 1 .. clock' /\ s.last \in Nat /\ s.start \in Nat
                           /\ (s.kind = "Delta" => s.start <= s.last)
      /\ \A s \in store : s.kind = "Delta" => Fulls(store) # {}
  <2>1. clock \in Nat /\ clock' \in Nat /\ \A s \in store : s.kind = "Delta" => Fulls(store) # {}
    BY DEF Kept
  <2>2. \A s \in store : s \in Snapshot /\ s.created \in 1 .. clock /\ s.last \in Nat /\ s.last <= rev
    BY DEF Kept, Snapshot
  <2>3. \A s \in store' : s \in Snapshot /\ s.created \in 1 .. clock' /\ s.last \in Nat /\ s.start \in Nat
                           /\ (s.kind = "Delta" => s.start <= s.last)
    BY DEF Kept, Snapshot
  <2> QED
    BY <2>1, <2>2, <2>3
<1> USE <1>0 DEF Affects, Marks
<1>1. CASE disturbed' = clock' /\ clock' # clock
  <2>1. Calm' = {}
    BY <1>1 DEF Calm
  <2>2. store \subseteq store' /\ IsFiniteSet(store')
    BY <1>1, FS_AddElement
  <2> QED
    BY <1>1, <2>1, <2>2 DEF CalmOrder
<1>2. CASE store' = store /\ clock' = clock
  <2>1. Calm' = Calm /\ disturbed' = disturbed
    BY <1>2 DEF Calm
  <2>2. aa = "off" \/ pp = IF a = "off" THEN LatestSnapshot(store) ELSE p
    BY <1>2
  <2>3. aa = "fullSave" => ll = rev \/ (a = "fullSave" /\ ll = l)
    BY <1>2
  <2>4. Calm \subseteq store /\ \A d \in Calm : d.kind = "Delta"
    BY DEF Calm
  <2>5. ASSUME NEW d \in Calm PROVE d.last <= LatestSnapshot(store).last
    <3>1. Listable(store) /\ Fulls(store) # {}
      BY <2>4, KeptGives
    <3> QED
      BY <2>4, <3>1, LatestCovers
  <2>6. \A d \in Calm : (aa # "off" => d.last <= pp.last) /\ (aa = "fullSave" => d.last <= ll)
    BY <2>2, <2>3, <2>4, <2>5 DEF Covers
  <2> QED
    BY <1>2, <2>1, <2>6 DEF CalmOrder
<1>3. CASE /\ clock' = clock + 1 /\ store' = store \cup {pp} /\ disturbed' = disturbed
           /\ a # "off" /\ aa # "fullSave" /\ pp.created = clock + 1
           /\ \/ pp.kind = "Delta" /\ pp.start = p.last + 1
              \/ pp.kind = "Full" /\ a = "fullSave" /\ pp.last = l
  <2>1. IsFiniteSet(store')
    BY <1>3, FS_AddElement
  <2>2. ~on
    BY <1>3
  <2>3. Calm' = IF pp.kind = "Delta" THEN Calm \cup {pp} ELSE Calm
    BY <1>3 DEF Calm
  <2>4. /\ pp \in store' /\ pp.last \in Nat /\ pp.start \in Nat /\ p.last \in Nat
        /\ (pp.kind = "Delta" => pp.start <= pp.last)
    BY <1>3
  <2>5. \A d \in Calm : /\ d \in store /\ d.last \in Nat /\ d.created \in Nat /\ d.created < pp.created
                        /\ d.last <= p.last /\ (a = "fullSave" => d.last <= l)
    BY <1>3 DEF Calm, Covers
  <2>6. ASSUME NEW d \in Calm PROVE d.last <= pp.last /\ (pp.kind = "Delta" => d.last < pp.start)
    BY <1>3, <2>4, <2>5
  <2>7. CalmOrder'
    <3> SUFFICES ASSUME NEW d \in Calm', NEW e \in Calm', d.created < e.created
                 PROVE  d.last < e.start
      BY DEF CalmOrder
    <3>1. CASE d \in Calm /\ e \in Calm
      BY <3>1 DEF CalmOrder
    <3>2. CASE d \in Calm /\ e = pp /\ pp.kind = "Delta"
      BY <2>6, <3>2
    <3>3. CASE d = pp
      <4>1. e.created <= clock' /\ e.created \in Nat /\ pp.created = clock'
        BY <1>3 DEF Calm
      <4> QED
        BY <3>3, <4>1
    <3> QED
      BY <2>3, <3>1, <3>2, <3>3
  <2>8. \A d \in Calm' : d.last <= pp.last
    BY <2>3, <2>4, <2>6
  <2> QED
    BY <1>3, <2>1, <2>2, <2>7, <2>8
<1>4. \/ disturbed' = clock' /\ clock' # clock
      \/ store' = store /\ clock' = clock
      \/ /\ clock' = clock + 1 /\ store' = store \cup {pp} /\ disturbed' = disturbed
         /\ a # "off" /\ aa # "fullSave" /\ pp.created = clock + 1
         /\ \/ pp.kind = "Delta" /\ pp.start = p.last + 1
            \/ pp.kind = "Full" /\ a = "fullSave" /\ pp.last = l
  OBVIOUS
<1> QED
  BY <1>1, <1>2, <1>3, <1>4

\* What is left of a snapshot whose Save fails.
LEMMA TornShape ==
    ASSUME NEW s \in Snapshot
    PROVE  /\ Torn(s) \in Snapshot /\ Torn(s).kind = s.kind /\ Torn(s).db = 0
           /\ Torn(s).last = s.last /\ Torn(s).created = s.created
<1>1. <<>> \in Seq(Nat)
  OBVIOUS
<1> QED
  BY <1>1 DEF Torn, Snapshot

\* The full snapshot that the compactor saves, whole or cut short.
Fresh(c) ==
    /\ c \in Snapshot /\ c.kind = "Full" /\ c.created = clock + 1
    /\ c.last <= rev /\ c.db <= rev /\ (c.db = 0 \/ c.last <= c.db)

LEMMA CompactedFresh ==
    ASSUME Kept, Orderly, job = "save"
    PROVE  Fresh(Compacted) /\ Fresh(Torn(Compacted))
           /\ Compacted.db = Compacted.last /\ Compacted.last >= 1
<1>1. /\ listed \subseteq store /\ Fulls(listed) # {} /\ embedded.rev \in Nat /\ embedded.rev <= rev
      /\ embedded.rev >= 1 /\ clock \in Nat /\ rev \in Nat /\ Listable(store)
  BY KeptGives DEF Orderly, JobInv, Kept
<1>2. LatestFull(listed).final \in BOOLEAN
  <2>1. Listable(listed)
    BY <1>1, FS_Subset DEF Listable
  <2>2. LatestFull(listed) \in Snapshot
    BY <1>1, <2>1, TopFull DEF Listable, Fulls
  <2> QED
    BY <2>2 DEF Snapshot
<1>3. /\ Compacted.kind = "Full" /\ Compacted.last = embedded.rev /\ Compacted.db = embedded.rev
      /\ Compacted.created = clock + 1
  BY DEF Compacted, FullSnapshot
<1>4. Compacted \in Snapshot
  <2>1. <<>> \in Seq(Nat)
    OBVIOUS
  <2> QED
    BY <1>1, <1>2, <2>1 DEF Compacted, FullSnapshot, Snapshot
<1>5. /\ Torn(Compacted) \in Snapshot /\ Torn(Compacted).kind = "Full" /\ Torn(Compacted).db = 0
      /\ Torn(Compacted).last = embedded.rev /\ Torn(Compacted).created = clock + 1
  BY <1>3, <1>4, TornShape
<1> QED
  BY <1>1, <1>3, <1>4, <1>5 DEF Fresh

\* What a step of the compactor does.
LEMMA JobStep ==
    ASSUME Kept, Orderly, CompactNext
    PROVE  /\ faults' \in Nat
           /\ \/ store' = store /\ clock' = clock
              \/ clock' = clock + 1 /\ \E c : Fresh(c) /\ store' = store \cup {c}
<1>1. faults' \in Nat
  BY DEF Orderly, CompactNext, ListBackup, RestoreListed, SaveCompacted, CompactFails
<1>2. \/ store' = store /\ clock' = clock
      \/ /\ job = "save" /\ clock' = clock + 1
         /\ \E c \in {Compacted, Torn(Compacted)} : store' = store \cup {c}
  BY DEF CompactNext, ListBackup, RestoreListed, SaveCompacted, CompactFails
<1> QED
  BY <1>1, <1>2, CompactedFresh

\* What it lists and what it restores.
LEMMA JobInvKept ==
    ASSUME Kept, Orderly, CompactNext, rev' = rev
    PROVE  JobInv'
<1>0. JobInv /\ WellSaved(store) /\ Listable(store) /\ rev' = rev
  BY KeptGives DEF Orderly
<1>1. CASE ListBackup
  BY <1>0, <1>1, RestoreSetLists DEF ListBackup, JobInv
<1>2. CASE RestoreListed
  <2>1. Restore(listed) # Failed => Restore(listed).rev \in 1 .. rev
    BY <1>0, <1>2, RestoredRevision DEF RestoreListed, JobInv, Kept
  <2> QED
    BY <1>0, <1>2, <2>1 DEF RestoreListed, JobEnds, JobInv
<1>3. CASE SaveCompacted \/ CompactFails
  BY <1>3 DEF SaveCompacted, CompactFails, JobEnds, JobInv
<1> QED
  BY <1>1, <1>2, <1>3 DEF CompactNext

\* So it keeps all of this, and adds no delta snapshot.
LEMMA OrderlyJob ==
    ASSUME Kept, Orderly, CompactNext, rev' = rev,
           disturbed' = disturbed \/ (clock' # clock /\ disturbed' = clock')
    PROVE  Orderly' /\ store \subseteq store' /\ Calm' \subseteq Calm
<1>0. /\ IsFiniteSet(store) /\ disturbed \in 0 .. clock /\ CalmOrder /\ clock \in Nat
      /\ \A s \in store : s.created \in Nat /\ s.created <= clock
  BY DEF Orderly, Kept
<1>1. /\ faults' \in Nat
      /\ \/ store' = store /\ clock' = clock
         \/ clock' = clock + 1 /\ \E c : Fresh(c) /\ store' = store \cup {c}
  BY JobStep
<1>2. store \subseteq store' /\ IsFiniteSet(store') /\ disturbed' \in 0 .. clock'
      /\ Calm' \subseteq Calm
  <2>1. CASE store' = store /\ clock' = clock
    BY <1>0, <2>1 DEF Calm
  <2>2. ASSUME clock' = clock + 1, NEW c, Fresh(c), store' = store \cup {c}
        PROVE  store \subseteq store' /\ IsFiniteSet(store') /\ disturbed' \in 0 .. clock'
               /\ Calm' \subseteq Calm
    <3>1. store \subseteq store' /\ IsFiniteSet(store')
      BY <1>0, <2>2, FS_AddElement
    <3>2. disturbed' \in 0 .. clock' /\ disturbed' \in {disturbed, clock'}
      BY <1>0, <2>2
    <3>3. c.kind = "Full" /\ \A s \in store : s.created < clock'
      BY <1>0, <2>2 DEF Fresh
    <3> QED
      BY <1>0, <2>2, <3>1, <3>2, <3>3 DEF Calm
  <2> QED
    BY <1>1, <2>1, <2>2
<1>3. CalmOrder'
  BY <1>0, <1>2 DEF CalmOrder
<1> QED
  BY <1>1, <1>2, <1>3, JobInvKept DEF Orderly

\* Writes of etcd keep it too.
LEMMA OrderlyEtcd ==
    ASSUME Kept, Orderly, UNCHANGED <<store, clock, faults, disturbed, jobVars>>, rev' \in {rev, rev + 1}
    PROVE  Orderly' /\ Calm' = Calm
<1>1. JobInv'
  BY DEF Kept, Orderly, JobInv, jobVars
<1> QED
  BY <1>1 DEF Orderly, CalmOrder, Calm

\* A store with a full snapshot has a latest one, and a latest snapshot.
LEMMA KeptTops ==
    ASSUME Kept, IsFiniteSet(store), Fulls(store) # {}
    PROVE  LatestFull(store) \in Fulls(store) /\ LatestSnapshot(store) \in store
BY KeptGives, TopFull, LatestCovers

\* A restoration that returns without error is sound,
LEMMA KeptSound ==
    ASSUME Kept, Orderly
    PROVE  RestoreSound
<1>1. WellSaved(store)
  BY KeptGives DEF Orderly
<1> QED
  BY <1>1, RestoreIsSound DEF RestoreSound, HasBackup, Complete

\* a replayable chain is restored,
LEMMA KeptRestores ==
    ASSUME Kept, Orderly
    PROVE  ReplayableRestores
<1>1. WellSaved(store)
  BY KeptGives DEF Orderly
<1> QED
  BY <1>1, ReplayableWorks DEF ReplayableRestores, HasBackup

\* a compacted snapshot keeps what is covered,
LEMMA KeptCompacts ==
    ASSUME Kept, Orderly, SaveCompacted, Replayable(store)
    PROVE  Restore(store') # Failed /\ Restore(store').rev >= CoveredRevision(store)
<1>1. job = "save" /\ store' = store \cup {Compacted}
  BY DEF SaveCompacted
<1>2. Fresh(Compacted) /\ Compacted.db = Compacted.last /\ Compacted.last >= 1
  BY <1>1, CompactedFresh
<1>3. Compacted \in Snapshot /\ Compacted.kind = "Full" /\ \A s \in store : s.created < Compacted.created
  BY <1>2 DEF Fresh, Kept
<1>4. WellSaved(store)
  BY KeptGives DEF Orderly
<1> QED
  BY <1>1, <1>2, <1>3, <1>4, CompactionWorks

\* and the chain since the last disturbance has neither gap nor overlap.
LEMMA KeptHeals ==
    ASSUME Kept, Orderly
    PROVE  ChainHeals
<1> SUFFICES ASSUME HasBackup, \A s \in store : s.created <= disturbed => Less(s, LatestFull(store))
             PROVE  Contiguous
  BY DEF ChainHeals
<1>1. WellSaved(store) /\ Listable(store) /\ Fulls(store) # {}
  BY KeptGives DEF Orderly, HasBackup
<1>2. ASSUME NEW d \in LatestDeltas(store) PROVE d \in Calm
  <2>1. LatestFull(store) \in store
    BY <1>1, TopFull DEF Fulls
  <2>2. d \in store /\ d.kind = "Delta" /\ Less(LatestFull(store), d)
    BY <1>1, TopDelta
  <2>3. ~Less(d, LatestFull(store))
    BY <1>1, <2>1, <2>2, LessOrders
  <2> QED
    BY <2>2, <2>3 DEF Calm, Orderly, Kept
<1> QED
  BY <1>1, <1>2, OrderedFit DEF Orderly, CalmOrder, Contiguous
=============================================================================
