----------------------------- MODULE CopierProofs -----------------------------
(***************************************************************************)
(* Success of a copy means that the destination can serve what the listed  *)
(* backups can, and reaches the final snapshot that was waited for: for    *)
(* every number of snapshots, workers and failures.                        *)
(***************************************************************************)
EXTENDS Copier, FiniteSetTheorems, WellFoundedInduction, SequenceTheorems, TLAPS

-----------------------------------------------------------------------------
(* The end of a store *)

\* Snapshots that were taken one after the other, the last one as the n-th.
InSequence(S, n) ==
    /\ S \subseteq Snapshot
    /\ \A s \in S : s.created \in 1 .. n
    /\ \A s, t \in S : /\ s.created = t.created => s = t
                       /\ s.created < t.created => s.last <= t.last

\* t is what a sorted listing of T ends with.
Last(t, T) == t \in T /\ \A s \in T : s.created <= t.created

\* A set of numbers has a least element: of the intervals that end in one of them, one
\* has no other for a subset.
LEMMA NatMin ==
    ASSUME NEW T, T \subseteq Nat, T # {}
    PROVE  \E x \in T : \A y \in T : x <= y
<1> DEFINE I == {0 .. x : x \in T}
<1>1. I \subseteq FiniteSubsetsOf(Nat)
  <2>1. ASSUME NEW x \in T PROVE 0 .. x \in FiniteSubsetsOf(Nat)
    <3>1. IsFiniteSet(0 .. x)
      BY FS_Interval
    <3>2. 0 .. x \subseteq Nat
      OBVIOUS
    <3> QED
      BY <3>1, <3>2 DEF FiniteSubsetsOf
  <2> QED
    BY <2>1
<1>2. PICK i \in I : \A j \in I : ~(<<j, i>> \in StrictSubsetOrdering(Nat))
  <2>1. I # {}
    OBVIOUS
  <2> HIDE DEF I
  <2> QED
    BY <1>1, <2>1, WFMin, FS_StrictSubsetOrderingWellFounded
<1>3. PICK x \in T : i = 0 .. x
  OBVIOUS
<1>4. ASSUME NEW y \in T, y < x PROVE FALSE
  <2>1. 0 .. y \subseteq 0 .. x /\ 0 .. y # 0 .. x
    <3>1. x \in Nat /\ y \in Nat /\ x \in 0 .. x /\ x \notin 0 .. y
      BY <1>4
    <3> QED
      BY <1>4, <3>1
  <2>2. 0 .. x \in SUBSET Nat /\ 0 .. y \in SUBSET Nat
    OBVIOUS
  <2>3. <<0 .. y, 0 .. x>> \in StrictSubsetOrdering(Nat)
    BY <2>1, <2>2 DEF StrictSubsetOrdering
  <2> QED
    BY <1>2, <1>3, <2>3
<1> QED
  BY <1>4

\* A bounded set of numbers has a greatest element.
LEMMA NatMax ==
    ASSUME NEW T, T \subseteq Nat, T # {}, NEW n \in Nat, \A x \in T : x <= n
    PROVE  \E x \in T : \A y \in T : y <= x
<1> DEFINE U == {n - x : x \in T}
<1>1. U \subseteq Nat /\ U # {}
  <2>1. \A x \in T : n - x \in Nat
    OBVIOUS
  <2> QED
    BY <2>1
<1>2. PICK u \in U : \A y \in U : u <= y
  <2> HIDE DEF U
  <2> QED
    BY <1>1, NatMin
<1>3. PICK x \in T : u = n - x
  OBVIOUS
<1>4. ASSUME NEW y \in T PROVE y <= x
  <2>1. u <= n - y
    BY <1>2
  <2> QED
    BY <1>3, <2>1
<1> QED
  BY <1>4

\* The order of the list is the order in which the snapshots were taken.
LEMMA LessIsEarlier ==
    ASSUME NEW n \in Nat, NEW S, InSequence(S, n), NEW s \in S, NEW t \in S
    PROVE  Less(s, t) <=> s.created < t.created
<1>1. s \in Snapshot /\ t \in Snapshot
  BY DEF InSequence
<1>2. s.created \in Nat /\ t.created \in Nat /\ s.last \in Nat /\ t.last \in Nat
  BY <1>1 DEF Snapshot
<1>3. /\ s.created = t.created => s = t
      /\ s.created < t.created => s.last <= t.last
      /\ t.created < s.created => t.last <= s.last
  BY DEF InSequence
<1> QED
  BY <1>2, <1>3 DEF Less

\* A list that is not empty has a last element.
LEMMA LastExists ==
    ASSUME NEW n \in Nat, NEW S, InSequence(S, n), NEW T, T \subseteq S, T # {}
    PROVE  \E t \in T : Last(t, T)
<1> DEFINE C == {t.created : t \in T}
<1>1. C \subseteq Nat /\ C # {} /\ \A x \in C : x <= n
  BY DEF InSequence
<1>2. PICK x \in C : \A y \in C : y <= x
  <2> HIDE DEF C
  <2> QED
    BY <1>1, NatMax
<1> QED
  BY <1>2 DEF Last

\* The last element is the one that CHOOSE takes, and the only one.
LEMMA LastChosen ==
    ASSUME NEW n \in Nat, NEW S, InSequence(S, n), NEW T, T \subseteq S, T # {}
    PROVE  LET c == CHOOSE t \in T : \A s \in T \ {t} : Less(s, t)
           IN Last(c, T) /\ \A t \in T : Last(t, T) => t = c
<1> DEFINE c == CHOOSE t \in T : \A s \in T \ {t} : Less(s, t)
<1>1. PICK m \in T : Last(m, T)
  BY LastExists
<1>2. \A s, t \in T : s.created \in Nat /\ (s.created = t.created => s = t)
                      /\ (Less(s, t) <=> s.created < t.created)
  BY LessIsEarlier DEF InSequence
<1>3. \A s \in T \ {m} : Less(s, m)
  BY <1>1, <1>2 DEF Last
<1>4. c \in T /\ \A s \in T \ {c} : Less(s, c)
  BY <1>3
<1> HIDE DEF c
<1>5. \A s \in T : s.created <= c.created
  BY <1>2, <1>4
<1>6. \A t \in T : Last(t, T) => t = c
  BY <1>2, <1>4, <1>5 DEF Last
<1> QED
  BY <1>4, <1>5, <1>6 DEF Last, c

\* LatestFull is the last full snapshot.
LEMMA LatestFullIsLast ==
    ASSUME NEW n \in Nat, NEW S, InSequence(S, n), Fulls(S) # {}
    PROVE  Last(LatestFull(S), Fulls(S)) /\ \A f : Last(f, Fulls(S)) => f = LatestFull(S)
<1>1. Fulls(S) \subseteq S
  BY DEF Fulls
<1>2. LatestFull(S) = CHOOSE f \in Fulls(S) : \A g \in Fulls(S) \ {f} : Less(g, f)
  BY DEF LatestFull
<1> QED
  BY <1>1, <1>2, LastChosen DEF Last

\* LatestSnapshot is the last snapshot, and no snapshot is past its revision.
LEMMA LatestIsLast ==
    ASSUME NEW n \in Nat, NEW S, InSequence(S, n), Fulls(S) # {}
    PROVE  /\ Last(LatestSnapshot(S), S) /\ \A m : Last(m, S) => m = LatestSnapshot(S)
           /\ CoveredRevision(S) \in Nat /\ \A s \in S : s.last <= CoveredRevision(S)
<1> DEFINE f == LatestFull(S)
           D == LatestDeltas(S)
           l == LatestSnapshot(S)
<1>1. f \in Fulls(S) /\ f \in S /\ \A g \in Fulls(S) : g.created <= f.created
  BY LatestFullIsLast DEF Last, Fulls
<1>2. \A s, t \in S : /\ s.created \in Nat /\ s.last \in Nat /\ s.kind \in {"Full", "Delta"}
                      /\ s.created = t.created => s = t
                      /\ s.created < t.created => s.last <= t.last
                      /\ Less(s, t) <=> s.created < t.created
  BY LessIsEarlier DEF InSequence, Snapshot
<1>3. D \subseteq S /\ \A s \in S : s \in D <=> s.kind = "Delta" /\ f.created < s.created
  BY <1>1, <1>2 DEF LatestDeltas
<1>4. Last(l, S)
  <2>1. CASE D = {}
    <3>1. l = f
      BY <2>1 DEF LatestSnapshot
    <3>2. \A s \in S : s.created <= f.created
      BY <1>1, <1>2, <1>3, <2>1 DEF Fulls
    <3> QED
      BY <1>1, <3>1, <3>2 DEF Last
  <2>2. CASE D # {}
    <3>1. l = CHOOSE d \in D : \A e \in D \ {d} : Less(e, d)
      BY <2>2 DEF LatestSnapshot, LastDelta
    <3>2. Last(l, D)
      <4> HIDE DEF D, l
      <4> QED
        BY <1>3, <2>2, <3>1, LastChosen
    <3> HIDE DEF l, D, f
    <3>3. l \in S /\ f.created < l.created
      BY <1>3, <3>2 DEF Last
    <3>4. \A s \in S : s.created <= l.created
      <4>1. ASSUME NEW s \in S, s.kind = "Full" PROVE s.created <= l.created
        <5>1. s.created <= f.created
          BY <1>1, <4>1 DEF Fulls
        <5> QED
          BY <1>1, <1>2, <3>3, <5>1
      <4>2. ASSUME NEW s \in S, s.kind = "Delta" PROVE s.created <= l.created
        <5>1. CASE s \in D
          BY <3>2, <5>1 DEF Last
        <5>2. CASE ~(f.created < s.created)
          BY <1>1, <1>2, <3>3, <5>2
        <5> QED
          BY <1>3, <4>2, <5>1, <5>2
      <4> QED
        BY <1>2, <4>1, <4>2
    <3> QED
      BY <3>3, <3>4 DEF Last
  <2> QED
    BY <2>1, <2>2
<1> HIDE DEF l
<1>5. \A m : Last(m, S) => m = l
  BY <1>2, <1>4 DEF Last
<1>6. l.last \in Nat /\ \A s \in S : s.last <= l.last
  BY <1>2, <1>4 DEF Last
<1> QED
  BY <1>4, <1>5, <1>6 DEF l, CoveredRevision

\* A copy differs in the flag only.
LEMMA CopyFields ==
    ASSUME NEW s \in Snapshot
    PROVE  /\ Copy(s) \in Snapshot /\ Copy(s).created = s.created /\ Copy(s).last = s.last
           /\ Copy(s).kind = s.kind
BY DEF Copy, Snapshot

-----------------------------------------------------------------------------
(* The stores *)

\* What is in the source or was when it was listed, and all copies of it.
Primary == source \cup listed
Copies == {Copy(s) : s \in Primary} \cup dest

\* The source holds or has held all that is in the destination, and covers it.
StoresFit ==
    /\ clock \in Nat /\ IsFiniteSet(source)
    /\ InSequence(Primary, clock) /\ InSequence(Copies, clock)
    /\ Copies # {} => Fulls(source) # {}
    /\ \A s \in Copies : s.last <= CoveredRevision(source)

\* A subset of a sequence is one.
LEMMA SequencePart ==
    ASSUME NEW n, NEW S, InSequence(S, n), NEW T, T \subseteq S
    PROVE  InSequence(T, n)
BY DEF InSequence

\* What follows for each store.
LEMMA EachFits ==
    ASSUME StoresFit
    PROVE  /\ InSequence(source, clock) /\ InSequence(listed, clock) /\ InSequence(dest, clock)
           /\ source # {} \/ listed # {} \/ dest # {} => Fulls(source) # {}
           /\ \A s \in source \cup listed : s \in Snapshot /\ Copy(s) \in Copies
           /\ Fulls(source) # {} => CoveredRevision(source) \in Nat
<1>1. source \subseteq Primary /\ listed \subseteq Primary /\ dest \subseteq Copies
  BY DEF Primary, Copies
<1>2. InSequence(source, clock) /\ InSequence(listed, clock) /\ InSequence(dest, clock)
  BY <1>1, SequencePart DEF StoresFit
<1>3. \A s \in source \cup listed : s \in Snapshot /\ Copy(s) \in Copies
  BY <1>2 DEF InSequence, Copies, Primary
<1>4. source # {} \/ listed # {} \/ dest # {} => Fulls(source) # {}
  BY <1>1, <1>3 DEF StoresFit
<1>5. Fulls(source) # {} => CoveredRevision(source) \in Nat
  BY <1>2, LatestIsLast DEF StoresFit
<1> QED
  BY <1>2, <1>3, <1>4, <1>5

\* Nothing new, and the source stays.
LEMMA StoresStay ==
    ASSUME StoresFit, UNCHANGED <<source, clock>>, Primary' \subseteq Primary,
           Copies' \subseteq Copies
    PROVE  StoresFit'
<1>1. InSequence(Primary', clock) /\ InSequence(Copies', clock)
  BY SequencePart DEF StoresFit
<1> QED
  BY <1>1 DEF StoresFit, InSequence

\* Garbage collection of the source does not touch its end.
LEMMA SourceCollected ==
    ASSUME StoresFit, NEW s \in source, Less(s, LatestFull(source)), source' = source \ {s},
           UNCHANGED <<clock, listed, dest>>
    PROVE  /\ StoresFit'
           /\ Fulls(source') # {} /\ LatestFull(source') = LatestFull(source)
<1> DEFINE f == LatestFull(source)
           m == LatestSnapshot(source)
<1>1. InSequence(source, clock) /\ Fulls(source) # {} /\ clock \in Nat
  BY EachFits DEF StoresFit
<1>2. Last(f, Fulls(source)) /\ Last(m, source)
  BY <1>1, LatestFullIsLast, LatestIsLast
<1>3. f \in source /\ s.created < f.created /\ f.created \in Nat /\ s.created \in Nat
      /\ f.created <= m.created /\ m.created \in Nat
  <2>1. f \in source /\ m \in source
    BY <1>2 DEF Last, Fulls
  <2>2. s.created < f.created
    BY <1>1, <2>1, LessIsEarlier
  <2> QED
    BY <1>1, <1>2, <2>1, <2>2 DEF Last, InSequence
<1> HIDE DEF f, m
<1>4. f \in Fulls(source') /\ m \in source' /\ Fulls(source') \subseteq Fulls(source)
  BY <1>2, <1>3 DEF Last, Fulls
<1>5. Last(f, Fulls(source')) /\ Last(m, source')
  BY <1>2, <1>4 DEF Last
<1>6. InSequence(source', clock)
  BY <1>1, SequencePart
<1>7. LatestFull(source') = f /\ LatestSnapshot(source') = m
  BY <1>1, <1>4, <1>5, <1>6, LatestFullIsLast, LatestIsLast
<1>8. CoveredRevision(source') = CoveredRevision(source)
  BY <1>7 DEF CoveredRevision, m
<1>9. Primary' \subseteq Primary /\ Copies' \subseteq Copies
  BY DEF Primary, Copies
<1>10. InSequence(Primary', clock) /\ InSequence(Copies', clock)
  BY <1>9, SequencePart DEF StoresFit
<1>11. IsFiniteSet(source')
  BY FS_RemoveElement DEF StoresFit
<1>12. \A t \in Copies' : t.last <= CoveredRevision(source')
  BY <1>8, <1>9 DEF StoresFit
<1>13. StoresFit'
  BY <1>4, <1>10, <1>11, <1>12 DEF StoresFit, InSequence
<1> QED
  BY <1>4, <1>7, <1>13 DEF f

\* Garbage collection of the destination does not touch its end.
LEMMA DestCollected ==
    ASSUME StoresFit, NEW s \in dest, Less(s, LatestFull(dest)), dest' = dest \ {s},
           UNCHANGED <<clock, listed, source>>
    PROVE  StoresFit' /\ LatestFull(dest') = LatestFull(dest)
<1> DEFINE f == LatestFull(dest)
<1>1. InSequence(dest, clock) /\ clock \in Nat
  BY EachFits DEF StoresFit
<1>2. Fulls(dest) # {}
  <2>1. s.last \in Nat /\ s.created \in Nat
    BY <1>1 DEF InSequence, Snapshot
  <2>2. ~Less(s, NilSnapshot)
    BY <2>1 DEF Less, NilSnapshot
  <2> QED
    BY <2>2 DEF LatestFull
<1>3. Last(f, Fulls(dest))
  BY <1>1, <1>2, LatestFullIsLast
<1>4. f \in dest /\ s.created < f.created
  <2>1. f \in dest
    BY <1>3 DEF Last, Fulls
  <2> QED
    BY <1>1, <2>1, LessIsEarlier
<1> HIDE DEF f
<1>5. f \in Fulls(dest') /\ Fulls(dest') \subseteq Fulls(dest)
  <2>1. f # s
    BY <1>1, <1>4 DEF InSequence
  <2> QED
    BY <1>3, <1>4, <2>1 DEF Last, Fulls
<1>6. Last(f, Fulls(dest')) /\ InSequence(dest', clock)
  BY <1>1, <1>3, <1>5, SequencePart DEF Last
<1>7. LatestFull(dest') = f
  BY <1>1, <1>5, <1>6, LatestFullIsLast
<1>8. Primary' \subseteq Primary /\ Copies' \subseteq Copies
  BY DEF Primary, Copies
<1> QED
  BY <1>7, <1>8, StoresStay DEF f

\* The next snapshot.
LEMMA SequenceGrows ==
    ASSUME NEW n \in Nat, NEW S, InSequence(S, n), NEW x \in Snapshot, x.created = n + 1,
           \A s \in S : s.last <= x.last
    PROVE  InSequence(S \cup {x}, n + 1)
<1>1. \A s \in S : s.created \in 1 .. n /\ s.created # x.created /\ s.created < x.created
  BY DEF InSequence
<1>2. x.last <= x.last
  BY DEF Snapshot
<1>3. S \cup {x} \subseteq Snapshot /\ \A s \in S \cup {x} : s.created \in 1 .. n + 1
  BY <1>1 DEF InSequence
<1>4. ASSUME NEW s \in S \cup {x}, NEW t \in S \cup {x}
      PROVE  /\ s.created = t.created => s = t
             /\ s.created < t.created => s.last <= t.last
  BY <1>1, <1>4 DEF InSequence
<1> QED
  BY <1>3, <1>4 DEF InSequence

\* The snapshotter saves the next snapshot.
LEMMA SourceGrows ==
    ASSUME StoresFit, NEW x \in Snapshot, x.created = clock + 1, \A s \in Copies : s.last <= x.last,
           x.kind = "Full" \/ Fulls(source) # {}, source' = source \cup {x}, clock' = clock + 1,
           UNCHANGED <<listed, dest>>
    PROVE  /\ StoresFit' /\ Fulls(source') # {}
           /\ Fulls(source) # {} => LatestFull(source).last <= LatestFull(source').last
<1>1. clock \in Nat /\ clock' \in Nat /\ InSequence(source, clock)
  BY EachFits DEF StoresFit
<1>2. Copy(x) \in Snapshot /\ Copy(x).created = clock + 1 /\ Copy(x).last = x.last
  BY CopyFields
<1>3. \A s \in Primary : s.last <= x.last
  <2>1. \A s \in Primary : Copy(s) \in Copies /\ Copy(s).last = s.last
    BY EachFits, CopyFields DEF Primary
  <2> QED
    BY <2>1
<1>4. Primary' = Primary \cup {x} /\ Copies' = Copies \cup {Copy(x)}
  BY DEF Primary, Copies
<1>5. InSequence(Primary', clock') /\ InSequence(Copies', clock')
  BY <1>1, <1>2, <1>3, <1>4, SequenceGrows DEF StoresFit
<1>6. Fulls(source') # {} /\ Fulls(source) \subseteq Fulls(source')
  BY DEF Fulls
<1>7. InSequence(source', clock')
  BY <1>5, SequencePart DEF Primary
<1>8. CoveredRevision(source') = x.last
  <2>1. Last(x, source')
    BY <1>1 DEF Last, InSequence
  <2>2. LatestSnapshot(source') = x
    BY <1>1, <1>6, <1>7, <2>1, LatestIsLast
  <2> QED
    BY <2>2 DEF CoveredRevision
<1>9. \A s \in Copies' : s.last <= CoveredRevision(source')
  BY <1>2, <1>4, <1>8 DEF Snapshot
<1>10. IsFiniteSet(source')
  BY FS_AddElement DEF StoresFit
<1>11. StoresFit'
  BY <1>1, <1>5, <1>6, <1>9, <1>10 DEF StoresFit
<1>12. ASSUME Fulls(source) # {} PROVE LatestFull(source).last <= LatestFull(source').last
  <2> DEFINE f == LatestFull(source)
             g == LatestFull(source')
  <2>1. f \in Fulls(source) /\ Last(g, Fulls(source'))
    BY <1>1, <1>6, <1>7, <1>12, LatestFullIsLast DEF Last
  <2> HIDE DEF f, g
  <2>2. f \in source' /\ g \in source' /\ f.created <= g.created
    BY <1>6, <2>1 DEF Last, Fulls
  <2> QED
    BY <1>7, <2>2 DEF InSequence, Snapshot, f, g
<1> QED
  BY <1>6, <1>11, <1>12

\* Take is such a step.
LEMMA TakeKeepsStores ==
    ASSUME StoresFit, Take
    PROVE  /\ StoresFit' /\ Fulls(source') # {}
           /\ Fulls(source) # {} => LatestFull(source).last <= LatestFull(source').last
<1> DEFINE rev == CoveredRevision(source)
<1>1. UNCHANGED <<listed, dest>> /\ clock' = clock + 1 /\ clock \in Nat /\ clock + 1 \in Nat
  BY DEF Take, StoresFit
<1>2. rev \in Nat /\ (rev > 0 => Fulls(source) # {}) /\ \A s \in Copies : s.last \in Nat /\ s.last <= rev
  <2>1. CASE Fulls(source) # {}
    BY <2>1, EachFits DEF StoresFit, InSequence, Snapshot
  <2>2. CASE Fulls(source) = {}
    BY <2>2 DEF StoresFit, CoveredRevision, LatestSnapshot, DummySnapshot, FullSnapshot
  <2> QED
    BY <2>1, <2>2
<1>3. PICK x : /\ source' = source \cup {x}
               /\ \/ \E r \in {rev, rev + 1}, b \in BOOLEAN : x = FullSnapshot(r, r, clock + 1, b)
                  \/ rev > 0 /\ x = DeltaSnapshot(rev + 1, rev + 1, <<rev + 1>>, clock + 1)
  BY DEF Take
<1> HIDE DEF rev
<1>4. x \in Snapshot /\ x.created = clock + 1 /\ x.last \in {rev, rev + 1}
      /\ (x.kind = "Full" \/ Fulls(source) # {})
  <2>1. CASE \E r \in {rev, rev + 1}, b \in BOOLEAN : x = FullSnapshot(r, r, clock + 1, b)
    BY <1>1, <1>2, <2>1 DEF FullSnapshot, Snapshot
  <2>2. CASE rev > 0 /\ x = DeltaSnapshot(rev + 1, rev + 1, <<rev + 1>>, clock + 1)
    BY <1>1, <1>2, <2>2 DEF DeltaSnapshot, Snapshot
  <2> QED
    BY <1>3, <2>1, <2>2
<1>5. \A s \in Copies : s.last <= x.last
  BY <1>2, <1>4
<1> QED
  BY <1>1, <1>3, <1>4, <1>5, SourceGrows

-----------------------------------------------------------------------------
(* The workers and their queue *)

\* What a worker may be at while the backups of this round are copied.
Jobs ==
    {Idle, Ended} \cup {Working("fetch", s) : s \in listed}
      \cup {Working("save", Copy(s)) : s \in listed}
      \cup {Working("error", s) : s \in listed \cup {Copy(t) : t \in listed}}

Busy == {w \in Workers : worker[w].at \in Places}

\* The WaitGroup counts what is queued and what is being copied.
PoolFits ==
    /\ todo \subseteq listed /\ queue \in Seq(listed) /\ worker \in [Workers -> Jobs]
    /\ wg = Len(queue) + Cardinality(Busy)
    /\ enq \in {"wait", "closed", "ended"} => todo = {}
    /\ enq \in {"closed", "ended"} => wg = 0
    /\ pc # "collect" => todo = {} /\ wg = 0 /\ enq \in {"none", "ended"}

\* A job's fields.
LEMMA JobFields ==
    \A place, s : Working(place, s).at = place /\ Working(place, s).snap = s
BY DEF Working

\* What a worker's job says about it.
LEMMA JobCases ==
    ASSUME NEW j \in Jobs
    PROVE  /\ j.at \notin Places => j \in {Idle, Ended}
           /\ j.at = "fetch" => j.snap \in listed /\ j = Working("fetch", j.snap)
           /\ j.at = "save" => \E s \in listed : j.snap = Copy(s) /\ j = Working("save", Copy(s))
           /\ j = Idle => j.at \notin Places
<1>0. Idle.at \notin Places /\ Ended.at \notin Places
  BY DEF Idle, Ended, Places
<1>1. CASE j \in {Idle, Ended}
  BY <1>0, <1>1 DEF Places
<1>2. CASE \E s \in listed : j = Working("fetch", s)
  BY <1>0, <1>2, JobFields DEF Places
<1>3. CASE \E s \in listed : j = Working("save", Copy(s))
  BY <1>0, <1>3, JobFields DEF Places
<1>4. CASE \E s : j = Working("error", s)
  BY <1>0, <1>4, JobFields DEF Places
<1> QED
  BY <1>1, <1>2, <1>3, <1>4 DEF Jobs

\* The workers can be counted.
LEMMA BusyCount ==
    IsFiniteSet(Busy) /\ Cardinality(Busy) \in Nat /\ (Cardinality(Busy) = 0 <=> Busy = {})
<1>1. IsFiniteSet(Busy)
  BY CopierAssumption, FS_Subset DEF Busy
<1> QED
  BY <1>1, FS_CardinalityType, FS_EmptySet

\* One worker goes on.
LEMMA BusyStep ==
    ASSUME NEW w \in Workers, NEW j, worker' = [worker EXCEPT ![w] = j], DOMAIN worker = Workers
    PROVE  /\ (w \in Busy <=> j.at \in Places) => Busy' = Busy
           /\ w \notin Busy /\ j.at \in Places => Cardinality(Busy') = Cardinality(Busy) + 1
           /\ w \in Busy /\ j.at \notin Places => Cardinality(Busy') = Cardinality(Busy) - 1
<1>1. \A v \in Workers : v \in Busy' <=> IF v = w THEN j.at \in Places ELSE v \in Busy
  BY DEF Busy
<1>2. Busy' \subseteq Workers /\ Busy \subseteq Workers
  BY DEF Busy
<1>3. ASSUME w \in Busy <=> j.at \in Places PROVE Busy' = Busy
  BY <1>1, <1>2, <1>3
<1>4. ASSUME w \notin Busy, j.at \in Places PROVE Cardinality(Busy') = Cardinality(Busy) + 1
  <2>1. Busy' = Busy \cup {w}
    BY <1>1, <1>2, <1>4
  <2> QED
    BY <1>4, <2>1, BusyCount, FS_AddElement
<1>5. ASSUME w \in Busy, j.at \notin Places PROVE Cardinality(Busy') = Cardinality(Busy) - 1
  <2>1. Busy' = Busy \ {w}
    BY <1>1, <1>2, <1>5
  <2> QED
    BY <1>5, <2>1, BusyCount, FS_RemoveElement
<1> QED
  BY <1>3, <1>4, <1>5

\* When the WaitGroup is at zero, nothing is queued and no worker is busy.
LEMMA Quiet ==
    ASSUME PoolFits, wg = 0
    PROVE  queue = <<>> /\ Busy = {} /\ worker \in [Workers -> {Idle, Ended}]
<1>1. Len(queue) \in Nat /\ (Len(queue) = 0 => queue = <<>>)
  BY DEF PoolFits
<1>2. Len(queue) = 0 /\ Cardinality(Busy) = 0
  BY <1>1, BusyCount DEF PoolFits
<1>3. Busy = {}
  BY <1>2, BusyCount
<1>4. \A w \in Workers : worker[w] \in {Idle, Ended}
  BY <1>3, JobCases DEF PoolFits, Busy
<1> QED
  BY <1>1, <1>2, <1>3, <1>4 DEF PoolFits

-----------------------------------------------------------------------------
(* Every step keeps the stores and the pool *)

\* A backup is part of the store that it is listed from.
LEMMA ListedPart ==
    ASSUME NEW S, NEW n, NEW cutoff
    PROVE  UNION {Backup(S, f) : f \in Selected(S, n, cutoff)} \subseteq S
<1>1. ASSUME NEW f \in Selected(S, n, cutoff) PROVE Backup(S, f) \subseteq S
  BY DEF Selected, Fulls, Backup
<1> QED
  BY <1>1

\* The steps of the stores' users.
LEMMA StoreStep ==
    ASSUME StoresFit, PoolFits, CopyNext
    PROVE  StoresFit'
<1>1. CASE Take
  BY <1>1, TakeKeepsStores
<1>2. CASE CollectGarbage
  <2>1. ASSUME NEW s \in source, Less(s, LatestFull(source)), source' = source \ {s}, UNCHANGED dest
        PROVE  StoresFit'
    BY <1>2, <2>1, SourceCollected DEF CollectGarbage
  <2>2. ASSUME NEW s \in dest, Less(s, LatestFull(dest)), dest' = dest \ {s}, UNCHANGED source
        PROVE  StoresFit'
    BY <1>2, <2>2, DestCollected DEF CollectGarbage
  <2> QED
    BY <1>2, <2>1, <2>2 DEF CollectGarbage
<1>3. CASE OtherCopies
  <2>1. PICK s \in source : dest' = dest \cup {Copy(s)}
    BY <1>3 DEF OtherCopies
  <2>2. UNCHANGED <<source, clock, listed>>
    BY <1>3 DEF OtherCopies
  <2>3. Primary' = Primary /\ Copies' \subseteq Copies
    BY <2>1, <2>2 DEF Primary, Copies
  <2> QED
    BY <2>2, <2>3, StoresStay
<1>4. CASE ListSource
  <2>1. UNCHANGED <<source, clock, dest>>
    BY <1>4 DEF ListSource, stores
  <2>2. listed' \subseteq source
    BY <1>4, ListedPart DEF ListSource
  <2>3. Primary' \subseteq Primary /\ Copies' \subseteq Copies
    BY <2>1, <2>2 DEF Primary, Copies
  <2> QED
    BY <2>1, <2>3, StoresStay
<1>5. CASE SyncBackups
  <2>1. UNCHANGED <<source, clock, dest>> /\ listed' = {}
    BY <1>5 DEF SyncBackups, stores
  <2>2. Primary' \subseteq Primary /\ Copies' \subseteq Copies
    BY <2>1 DEF Primary, Copies
  <2> QED
    BY <2>1, <2>2, StoresStay
<1>6. ASSUME NEW w \in Workers, Save(w) PROVE StoresFit'
  <2>1. UNCHANGED <<source, clock, listed>> /\ dest' \in {dest, dest \cup {worker[w].snap}}
    BY <1>6 DEF Save
  <2>2. worker[w] \in Jobs /\ worker[w].at = "save"
    BY <1>6 DEF PoolFits, Save
  <2>3. worker[w].snap \in Copies
    BY <2>2, JobCases DEF Copies, Primary
  <2>4. Primary' = Primary /\ Copies' \subseteq Copies
    BY <2>1, <2>3 DEF Primary, Copies
  <2> QED
    BY <2>1, <2>4, StoresStay
<1>7. ASSUME UNCHANGED <<source, clock, listed, dest>> PROVE StoresFit'
  <2>1. Primary' = Primary /\ Copies' = Copies
    BY <1>7 DEF Primary, Copies
  <2> QED
    BY <1>7, <2>1, StoresStay
<1>8. CASE WaitForFinal \/ ListDest \/ Collected \/ Enqueue \/ Close
  BY <1>7, <1>8 DEF WaitForFinal, ListDest, Collected, Enqueue, Close, stores
<1>9. ASSUME NEW w \in Workers, Dequeue(w) \/ FetchSnapshot(w) \/ SendError(w) PROVE StoresFit'
  BY <1>7, <1>9 DEF Dequeue, FetchSnapshot, SendError, stores
<1> QED
  BY <1>1, <1>2, <1>3, <1>4, <1>5, <1>6, <1>8, <1>9 DEF CopyNext, CopyBackups, Worker

\* A step that leaves the pool and the listing alone.
LEMMA PoolStays ==
    ASSUME PoolFits, UNCHANGED <<pool, listed>>, pc' # "collect" => pc # "collect" \/ enq = "ended"
    PROVE  PoolFits'
<1>1. UNCHANGED <<todo, queue, enq, wg, worker, listed>>
  BY DEF pool
<1>2. Jobs' = Jobs /\ Busy' = Busy
  BY <1>1 DEF Jobs, Busy
<1> QED
  BY <1>1, <1>2 DEF PoolFits

\* Between two rounds the listing may change: no worker has anything of the old one.
LEMMA PoolRelisted ==
    ASSUME PoolFits, UNCHANGED pool, pc # "collect", pc' # "collect"
    PROVE  PoolFits'
<1>1. UNCHANGED <<todo, queue, enq, wg, worker>>
  BY DEF pool
<1>2. todo = {} /\ wg = 0 /\ enq \in {"none", "ended"} /\ queue = <<>>
      /\ worker \in [Workers -> {Idle, Ended}]
  BY Quiet DEF PoolFits
<1>3. queue' \in Seq(listed') /\ worker' \in [Workers -> Jobs']
  BY <1>1, <1>2 DEF Jobs
<1>4. Busy' = Busy
  BY <1>1 DEF Busy
<1> QED
  BY <1>1, <1>2, <1>3, <1>4 DEF PoolFits

\* One worker goes on to a job of this round, and the counters with it.
LEMMA WorkerStep ==
    ASSUME PoolFits, NEW w \in Workers, NEW j \in Jobs, worker' = [worker EXCEPT ![w] = j],
           UNCHANGED <<pc, listed, todo, enq>>, queue' \in Seq(listed),
           wg' = Len(queue') + Cardinality(Busy'),
           enq \in {"closed", "ended"} \/ pc # "collect" => wg' = 0
    PROVE  PoolFits'
<1>1. Jobs' = Jobs
  BY DEF Jobs
<1>2. worker' \in [Workers -> Jobs]
  BY DEF PoolFits
<1> QED
  BY <1>1, <1>2 DEF PoolFits

\* The workers' steps.
LEMMA WorkerKeepsPool ==
    ASSUME PoolFits, NEW w \in Workers, Worker(w)
    PROVE  PoolFits'
<1> DEFINE j == worker[w]
<1>1. j \in Jobs /\ DOMAIN worker = Workers /\ Len(queue) \in Nat /\ queue \in Seq(listed)
      /\ wg = Len(queue) + Cardinality(Busy) /\ Cardinality(Busy) \in Nat
      /\ (w \in Busy <=> j.at \in Places)
  BY BusyCount DEF PoolFits, Busy
<1>2. ASSUME w \in Busy PROVE Cardinality(Busy) # 0 /\ wg # 0
  BY <1>1, <1>2, BusyCount
<1>3. enq \in {"closed", "ended"} \/ pc # "collect" => wg = 0
  BY DEF PoolFits
<1>4. Idle \in Jobs /\ Ended \in Jobs /\ Idle.at \notin Places /\ Ended.at \notin Places
      /\ \A s : Working("fetch", s).at \in Places /\ Working("save", s).at \in Places
                /\ Working("error", s).at \in Places
  BY DEF Jobs, Idle, Ended, Working, Places
<1> HIDE DEF j
<1>5. CASE Dequeue(w)
  <2>1. UNCHANGED <<pc, listed, todo, enq, wg>> /\ j = Idle /\ w \notin Busy
    BY <1>1, <1>4, <1>5 DEF Dequeue, j
  <2>2. CASE queue # <<>> /\ worker' = [worker EXCEPT ![w] = Working("fetch", Head(queue))]
             /\ queue' = Tail(queue)
    <3>1. Head(queue) \in listed /\ queue' \in Seq(listed) /\ Len(queue') = Len(queue) - 1
          /\ Len(queue) # 0
      BY <1>1, <2>2
    <3>2. Working("fetch", Head(queue)) \in Jobs
      BY <3>1 DEF Jobs
    <3>3. Cardinality(Busy') = Cardinality(Busy) + 1
      BY <1>1, <1>4, <2>1, <2>2, BusyStep
    <3>4. wg' = Len(queue') + Cardinality(Busy')
      BY <1>1, <2>1, <3>1, <3>3
    <3>5. worker' = [worker EXCEPT ![w] = Working("fetch", Head(queue))]
      BY <2>2
    <3> QED
      BY <1>3, <2>1, <3>1, <3>2, <3>4, <3>5, WorkerStep
  <2>3. CASE worker' = [worker EXCEPT ![w] = Ended] /\ UNCHANGED queue
    <3>1. Busy' = Busy
      BY <1>1, <1>4, <2>1, <2>3, BusyStep
    <3> QED
      BY <1>1, <1>3, <1>4, <2>1, <2>3, <3>1, WorkerStep
  <2> QED
    BY <1>5, <2>2, <2>3 DEF Dequeue
<1>6. CASE FetchSnapshot(w)
  <2>1. UNCHANGED <<pc, listed, todo, enq, wg, queue>> /\ j.at = "fetch"
    BY <1>6 DEF FetchSnapshot, j
  <2>2. PICK k \in {Working("save", Copy(j.snap)), Working("error", j.snap)} :
             worker' = [worker EXCEPT ![w] = k]
    BY <1>6 DEF FetchSnapshot, j
  <2>3. k \in Jobs
    <3>1. j.snap \in listed
      BY <1>1, <2>1, JobCases
    <3> QED
      BY <2>2, <3>1 DEF Jobs
  <2>4. Busy' = Busy
    <3>1. w \in Busy
      BY <1>1, <2>1 DEF Places
    <3> QED
      BY <1>1, <1>4, <2>2, <3>1, BusyStep
  <2> QED
    BY <1>1, <1>3, <2>1, <2>2, <2>3, <2>4, WorkerStep
<1>7. ASSUME UNCHANGED <<pc, listed, todo, enq, queue>>, j.at \in Places,
             worker' = [worker EXCEPT ![w] = Idle], wg' = wg - 1
      PROVE  PoolFits'
  <2>1. w \in Busy
    BY <1>1, <1>7
  <2>2. Cardinality(Busy') = Cardinality(Busy) - 1
    BY <1>1, <1>4, <1>7, <2>1, BusyStep
  <2>3. wg' = Len(queue') + Cardinality(Busy')
    BY <1>1, <1>7, <2>2
  <2>4. ~(enq \in {"closed", "ended"} \/ pc # "collect")
    BY <1>2, <1>3, <2>1
  <2> QED
    BY <1>1, <1>4, <1>7, <2>3, <2>4, WorkerStep
<1>8. CASE Save(w)
  <2>1. UNCHANGED <<pc, listed, todo, enq, queue>> /\ j.at = "save" /\ j.at \in Places
    BY <1>8 DEF Save, j, Places
  <2>2. CASE worker' = [worker EXCEPT ![w] = Idle] /\ wg' = wg - 1
    BY <1>7, <2>1, <2>2
  <2>3. CASE worker' = [worker EXCEPT ![w] = Working("error", j.snap)] /\ UNCHANGED wg
    <3>1. Working("error", j.snap) \in Jobs
      BY <1>1, <2>1, JobCases DEF Jobs
    <3>2. Busy' = Busy
      BY <1>1, <1>4, <2>1, <2>3, BusyStep
    <3> QED
      BY <1>1, <1>3, <2>1, <2>3, <3>1, <3>2, WorkerStep
  <2> QED
    BY <1>8, <2>2, <2>3 DEF Save, j
<1>9. CASE SendError(w)
  BY <1>7, <1>9 DEF SendError, j, Places
<1> QED
  BY <1>5, <1>6, <1>8, <1>9 DEF Worker

\* Every step keeps the pool.
LEMMA PoolStep ==
    ASSUME PoolFits, CopyNext
    PROVE  PoolFits'
<1>1. CASE Take \/ CollectGarbage \/ OtherCopies \/ WaitForFinal \/ Collected
  <2>1. UNCHANGED <<pool, listed>> /\ (pc' # "collect" => pc # "collect" \/ enq = "ended")
    BY <1>1 DEF Take, CollectGarbage, OtherCopies, WaitForFinal, Collected
  <2> QED
    BY <2>1, PoolStays
<1>2. CASE ListSource \/ SyncBackups
  <2>1. UNCHANGED pool /\ pc # "collect" /\ pc' # "collect"
    BY <1>2 DEF ListSource, SyncBackups, Returns
  <2> QED
    BY <2>1, PoolRelisted
<1>3. CASE ListDest
  <2>1. pc = "destList" /\ UNCHANGED <<listed, queue, wg>>
    BY <1>3 DEF ListDest
  <2>2. todo = {} /\ wg = 0 /\ enq \in {"none", "ended"}
    BY <2>1 DEF PoolFits
  <2>3. queue = <<>> /\ Busy = {}
    BY <2>2, Quiet
  <2>4. CASE pc' # "collect" /\ todo' = {} /\ UNCHANGED <<enq, worker>>
    BY <2>1, <2>2, <2>4, PoolRelisted DEF pool
  <2>5. CASE /\ pc' = "collect" /\ todo' \subseteq listed /\ enq' = "queue"
             /\ worker' = [w \in Workers |-> Idle]
    <3>1. worker' \in [Workers -> Jobs'] /\ Busy' = {}
      BY <2>5 DEF Jobs, Busy, Idle, Places
    <3>2. wg' = Len(queue') + Cardinality(Busy')
      BY <2>1, <2>2, <2>3, <3>1, FS_EmptySet
    <3>3. todo' \subseteq listed' /\ queue' \in Seq(listed')
      BY <2>1, <2>5 DEF PoolFits
    <3> QED
      BY <2>5, <3>1, <3>2, <3>3 DEF PoolFits
  <2> QED
    BY <1>3, <2>2, <2>4, <2>5 DEF ListDest, Returns
<1>4. CASE Enqueue \/ Close
  <2>1. UNCHANGED <<pc, listed, worker>> /\ Jobs' = Jobs /\ Busy' = Busy
    BY <1>4 DEF Enqueue, Close, Jobs, Busy
  <2>2. Len(queue) \in Nat /\ Cardinality(Busy) \in Nat
    BY BusyCount DEF PoolFits
  <2>3. CASE Close
    BY <2>1, <2>3 DEF Close, PoolFits
  <2>4. CASE enq = "queue" /\ todo = {} /\ enq' = "wait" /\ UNCHANGED <<todo, queue, wg>>
    BY <2>1, <2>4 DEF PoolFits
  <2>5. ASSUME NEW s \in todo, enq = "queue", wg' = wg + 1, UNCHANGED enq, queue' = Append(queue, s),
               todo' = todo \ {s}
        PROVE  PoolFits'
    <3>1. s \in listed /\ queue' \in Seq(listed) /\ Len(queue') = Len(queue) + 1
      BY <2>5 DEF PoolFits
    <3>2. wg' = Len(queue') + Cardinality(Busy')
      BY <2>1, <2>2, <2>5, <3>1 DEF PoolFits
    <3>3. pc = "collect"
      BY <2>5 DEF PoolFits
    <3> QED
      BY <2>1, <2>5, <3>1, <3>2, <3>3 DEF PoolFits
  <2> QED
    BY <1>4, <2>3, <2>4, <2>5 DEF Enqueue
<1> QED
  BY <1>1, <1>2, <1>3, <1>4, WorkerKeepsPool DEF CopyNext, CopyBackups

-----------------------------------------------------------------------------
(* What is listed *)

\* The round goes on with the latest full snapshot of the source, and that is not older
\* than the final snapshot that was waited for.
ListedFits ==
    /\ pc \in {"destList", "collect"} => Fulls(listed) # {} /\ final <= LatestFull(listed).last
    /\ pc = "destList" => ~errs
    /\ final \in Nat
    /\ final # 0 => Fulls(source) # {} /\ final <= LatestFull(source).last
    /\ pc = "idle" => cmd = "sync"
    /\ pc = "wait" => final = 0

\* Whatever number and age are asked for, the latest backup is selected if any is.
LEMMA ListedNewest ==
    ASSUME StoresFit, NEW n \in Nat \cup {-1}, NEW cutoff \in Nat,
           UNION {Backup(source, f) : f \in Selected(source, n, cutoff)} # {}
    PROVE  LET L == UNION {Backup(source, f) : f \in Selected(source, n, cutoff)}
           IN Fulls(L) # {} /\ LatestFull(L) = LatestFull(source)
<1> DEFINE L == UNION {Backup(source, f) : f \in Selected(source, n, cutoff)}
           F == LatestFull(source)
           Later(f) == {g \in Fulls(source) : g.created > f.created}
<1>1. PICK f \in Selected(source, n, cutoff) : TRUE
  OBVIOUS
<1>2. f \in Fulls(source) /\ f.created > cutoff /\ (n >= 0 => Cardinality(Later(f)) < n)
  BY <1>1 DEF Selected
<1>3. clock \in Nat /\ InSequence(source, clock)
  BY EachFits DEF StoresFit
<1>4. Last(F, Fulls(source))
  BY <1>2, <1>3, LatestFullIsLast
<1>5. \A g \in Fulls(source) : g.created \in Nat /\ g.created <= F.created
  BY <1>3, <1>4 DEF InSequence, Last, Fulls
<1>6. F \in Fulls(source) /\ F.created > cutoff
  BY <1>2, <1>4, <1>5 DEF Last
<1>7. n >= 0 => Cardinality(Later(F)) < n
  <2>1. Later(F) = {}
    BY <1>5, <1>6
  <2>2. IsFiniteSet(Later(f))
    BY FS_Subset DEF StoresFit, Fulls
  <2>3. Cardinality(Later(f)) \in Nat /\ Cardinality(Later(F)) = 0
    BY <2>1, <2>2, FS_CardinalityType, FS_EmptySet
  <2> HIDE DEF Later
  <2> QED
    BY <1>2, <2>3
<1>8. F \in Selected(source, n, cutoff)
  BY <1>6, <1>7 DEF Selected
<1>9. F \in L
  BY <1>8 DEF Backup
<1>10. L \subseteq source
  BY ListedPart
<1> HIDE DEF L
<1>11. Last(F, Fulls(L)) /\ InSequence(L, clock)
  BY <1>3, <1>5, <1>6, <1>9, <1>10, SequencePart DEF Last, Fulls
<1>12. Fulls(L) # {} /\ LatestFull(L) = F
  BY <1>3, <1>11, LatestFullIsLast DEF Last
<1> QED
  BY <1>12 DEF L

\* Every step keeps it.
LEMMA ListedStep ==
    ASSUME StoresFit, PoolFits, ListedFits, CopyNext
    PROVE  ListedFits'
<1>1. CASE Take
  <2>1. UNCHANGED <<cmd, pc, listed, errs, final>>
    BY <1>1 DEF Take
  <2>2. final # 0 => Fulls(source') # {} /\ final <= LatestFull(source').last
    <3>1. ASSUME final # 0 PROVE final <= LatestFull(source').last
      <4>1. Fulls(source) # {} /\ final <= LatestFull(source).last /\ final \in Nat
        BY <3>1 DEF ListedFits
      <4>2. Fulls(source') # {} /\ LatestFull(source).last <= LatestFull(source').last
        BY <1>1, <4>1, TakeKeepsStores
      <4>3. StoresFit' /\ InSequence(source, clock) /\ InSequence(source', clock') /\ clock \in Nat
            /\ clock' \in Nat
        BY <1>1, TakeKeepsStores, EachFits, SequencePart DEF StoresFit, Primary
      <4>4. LatestFull(source) \in source /\ LatestFull(source') \in source'
        BY <4>1, <4>2, <4>3, LatestFullIsLast DEF Last, Fulls
      <4>5. LatestFull(source).last \in Nat /\ LatestFull(source').last \in Nat
        BY <4>3, <4>4 DEF InSequence, Snapshot
      <4> QED
        BY <4>1, <4>2, <4>5
    <3> QED
      BY <1>1, <3>1, TakeKeepsStores
  <2> QED
    BY <2>1, <2>2 DEF ListedFits
<1>2. CASE CollectGarbage
  <2>1. UNCHANGED <<cmd, pc, listed, errs, final>>
    BY <1>2 DEF CollectGarbage
  <2>2. CASE UNCHANGED source
    BY <2>1, <2>2 DEF ListedFits
  <2>3. ASSUME NEW s \in source, Less(s, LatestFull(source)), source' = source \ {s}, UNCHANGED dest
        PROVE  ListedFits'
    <3>1. Fulls(source') # {} /\ LatestFull(source') = LatestFull(source)
      BY <1>2, <2>3, SourceCollected DEF CollectGarbage
    <3> QED
      BY <2>1, <3>1 DEF ListedFits
  <2> QED
    BY <1>2, <2>2, <2>3 DEF CollectGarbage
<1>3. CASE WaitForFinal
  <2>1. pc = "wait" /\ pc' \in {"list", "done"} /\ UNCHANGED <<cmd, source, listed>>
    BY <1>3 DEF WaitForFinal, stores
  <2>2. CASE UNCHANGED final
    BY <2>1, <2>2 DEF ListedFits
  <2>3. ASSUME NEW f \in Latest4, final' = f.last PROVE ListedFits'
    <3>1. f \in Fulls(source) /\ clock \in Nat /\ InSequence(source, clock)
      BY <2>3, EachFits DEF Latest4, StoresFit
    <3>2. Last(LatestFull(source), Fulls(source))
      BY <3>1, LatestFullIsLast
    <3> DEFINE F == LatestFull(source)
    <3>3. F \in source /\ f \in source /\ f.created <= F.created
      BY <3>1, <3>2 DEF Last, Fulls
    <3> HIDE DEF F
    <3>4. f.last \in Nat /\ f.last <= F.last
      BY <3>1, <3>3 DEF InSequence, Snapshot
    <3> QED
      BY <2>1, <2>3, <3>1, <3>4 DEF ListedFits, F
  <2> QED
    BY <1>3, <2>2, <2>3 DEF WaitForFinal
<1>4. CASE ListSource
  <2>1. UNCHANGED <<cmd, source, final>>
    BY <1>4 DEF ListSource, stores
  <2>2. CASE Returns
    BY <2>1, <2>2 DEF ListedFits, Returns
  <2>3. CASE ~Returns
    <3>1. PICK n \in {IF cmd = "copy" THEN MaxBackups ELSE -1},
               cutoff \in IF cmd = "copy" THEN 0 .. clock ELSE {0} :
               /\ errs' = FALSE /\ pc' = "destList"
               /\ listed' = UNION {Backup(source, f) : f \in Selected(source, n, cutoff)}
               /\ listed' # {}
      BY <1>4, <2>3 DEF ListSource
    <3>2. n \in Nat \cup {-1} /\ cutoff \in Nat
      BY CopierAssumption DEF StoresFit
    <3>3. Fulls(listed') # {} /\ LatestFull(listed') = LatestFull(source)
      BY <3>1, <3>2, ListedNewest
    <3>4. final = 0 => final <= LatestFull(source).last
      <4>1. listed' \subseteq source
        BY <3>1, ListedPart
      <4>2. LatestFull(source).last \in Nat
        <5>1. Fulls(source) # {} /\ InSequence(source, clock) /\ clock \in Nat
          BY <3>3, <4>1, EachFits DEF Fulls, StoresFit
        <5>2. LatestFull(source) \in source
          BY <5>1, LatestFullIsLast DEF Last, Fulls
        <5> QED
          BY <5>1, <5>2 DEF InSequence, Snapshot
      <4> QED
        BY <4>2
    <3> QED
      BY <2>1, <3>1, <3>3, <3>4 DEF ListedFits
  <2> QED
    BY <2>2, <2>3
<1>5. CASE ListDest \/ Collected \/ SyncBackups
  <2>1. UNCHANGED <<cmd, source, final>>
    BY <1>5 DEF ListDest, Collected, SyncBackups, stores
  <2>2. \/ pc' = "collect" /\ UNCHANGED listed /\ pc = "destList"
        \/ Returns
        \/ pc' \in {"list", "done"}
    BY <1>5 DEF ListDest, Collected, SyncBackups
  <2> QED
    BY <2>1, <2>2 DEF ListedFits, Returns
<1>6. CASE OtherCopies \/ Enqueue \/ Close
  <2>1. UNCHANGED <<cmd, source, pc, listed, errs, final>>
    BY <1>6 DEF OtherCopies, Enqueue, Close, stores
  <2> QED
    BY <2>1 DEF ListedFits
<1>7. ASSUME NEW w \in Workers, Dequeue(w) \/ FetchSnapshot(w) \/ Save(w) PROVE ListedFits'
  <2>1. UNCHANGED <<cmd, source, pc, listed, errs, final>>
    BY <1>7 DEF Dequeue, FetchSnapshot, Save, stores
  <2> QED
    BY <2>1 DEF ListedFits
<1>8. ASSUME NEW w \in Workers, SendError(w) PROVE ListedFits'
  BY <1>8 DEF SendError, stores, ListedFits
<1> QED
  BY <1>1, <1>2, <1>3, <1>4, <1>5, <1>6, <1>7, <1>8 DEF CopyNext, CopyBackups, Worker

-----------------------------------------------------------------------------
(* Nothing is forgotten *)

\* In the destination, or superseded there.
Settled(s) == Copy(s) \in dest \/ Less(s, LatestFull(dest))

\* A worker has s, or will.
UnderWay(s) ==
    \/ s \in todo
    \/ \E i \in 1 .. Len(queue) : queue[i] = s
    \/ \E w \in Workers : worker[w] \in {Working("fetch", s), Working("save", Copy(s))}

Failed == errs \/ \E w \in Workers : worker[w].at = "error"

\* What a restoration would need is settled or under way, unless a copy has failed.
NoneForgotten ==
    pc = "collect" => Failed \/ \A s \in RestoreSet(listed) : Settled(s) \/ UnderWay(s)

\* What a restoration needs is part of what it is restored from.
LEMMA NeededIsListed ==
    ASSUME NEW n \in Nat, NEW S, InSequence(S, n)
    PROVE  RestoreSet(S) \subseteq S
<1>1. LatestDeltas(S) \subseteq S
  BY DEF LatestDeltas
<1>2. Fulls(S) # {} => LatestFull(S) \in S
  BY LatestFullIsLast DEF Last, Fulls
<1> QED
  BY <1>1, <1>2 DEF RestoreSet

\* What is settled stays so when the destination grows.
LEMMA GrowthSettles ==
    ASSUME StoresFit, StoresFit', dest \subseteq dest', NEW s \in listed, Settled(s)
    PROVE  Copy(s) \in dest' \/ Less(s, LatestFull(dest'))
<1>1. clock \in Nat /\ clock' \in Nat /\ InSequence(dest, clock) /\ InSequence(dest', clock')
      /\ s \in Snapshot /\ s.created \in 1 .. clock
  <2>1. clock \in Nat /\ InSequence(dest, clock) /\ InSequence(listed, clock)
    BY EachFits DEF StoresFit
  <2>2. clock' \in Nat /\ InSequence(dest', clock')
    BY SequencePart DEF StoresFit, Copies
  <2> QED
    BY <2>1, <2>2 DEF InSequence
<1>2. CASE Copy(s) \in dest
  BY <1>2
<1>3. CASE Less(s, LatestFull(dest))
  <2> DEFINE f == LatestFull(dest)
             g == LatestFull(dest')
  <2>1. Fulls(dest) # {}
    <3>1. ASSUME Fulls(dest) = {} PROVE FALSE
      <4>1. f.last = 0 /\ f.created = 0
        BY <3>1 DEF LatestFull, NilSnapshot
      <4> QED
        BY <1>1, <1>3, <4>1 DEF Less, Snapshot
    <3> QED
      BY <3>1
  <2>2. f \in Fulls(dest) /\ Last(g, Fulls(dest'))
    <3>1. Fulls(dest') # {}
      BY <2>1 DEF Fulls
    <3> QED
      BY <1>1, <2>1, <3>1, LatestFullIsLast DEF Last
  <2> HIDE DEF f, g
  <2>3. f \in dest' /\ g \in dest' /\ f.created <= g.created
    BY <2>2 DEF Last, Fulls
  <2>4. f.last <= g.last /\ f.last \in Nat /\ g.last \in Nat /\ f.created \in Nat /\ g.created \in Nat
    <3>1. f \in Snapshot /\ g \in Snapshot /\ f.created \in Nat /\ g.created \in Nat
      BY <1>1, <2>3 DEF InSequence
    <3>2. f.last \in Nat /\ g.last \in Nat
      BY <3>1 DEF Snapshot
    <3>3. /\ f.created = g.created => f = g
          /\ f.created < g.created => f.last <= g.last
      BY <1>1, <2>3 DEF InSequence
    <3> QED
      BY <2>3, <3>1, <3>2, <3>3
  <2>5. Less(s, f)
    BY <1>3 DEF f
  <2>6. Less(s, g)
    BY <1>1, <2>3, <2>4, <2>5 DEF Less, Snapshot
  <2> QED
    BY <2>6 DEF g
<1> QED
  BY <1>2, <1>3 DEF Settled

\* So it does when something superseded is collected.
LEMMA CollectionSettles ==
    ASSUME StoresFit, NEW d \in dest, Less(d, LatestFull(dest)), dest' = dest \ {d},
           UNCHANGED <<clock, listed, source>>, NEW s \in listed, Settled(s)
    PROVE  Copy(s) \in dest' \/ Less(s, LatestFull(dest'))
<1>1. LatestFull(dest') = LatestFull(dest)
  BY DestCollected
<1>2. ASSUME Copy(s) = d PROVE Less(s, LatestFull(dest))
  <2>1. d.last = s.last /\ d.created = s.created
    BY <1>2, EachFits, CopyFields
  <2> QED
    BY <2>1 DEF Less
<1> QED
  BY <1>1, <1>2 DEF Settled

\* A step that loses nothing that is settled or under way.
LEMMA RememberedStays ==
    ASSUME StoresFit, NoneForgotten, pc = "collect", UNCHANGED listed, Failed => Failed',
           \A s \in listed : Settled(s) => Settled(s)',
           Failed' \/ \A s \in listed : UnderWay(s) => UnderWay(s)' \/ Settled(s)'
    PROVE  NoneForgotten'
<1>1. RestoreSet(listed) \subseteq listed
  BY EachFits, NeededIsListed DEF StoresFit
<1>2. RestoreSet(listed') = RestoreSet(listed)
  OBVIOUS
<1>3. CASE Failed'
  BY <1>3 DEF NoneForgotten
<1>4. CASE ~Failed'
  <2>1. \A s \in RestoreSet(listed) : Settled(s) \/ UnderWay(s)
    BY <1>4 DEF NoneForgotten
  <2>2. \A s \in RestoreSet(listed) : Settled(s)' \/ UnderWay(s)'
    BY <1>1, <1>4, <2>1
  <2> QED
    BY <1>2, <2>2 DEF NoneForgotten
<1> QED
  BY <1>3, <1>4

\* What one worker is not at stays under way when it goes on.
LEMMA OthersGoOn ==
    ASSUME NEW w, UNCHANGED <<todo, queue>>, \A v \in Workers : v # w => worker'[v] = worker[v],
           NEW s, UnderWay(s), worker[w] \notin {Working("fetch", s), Working("save", Copy(s))}
    PROVE  UnderWay(s)'
<1>1. CASE s \in todo \/ \E i \in 1 .. Len(queue) : queue[i] = s
  BY <1>1 DEF UnderWay
<1>2. ASSUME NEW v \in Workers, worker[v] \in {Working("fetch", s), Working("save", Copy(s))}
      PROVE  UnderWay(s)'
  <2>1. worker'[v] = worker[v]
    BY <1>2
  <2> QED
    BY <1>2, <2>1 DEF UnderWay
<1> QED
  BY <1>1, <1>2 DEF UnderWay

\* A worker's step.
LEMMA WorkerForgetsNothing ==
    ASSUME StoresFit, StoresFit', PoolFits, NoneForgotten, pc = "collect", NEW w \in Workers, Worker(w)
    PROVE  NoneForgotten'
<1> DEFINE j == worker[w]
<1>1. j \in Jobs /\ worker \in [Workers -> Jobs] /\ queue \in Seq(listed)
  BY DEF PoolFits
<1>2. UNCHANGED <<pc, listed, todo>> /\ dest \subseteq dest'
  BY DEF Worker, Dequeue, FetchSnapshot, Save, SendError, stores
<1>3. \A s \in listed : Settled(s) => Settled(s)'
  BY <1>2, GrowthSettles DEF Settled
<1>4. ASSUME NEW k, worker' = [worker EXCEPT ![w] = k], UNCHANGED errs, j.at # "error" \/ k.at = "error"
      PROVE  Failed => Failed'
  BY <1>1, <1>4 DEF Failed
<1>5. CASE Dequeue(w)
  <2>1. UNCHANGED errs /\ j = Idle /\ j.at # "error"
    BY <1>5 DEF Dequeue, Idle
  <2>2. CASE queue # <<>> /\ worker' = [worker EXCEPT ![w] = Working("fetch", Head(queue))]
             /\ queue' = Tail(queue)
    <3>1. Failed => Failed'
      BY <1>4, <2>1, <2>2
    <3>2. \A i \in 1 .. Len(queue) : queue[i] = Head(queue)
                                     \/ \E k \in 1 .. Len(queue') : queue'[k] = queue[i]
      <4>1. ASSUME NEW i \in 1 .. Len(queue), i # 1
            PROVE  i - 1 \in 1 .. Len(queue') /\ queue'[i - 1] = queue[i]
        BY <1>1, <2>2, <4>1
      <4>2. queue[1] = Head(queue)
        BY <1>1, <2>2
      <4> QED
        BY <4>1, <4>2
    <3>3. worker'[w] = Working("fetch", Head(queue)) /\ \A v \in Workers : v # w => worker'[v] = worker[v]
      BY <1>1, <2>2
    <3>4. \A s : j \notin {Working("fetch", s), Working("save", Copy(s))}
      BY <2>1 DEF Idle, Working
    <3>5. \A s \in listed : UnderWay(s) => UnderWay(s)'
      BY <1>2, <3>2, <3>3, <3>4 DEF UnderWay
    <3> QED
      BY <1>2, <1>3, <3>1, <3>5, RememberedStays
  <2>3. CASE worker' = [worker EXCEPT ![w] = Ended] /\ UNCHANGED queue
    <3>1. Failed => Failed'
      BY <1>4, <2>1, <2>3
    <3>2. \A s : j \notin {Working("fetch", s), Working("save", Copy(s))}
      BY <2>1 DEF Idle, Working
    <3>3. \A v \in Workers : v # w => worker'[v] = worker[v]
      BY <1>1, <2>3
    <3>4. \A s \in listed : UnderWay(s) => UnderWay(s)'
      BY <1>2, <2>3, <3>2, <3>3, OthersGoOn
    <3> QED
      BY <1>2, <1>3, <3>1, <3>4, RememberedStays
  <2> QED
    BY <1>5, <2>2, <2>3 DEF Dequeue
<1>6. ASSUME NEW s, worker' = [worker EXCEPT ![w] = Working("error", s)], UNCHANGED errs
      PROVE  NoneForgotten'
  <2>1. worker'[w] = Working("error", s)
    BY <1>1, <1>6
  <2>2. Failed'
    BY <2>1 DEF Failed, Working
  <2> QED
    BY <2>2 DEF NoneForgotten
<1>7. CASE FetchSnapshot(w)
  <2>1. UNCHANGED <<errs, queue>> /\ j.at = "fetch"
    BY <1>7 DEF FetchSnapshot
  <2>2. CASE worker' = [worker EXCEPT ![w] = Working("save", Copy(j.snap))]
    <3>1. Failed => Failed'
      BY <1>4, <2>1, <2>2
    <3>2. j = Working("fetch", j.snap)
      BY <1>1, <2>1, JobCases
    <3>3. worker'[w] = Working("save", Copy(j.snap)) /\ \A v \in Workers : v # w => worker'[v] = worker[v]
      BY <1>1, <2>2
    <3>4. \A s : j \in {Working("fetch", s), Working("save", Copy(s))} => s = j.snap
      BY <2>1, JobFields
    <3>5. \A s \in listed : UnderWay(s) => UnderWay(s)'
      <4>1. ASSUME NEW s \in listed, s = j.snap PROVE UnderWay(s)'
        BY <3>3, <4>1 DEF UnderWay
      <4>2. ASSUME NEW s \in listed, UnderWay(s), s # j.snap PROVE UnderWay(s)'
        BY <1>2, <2>1, <3>3, <3>4, <4>2, OthersGoOn
      <4> QED
        BY <4>1, <4>2
    <3> QED
      BY <1>2, <1>3, <3>1, <3>5, RememberedStays
  <2>3. CASE worker' = [worker EXCEPT ![w] = Working("error", j.snap)]
    BY <1>6, <2>1, <2>3
  <2> QED
    BY <1>7, <2>2, <2>3 DEF FetchSnapshot
<1>8. CASE Save(w)
  <2>1. UNCHANGED <<errs, queue>> /\ j.at = "save"
    BY <1>8 DEF Save
  <2>2. CASE dest' = dest \cup {j.snap} /\ worker' = [worker EXCEPT ![w] = Idle]
    <3>1. Failed => Failed'
      BY <1>4, <2>1, <2>2
    <3>2. \A s : j \in {Working("fetch", s), Working("save", Copy(s))} => Copy(s) \in dest'
      BY <2>1, <2>2, JobFields
    <3>3. \A v \in Workers : v # w => worker'[v] = worker[v]
      BY <1>1, <2>2
    <3>4. \A s \in listed : UnderWay(s) => UnderWay(s)' \/ Settled(s)'
      <4>1. ASSUME NEW s \in listed, UnderWay(s), Copy(s) \notin dest' PROVE UnderWay(s)'
        BY <1>2, <2>1, <3>2, <3>3, <4>1, OthersGoOn
      <4> QED
        BY <4>1 DEF Settled
    <3> QED
      BY <1>2, <1>3, <3>1, <3>4, RememberedStays
  <2>3. CASE worker' = [worker EXCEPT ![w] = Working("error", j.snap)]
    BY <1>6, <2>1, <2>3
  <2> QED
    BY <1>8, <2>2, <2>3 DEF Save
<1>9. CASE SendError(w)
  <2>1. Failed'
    BY <1>9 DEF SendError, Failed
  <2> QED
    BY <2>1 DEF NoneForgotten
<1> QED
  BY <1>5, <1>7, <1>8, <1>9 DEF Worker

\* Every step.
LEMMA NothingForgotten ==
    ASSUME StoresFit, StoresFit', PoolFits, NoneForgotten, CopyNext
    PROVE  NoneForgotten'
<1>1. CASE pc' # "collect"
  BY <1>1 DEF NoneForgotten
<1>2. CASE pc = "collect" /\ \E w \in Workers : Worker(w)
  BY <1>2, WorkerForgetsNothing
<1>3. CASE pc = "collect" /\ (Take \/ CollectGarbage \/ OtherCopies)
  <2>1. UNCHANGED <<listed, todo, queue, worker, errs>>
    BY <1>3 DEF Take, CollectGarbage, OtherCopies, pool
  <2>2. Failed' = Failed /\ \A s : UnderWay(s)' = UnderWay(s)
    BY <2>1 DEF Failed, UnderWay
  <2>3. CASE dest \subseteq dest'
    <3>1. \A s \in listed : Settled(s) => Settled(s)'
      BY <2>3, <2>1, GrowthSettles DEF Settled
    <3> QED
      BY <1>3, <2>1, <2>2, <3>1, RememberedStays
  <2>4. ASSUME NEW d \in dest, Less(d, LatestFull(dest)), dest' = dest \ {d}, CollectGarbage,
               UNCHANGED source
        PROVE  NoneForgotten'
    <3>1. UNCHANGED clock
      BY <2>4 DEF CollectGarbage
    <3>2. \A s \in listed : Settled(s) => Settled(s)'
      BY <2>1, <2>4, <3>1, CollectionSettles DEF Settled
    <3> QED
      BY <1>3, <2>1, <2>2, <3>2, RememberedStays
  <2> QED
    BY <1>3, <2>3, <2>4 DEF Take, CollectGarbage, OtherCopies
<1>4. CASE pc = "collect" /\ (Enqueue \/ Close)
  <2>1. UNCHANGED <<listed, dest, worker, errs>>
    BY <1>4 DEF Enqueue, Close, stores
  <2>2. Failed' = Failed /\ \A s : Settled(s)' = Settled(s)
    BY <2>1 DEF Failed, Settled
  <2>3. CASE UNCHANGED <<todo, queue>>
    <3>1. \A s : UnderWay(s)' = UnderWay(s)
      BY <2>1, <2>3 DEF UnderWay
    <3> QED
      BY <1>4, <2>1, <2>2, <3>1, RememberedStays
  <2>4. ASSUME NEW t \in todo, queue' = Append(queue, t), todo' = todo \ {t}
        PROVE  NoneForgotten'
    <3>1. queue \in Seq(listed) /\ t \in listed
      BY <2>4 DEF PoolFits
    <3>2. /\ \A i \in 1 .. Len(queue) : i \in 1 .. Len(queue') /\ queue'[i] = queue[i]
          /\ Len(queue') \in 1 .. Len(queue') /\ queue'[Len(queue')] = t
      BY <2>4, <3>1
    <3>3. \A s \in listed : UnderWay(s) => UnderWay(s)'
      BY <2>1, <2>4, <3>2 DEF UnderWay
    <3> QED
      BY <1>4, <2>1, <2>2, <3>3, RememberedStays
  <2> QED
    BY <1>4, <2>3, <2>4 DEF Enqueue, Close
<1>5. CASE ListDest /\ pc' = "collect"
  <2>1. UNCHANGED <<listed, dest>> /\ todo' = {s \in listed : Missing(s)}
    BY <1>5 DEF ListDest, Returns, stores
  <2>2. RestoreSet(listed') \subseteq listed
    BY <2>1, EachFits, NeededIsListed DEF StoresFit
  <2>3. \A s \in listed : Settled(s)' \/ UnderWay(s)'
    BY <2>1 DEF Settled, UnderWay, Missing
  <2> QED
    BY <2>2, <2>3 DEF NoneForgotten
<1>6. ASSUME pc # "collect", pc' = "collect" PROVE ListDest
  BY <1>6 DEF CopyNext, CopyBackups, Worker, Take, CollectGarbage, OtherCopies, WaitForFinal,
      ListSource, Collected, SyncBackups, Enqueue, Close, Dequeue, FetchSnapshot, Save, SendError,
      Returns
<1>7. ASSUME pc = "collect", pc' = "collect"
      PROVE  Take \/ CollectGarbage \/ OtherCopies \/ Enqueue \/ Close \/ \E w \in Workers : Worker(w)
  BY <1>7 DEF CopyNext, CopyBackups, WaitForFinal, ListSource, ListDest, Collected, SyncBackups,
      Returns
<1> QED
  BY <1>1, <1>2, <1>3, <1>4, <1>5, <1>6, <1>7

-----------------------------------------------------------------------------
(* The end of a round *)

CInv == StoresFit /\ PoolFits /\ ListedFits /\ NoneForgotten /\ FinalCopied

\* A round that ends without an error has settled everything.
LEMMA RoundSettles ==
    ASSUME StoresFit, PoolFits, NoneForgotten, CopyNext, pc \in {"destList", "collect"},
           pc' \in {"idle", "done"}, ~errs'
    PROVE  UNCHANGED <<listed, dest>> /\ \A s \in RestoreSet(listed) : Settled(s)
<1>1. RestoreSet(listed) \subseteq listed
  BY EachFits, NeededIsListed DEF StoresFit
<1>2. ListDest \/ Collected
  BY DEF CopyNext, CopyBackups, Worker, Take, CollectGarbage, OtherCopies, WaitForFinal,
      ListSource, Collected, SyncBackups, Enqueue, Close, Dequeue, FetchSnapshot, Save, SendError
<1>3. CASE ListDest
  <2>1. UNCHANGED <<listed, dest>> /\ {s \in listed : Missing(s)} = {}
    BY <1>3 DEF ListDest, stores
  <2> QED
    BY <1>1, <2>1 DEF Missing, Settled
<1>4. CASE Collected
  <2>1. UNCHANGED <<listed, dest, errs>> /\ pc = "collect" /\ enq = "ended"
    BY <1>4 DEF Collected, stores
  <2>2. todo = {} /\ wg = 0
    BY <2>1 DEF PoolFits
  <2>3. queue = <<>> /\ worker \in [Workers -> {Idle, Ended}]
    BY <2>2, Quiet
  <2>4. ~Failed
    BY <2>1, <2>3 DEF Failed, Idle, Ended
  <2>5. \A s : ~UnderWay(s)
    BY <2>2, <2>3 DEF UnderWay, Idle, Ended, Working
  <2> QED
    BY <2>1, <2>4, <2>5 DEF NoneForgotten
<1> QED
  BY <1>2, <1>3, <1>4

\* A store that has a full snapshot, or one later than it, reaches its revision.
LEMMA SettledIsCovered ==
    ASSUME StoresFit, NEW s \in listed, s.kind = "Full", Settled(s)
    PROVE  CoveredRevision(dest) \in Nat /\ s.last <= CoveredRevision(dest)
<1>1. clock \in Nat /\ InSequence(dest, clock) /\ s \in Snapshot /\ s.last \in Nat
      /\ s.created \in 1 .. clock
  <2>1. clock \in Nat /\ InSequence(dest, clock) /\ InSequence(listed, clock)
    BY EachFits DEF StoresFit
  <2> QED
    BY <2>1 DEF InSequence, Snapshot
<1>2. PICK f \in Fulls(dest) : f.last \in Nat /\ s.last <= f.last
  <2>1. CASE Copy(s) \in dest
    BY <1>1, <2>1, CopyFields DEF Fulls
  <2>2. CASE Less(s, LatestFull(dest))
    <3> DEFINE f == LatestFull(dest)
    <3>1. Fulls(dest) # {}
      <4>1. ASSUME Fulls(dest) = {} PROVE FALSE
        <5>1. f.last = 0 /\ f.created = 0
          BY <4>1 DEF LatestFull, NilSnapshot
        <5> QED
          BY <1>1, <2>2, <5>1 DEF Less
      <4> QED
        BY <4>1
    <3>2. f \in Fulls(dest)
      BY <1>1, <3>1, LatestFullIsLast DEF Last
    <3> HIDE DEF f
    <3>3. f.last \in Nat
      BY <1>1, <3>2 DEF InSequence, Snapshot, Fulls
    <3>4. s.last <= f.last
      BY <1>1, <2>2, <3>3 DEF Less, f
    <3> QED
      BY <3>2, <3>3, <3>4
  <2> QED
    BY <2>1, <2>2 DEF Settled
<1> DEFINE m == LatestSnapshot(dest)
<1>3. Last(m, dest)
  BY <1>1, <1>2, LatestIsLast
<1> HIDE DEF m
<1>4. m \in dest /\ f \in dest /\ f.created <= m.created
  BY <1>2, <1>3 DEF Last, Fulls
<1>5. m \in Snapshot /\ m.last \in Nat /\ m.created \in Nat /\ f.created \in Nat
  BY <1>1, <1>4 DEF InSequence, Snapshot
<1>6. /\ f.created = m.created => f = m
      /\ f.created < m.created => f.last <= m.last
  BY <1>1, <1>4 DEF InSequence
<1>7. s.last <= m.last
  BY <1>1, <1>2, <1>4, <1>5, <1>6
<1> QED
  BY <1>5, <1>7 DEF CoveredRevision, m

\* The copy that ends well has reached the final snapshot's revision; once it has ended,
\* nobody touches what it left.
LEMMA FinalStep ==
    ASSUME CInv, CopyNext
    PROVE  FinalCopied'
<1> USE DEF CInv
<1> SUFFICES ASSUME cmd' = "copy", pc' = "done", ~errs', final' # 0, listed' # {}
             PROVE  CoveredRevision(dest') >= final'
  BY DEF FinalCopied
<1>1. CASE pc \in {"destList", "collect"}
  <2>1. UNCHANGED <<listed, dest>> /\ \A s \in RestoreSet(listed) : Settled(s)
    BY <1>1, RoundSettles
  <2>2. UNCHANGED final
    BY <1>1 DEF CopyNext, CopyBackups, Worker, Take, CollectGarbage, OtherCopies, WaitForFinal,
        ListSource, ListDest, Collected, SyncBackups, Enqueue, Close, Dequeue, FetchSnapshot, Save,
        SendError
  <2> DEFINE F == LatestFull(listed)
  <2>3. Fulls(listed) # {} /\ final <= F.last /\ final \in Nat
    BY <1>1 DEF ListedFits
  <2>4. F \in Fulls(listed) /\ F \in RestoreSet(listed)
    BY <2>3, EachFits, LatestFullIsLast DEF StoresFit, Last, RestoreSet
  <2> HIDE DEF F
  <2>5. F \in listed /\ F.kind = "Full" /\ F.last \in Nat
    BY <2>4, EachFits DEF Fulls, Snapshot
  <2>6. CoveredRevision(dest) \in Nat /\ F.last <= CoveredRevision(dest)
    BY <2>1, <2>4, <2>5, SettledIsCovered
  <2> QED
    BY <2>1, <2>2, <2>3, <2>5, <2>6
<1>2. CASE pc \notin {"destList", "collect", "done"}
  <2>1. CASE WaitForFinal
    BY <2>1 DEF WaitForFinal
  <2>2. CASE ListSource
    BY <2>2 DEF ListSource
  <2>3. CASE SyncBackups
    BY <2>3 DEF SyncBackups
  <2>4. UNCHANGED pc \/ WaitForFinal \/ ListSource \/ SyncBackups
    BY <1>2 DEF CopyNext, CopyBackups, Worker, Take, CollectGarbage, OtherCopies, ListDest,
        Collected, Enqueue, Close, Dequeue, FetchSnapshot, Save, SendError
  <2> QED
    BY <1>2, <2>1, <2>2, <2>3, <2>4
<1>3. CASE pc = "done"
  <2>1. wg = 0 /\ enq \in {"none", "ended"}
    BY <1>3 DEF PoolFits
  <2>2. \A w \in Workers : worker[w].at \notin Places
    BY <2>1, Quiet DEF Busy
  <2>3. UNCHANGED <<cmd, listed, dest, errs, final>>
    BY <1>3, <2>1, <2>2 DEF CopyNext, CopyBackups, Worker, Take, CollectGarbage, OtherCopies,
        WaitForFinal, ListSource, ListDest, Collected, SyncBackups, Enqueue, Close, Dequeue,
        FetchSnapshot, Save, SendError, Places, stores
  <2> QED
    BY <1>3, <2>3 DEF FinalCopied
<1> QED
  BY <1>1, <1>2, <1>3

\* A copier starts with empty stores and without workers.
LEMMA CopyStart ==
    ASSUME CopyInit
    PROVE  CInv
<1>1. source = {} /\ dest = {} /\ clock = 0 /\ listed = {} /\ todo = {} /\ queue = <<>>
      /\ enq = "none" /\ wg = 0 /\ worker = [w \in Workers |-> Ended] /\ pc \in {"wait", "list"}
      /\ final = 0
  BY DEF CopyInit
<1>2. Primary = {} /\ Copies = {}
  BY <1>1 DEF Primary, Copies
<1>3. StoresFit
  BY <1>1, <1>2, FS_EmptySet DEF StoresFit, InSequence
<1>4. Busy = {} /\ worker \in [Workers -> Jobs] /\ queue \in Seq(listed) /\ Len(queue) = 0
  BY <1>1 DEF Busy, Jobs, Ended, Places
<1>5. PoolFits
  BY <1>1, <1>4, FS_EmptySet DEF PoolFits
<1>6. ListedFits /\ NoneForgotten /\ FinalCopied
  BY <1>1 DEF ListedFits, NoneForgotten, FinalCopied
<1> QED
  BY <1>3, <1>5, <1>6 DEF CInv

\* A step that leaves everything alone.
LEMMA CopyStutters ==
    ASSUME CInv, UNCHANGED copyVars
    PROVE  CInv'
<1>1. UNCHANGED <<cmd, source, dest, clock, pc, listed, todo, queue, enq, wg, worker, errs, final>>
  BY DEF copyVars, stores, pool
<1>2. StoresFit'
  BY <1>1, StoresStay DEF CInv, Primary, Copies
<1>3. PoolFits'
  BY <1>1, PoolStays DEF CInv, pool
<1>4. ListedFits' /\ FinalCopied'
  BY <1>1 DEF CInv, ListedFits, FinalCopied
<1>5. NoneForgotten'
  BY <1>1 DEF CInv, NoneForgotten, Failed, Settled, UnderWay
<1> QED
  BY <1>2, <1>3, <1>4, <1>5 DEF CInv

\* The invariant of the copier.
LEMMA CopyInvariance == CopySpec => []CInv
<1>1. CopyInit => CInv
  BY CopyStart
<1>2. CInv /\ [CopyNext]_copyVars => CInv'
  <2> SUFFICES ASSUME CInv, [CopyNext]_copyVars PROVE CInv'
    OBVIOUS
  <2>1. CASE CopyNext
    <3>1. StoresFit /\ PoolFits /\ ListedFits /\ NoneForgotten
      BY DEF CInv
    <3>2. StoresFit' /\ PoolFits'
      BY <2>1, <3>1, StoreStep, PoolStep
    <3>3. ListedFits' /\ NoneForgotten'
      BY <2>1, <3>1, <3>2, ListedStep, NothingForgotten
    <3>4. FinalCopied'
      BY <2>1, FinalStep
    <3> QED
      BY <3>2, <3>3, <3>4 DEF CInv
  <2> QED
    BY <2>1, CopyStutters
<1> QED
  BY <1>1, <1>2, PTL DEF CopySpec

\* For every number of workers, of backups asked for and of failing calls, and whatever the
\* snapshotter, the garbage collectors and the copier of an earlier term do meanwhile: a copy
\* that waited for a final snapshot, found it and ended without an error leaves a
\* destination that reaches the revision of that snapshot.
THEOREM FinalIsCopied == CopySpec => []FinalCopied
<1>1. CInv => FinalCopied
  BY DEF CInv
<1> QED
  BY <1>1, CopyInvariance, PTL

\* Likewise CopyBackups reports success only when all that a restoration from the listed
\* backups needs is in the destination or superseded there: the WaitGroup does not let the
\* errors be closed before the last copy is done, and no failed copy goes unreported.
THEOREM SyncIsComplete == CopySpec => SyncComplete
<1> DEFINE Complete ==
      (pc \in {"destList", "collect"} /\ pc' \in {"idle", "done"} /\ ~errs') =>
        (\A s \in RestoreSet(listed) : Copy(s) \in dest' \/ Less(s, LatestFull(dest')))
<1>1. CInv /\ [CopyNext]_copyVars => [Complete]_copyVars
  <2> SUFFICES ASSUME CInv, CopyNext, pc \in {"destList", "collect"}, pc' \in {"idle", "done"}, ~errs'
               PROVE  \A s \in RestoreSet(listed) : Copy(s) \in dest' \/ Less(s, LatestFull(dest'))
    OBVIOUS
  <2>1. UNCHANGED dest /\ \A s \in RestoreSet(listed) : Settled(s)
    BY RoundSettles DEF CInv
  <2> QED
    BY <2>1 DEF Settled
<1> QED
  BY <1>1, CopyInvariance, PTL DEF CopySpec, SyncComplete
=============================================================================
