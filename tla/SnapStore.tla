------------------------------ MODULE SnapStore ------------------------------
(***************************************************************************)
(* The object store as the rest of the program sees it through            *)
(* brtypes.SnapStore: a set of snapshots, listed in the order of           *)
(* SnapList.Less.  A snapshot keeps what its name says (kind, first and    *)
(* last revision, creation time, final flag) and what its object holds:    *)
(*   db      of a full snapshot, the revision of the etcd database in it,  *)
(*   events  of a delta snapshot, the revisions of its events in order     *)
(*           (one event stands for all the events of one etcd revision).   *)
(* Creation times are the ordinals of the saves, so no two are equal.      *)
(***************************************************************************)
EXTENDS Integers, Sequences, FiniteSets

\* kind, start, last, created and final are parsed from the object's name;
\* db and events stand for its contents.
Snapshot == [kind : {"Full", "Delta"}, start : Nat, last : Nat, db : Nat,
             events : Seq(Nat), created : Nat, final : BOOLEAN]

\* Full snapshots start at revision 0 (saveSnapshotToStore).
FullSnapshot(r, db, time, isFinal) ==
    [kind |-> "Full", start |-> 0, last |-> r, db |-> db, events |-> <<>>,
     created |-> time, final |-> isFinal]

DeltaSnapshot(first, last, evs, time) ==
    [kind |-> "Delta", start |-> first, last |-> last, db |-> 0, events |-> evs,
     created |-> time, final |-> FALSE]

\* The stand-in for "no snapshot yet" in NewSnapshotter.
DummySnapshot == FullSnapshot(0, 0, 0, FALSE)

\* A pointer to a snapshot that is nil.
NilSnapshot == [kind |-> "Nil", start |-> 0, last |-> 0, db |-> 0, events |-> <<>>,
                created |-> 0, final |-> FALSE]

\* The object of s, cut short: its name is there, its contents are not all there.
Torn(s) == [s EXCEPT !.events = <<>>, !.db = 0]

\* The order List sorts by (snapshots only; chunks are in GarbageCollector).
Less(a, b) ==
    \/ a.last < b.last
    \/ a.last = b.last /\ a.created < b.created

\* The snapshots of S as List returns them: as many come before the i-th as indices
\* before i.
Sorted(S) ==
    [i \in 1 .. Cardinality(S) |->
       CHOOSE s \in S : Cardinality({t \in S : Less(t, s)}) = i - 1]

\* The revisions that a list of events holds.
Revisions(evs) == {evs[i] : i \in 1 .. Len(evs)}

Fulls(S) == {s \in S : s.kind = "Full"}

\* The full snapshot that the scan from the end of the list stops at.
LatestFull(S) ==
    IF Fulls(S) = {} THEN NilSnapshot
    ELSE CHOOSE f \in Fulls(S) : \A g \in Fulls(S) \ {f} : Less(g, f)

\* The delta snapshots that scan collects on the way: all of them, if there
\* is no full snapshot to stop at.
LatestDeltas(S) ==
    {d \in S : d.kind = "Delta" /\ (Fulls(S) # {} => Less(LatestFull(S), d))}

\* Last element of the sorted delta list.
LastDelta(S) ==
    CHOOSE d \in LatestDeltas(S) : \A e \in LatestDeltas(S) \ {d} : Less(e, d)

\* The snapshot a new Snapshotter continues from.
LatestSnapshot(S) ==
    IF Fulls(S) = {} THEN DummySnapshot
    ELSE IF LatestDeltas(S) = {} THEN LatestFull(S)
    ELSE LastDelta(S)

\* The revision up to which the store can serve a restoration.
CoveredRevision(S) == LatestSnapshot(S).last

\* What a restoration from S would use.
RestoreSet(S) == LatestDeltas(S) \cup IF Fulls(S) = {} THEN {} ELSE {LatestFull(S)}
==============================================================================
