-------------------------------- MODULE Bucket --------------------------------
(***************************************************************************)
(* The bucket that sidecars and the compactor share, beside the etcd whose *)
(* revisions it backs up, and what a restoration makes of it.              *)
(***************************************************************************)
EXTENDS Compactor

VARIABLES
    rev,         \* etcd's revision
    disturbed    \* ordinal of the last object that two loops at once, or a failing
                 \*   Save, left in the store

bucket == <<store, clock>>

HasBackup == Fulls(store) # {}

\* A restoration that reports success gives etcd's state at some revision the
\* backup claims to reach, with no event lost, repeated or reordered, from
\* whatever two sidecars, failing saves and the compactor left in the bucket.
RestoreSound ==
    HasBackup =>
      LET db == Restore(store)
      IN db # Failed => db.hist = UpTo(db.rev) /\ db.rev >= CoveredRevision(store)

\* The delta snapshots that a restoration would use follow each other without gap
\* or overlap.
Contiguous ==
    LET list == DeltaList(store)
    IN /\ \A i \in 2 .. Len(list) : list[i].start = list[i - 1].last + 1
       /\ list # <<>> => list[1].start <= LatestFull(store).last + 1

\* A replayable chain restores, up to the last revision it claims to cover, whoever
\* saved its snapshots.
ReplayableRestores ==
    HasBackup /\ Replayable(store) =>
      LET db == Restore(store)
      IN db # Failed /\ (LatestDeltas(store) # {} => db.rev = CoveredRevision(store))

\* Two sidecars at once may leave a chain that cannot be restored, but the first full
\* snapshot that comes after all of what they saved together ends that: from it on the
\* chain is without gap or overlap again.
ChainHeals ==
    HasBackup /\ (\A s \in store : s.created <= disturbed => Less(s, LatestFull(store))) =>
      Contiguous
=============================================================================
