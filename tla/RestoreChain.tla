---------------------------- MODULE RestoreChain -----------------------------
(***************************************************************************)
(* What the restorer makes of a store: the base snapshot's database, the   *)
(* events of the first delta snapshot that the database does not hold yet, *)
(* then the events of the others, with the revision verified after each.   *)
(*                                                                         *)
(* A database is its revision and its history, the revisions of the        *)
(* original etcd whose events were put into it, in order.  It is the       *)
(* original's state at revision n exactly when the history is 1..n.        *)
(***************************************************************************)
EXTENDS SnapStore, FiniteSetsExt

UpTo(n) == [i \in 1 .. n |-> i]

Failed == [rev |-> -1, hist |-> <<>>]

\* restoreFromBaseSnapshot; a database that was cut short is refused by its hash.
RestoreBase(full) ==
    IF full.db = 0 THEN Failed ELSE [rev |-> full.db, hist |-> UpTo(full.db)]

\* A failure ends the restoration.
Then(db, next) == IF db = Failed THEN Failed ELSE next

\* readSnapshotContentsFromReadCloser: one that was cut short is refused by its hash.
Readable(delta) == delta.events # <<>>

\* applyEventsToEtcd commits what it gathered whenever the next event has a
\* higher revision, and the rest at the end: each commit is one revision of the
\* embedded etcd.  etcd refuses a transaction that puts the same key twice.
ApplyEvents(db, evs) ==
    IF \E i \in 2 .. Len(evs) : evs[i] = evs[i - 1] THEN Failed
    ELSE LET commits == {i \in 2 .. Len(evs) : evs[i] > evs[i - 1]}
         IN [rev |-> db.rev + 1 + Cardinality(commits), hist |-> db.hist \o evs]

\* Mutant: the restored revision is not compared with the snapshot's.
VerifiedBlindly(db, delta) == db

\* verifySnapshotRevision
Verified(db, delta) == IF db.rev = delta.last THEN db ELSE Failed

\* Mutant: the events of a first delta snapshot are all applied.
ApplyFirstWhole(db, delta) ==
    IF ~Readable(delta) THEN Failed
    ELSE IF db.rev = delta.last THEN db
    ELSE ApplyEvents(db, delta.events)

\* applyFirstDeltaSnapshot: the events that the base already holds are left out,
\* from the first event past the database's revision (index 0 if there is none).
ApplyFirst(db, delta) ==
    LET evs == delta.events
        new == {i \in DOMAIN evs : evs[i] > db.rev}
        from == IF new = {} THEN 1 ELSE Min(new)
    IN IF ~Readable(delta) THEN Failed
       ELSE IF db.rev = delta.last THEN db
       ELSE ApplyEvents(db, SubSeq(evs, from, Len(evs)))

ApplyNext(db, delta) ==
    Then(db, IF Readable(delta) THEN Verified(ApplyEvents(db, delta.events), delta) ELSE Failed)

DeltaList(S) == Sorted(LatestDeltas(S))

\* The databases on the way from the base along the list of delta snapshots.
Replay(base, list) ==
    LET db[i \in 0 .. Len(list)] ==
          IF i = 0 THEN base
          ELSE IF i = 1 THEN Then(base, Verified(ApplyFirst(base, list[1]), list[1]))
          ELSE ApplyNext(db[i - 1], list[i])
    IN db

\* Restore, given the latest full snapshot and its deltas; Failed if it returns
\* an error.
Restore(S) ==
    LET list == DeltaList(S)
    IN Replay(RestoreBase(LatestFull(S)), list)[Len(list)]

\* The chain is one that the restorer can replay: the full snapshot is whole,
\* every delta snapshot holds the events of its revisions once, and the first one
\* reaches the database's revision, which may be ahead of the full snapshot's name.
Replayable(S) ==
    LET list == DeltaList(S)
    IN /\ LatestFull(S).db > 0
       /\ \A i \in 2 .. Len(list) : list[i].start = list[i - 1].last + 1
       /\ \A i \in DOMAIN list :
            list[i].events = SubSeq(UpTo(list[i].last), list[i].start, list[i].last)
       /\ list # <<>> => list[1].last >= LatestFull(S).db
=============================================================================
