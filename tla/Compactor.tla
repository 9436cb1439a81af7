------------------------------ MODULE Compactor ------------------------------
(***************************************************************************)
(* The compact command: a job of its own, beside the sidecars, that lists  *)
(* the store, restores what it listed into an embedded etcd, compacts that *)
(* and saves its database as one full snapshot, named after the restored   *)
(* revision.  Compaction and defragmentation of the embedded etcd change   *)
(* neither its revision nor its current data.                              *)
(***************************************************************************)
EXTENDS RestoreChain

CONSTANTS
    MaxJobs,     \* bound: runs of the command
    MaxFaults    \* bound: failing calls, shared with the sidecars

VARIABLES
    store, clock,   \* the object store, shared with the sidecars
    faults,
    job,            \* where the command is: idle, restore, save
    jobs,           \* runs so far
    listed,         \* the base and the delta snapshots of its options
    embedded        \* the embedded etcd's database

jobVars == <<job, jobs, listed, embedded>>

NoDB == [rev |-> 0, hist |-> <<>>]

CompactorInit == job = "idle" /\ jobs = 0 /\ listed = {} /\ embedded = NoDB

JobEnds == job' = "idle" /\ listed' = {} /\ embedded' = NoDB /\ UNCHANGED jobs

\* BuildRestoreOptionsAndStore; without a base snapshot there is nothing to compact.
ListBackup ==
    /\ job = "idle" /\ jobs < MaxJobs /\ Fulls(store) # {}
    /\ job' = "restore" /\ jobs' = jobs + 1
    /\ listed' = RestoreSet(store)
    /\ UNCHANGED <<store, clock, faults, embedded>>

\* Restore from the listing, then read the revision of the embedded etcd.
RestoreListed ==
    /\ job = "restore"
    /\ LET db == Restore(listed)
       IN IF db = Failed THEN JobEnds
          ELSE job' = "save" /\ embedded' = db /\ UNCHANGED <<jobs, listed>>
    /\ UNCHANGED <<store, clock, faults>>

\* Mutant: the snapshot keeps the name of its base.
CompactedAsBase ==
    FullSnapshot(LatestFull(listed).last, embedded.rev, clock + 1, LatestFull(listed).final)

\* Named after the revision that was read; final if the base was.
Compacted == FullSnapshot(embedded.rev, embedded.rev, clock + 1, LatestFull(listed).final)

SaveCompacted ==
    /\ job = "save"
    /\ store' = store \cup {Compacted} /\ clock' = clock + 1
    /\ JobEnds /\ UNCHANGED faults

\* Any call of the job fails; a Save that fails may leave an object.
CompactFails ==
    /\ job # "idle" /\ faults < MaxFaults /\ faults' = faults + 1
    /\ \/ UNCHANGED <<store, clock>>
       \/ /\ job = "save"
          /\ \E left \in {Compacted, Torn(Compacted)} : store' = store \cup {left}
          /\ clock' = clock + 1
    /\ JobEnds

CompactNext == ListBackup \/ RestoreListed \/ SaveCompacted \/ CompactFails
=============================================================================
