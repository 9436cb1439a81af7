# Verification of etcd-backup-restore

TLA+ models of etcd-backup-restore, the sidecar that backs up an etcd cluster
to an object store, validates and restores its data directory, and moves
backups between stores. Each module is a translation of the Go code it names;
TLC checks the modules on small instances, and TLAPS proves every safety property that
the passing runs check for every value of the constants.

    tlc -config Failover.cfg Failover        # a run
    tlapm SnapshotterProofs.tla              # the proofs of a component

`PROJECT.json` lists the components, the runs, for every definition the source
lines it stands for, for every property a change of the code that breaks it,
and the hazards of the code with the properties that watch them.

## 1. The system

A sidecar runs beside each etcd member. Its parts, the state they own, and how
they meet:

| Part | State | Operations | Meets |
| --- | --- | --- | --- |
| Snapshotter (`pkg/snapshot/snapshotter/snapshotter.go`) | PrevSnapshot, events in memory, watch, timers, request and acknowledge channels | collect events, first delta, full, final and delta snapshot, handle watch, requests, stop | etcd (revision, watch), store, probe loop, HTTP API, garbage collector |
| Garbage collector (`garbagecollector.go`) | listing of a pass, position in it | list, delete chunk, delta, full snapshot | store, PrevSnapshot (read without lock), uploads |
| Snapstores (`pkg/snapstore`) | objects; for the cloud stores chunks, workers, retries of one upload | Save, List, Fetch, Delete | everyone |
| Restorer (`pkg/snapshot/restorer/restorer.go`) | embedded etcd, fetchers, applier, alarm handler, channels, temporary files | restore base, apply first delta, fetch, apply, make etcd lean, clean up | store, initializer, compactor |
| Initializer, validator, member control (`pkg/initializer`, `pkg/member`) | initialization status, data directory and its `.part` copy, membership | validate, restore, replace a member, add a learner | etcd container (HTTP), store, cluster, member lease |
| Leader election and server (`pkg/leaderelection`, `pkg/server/backuprestoreserver.go`) | elector state, terms with probe loop and defragmentor, handler status | poll, callbacks, probe, shut down | etcd status, snapshotter, lease renewal, HTTP API |
| Heartbeat (`pkg/health/heartbeat`, `fullsnapshotleaseupdate.go`) | renewal goroutines, stop channels, the timer of the full snapshot lease; the leases | renew member lease, update snapshot leases | Kubernetes, elector, snapshotter, compactor |
| Copier (`pkg/snapshot/copier/copier.go`) | queue, WaitGroup, error channel, workers | wait for final snapshot, copy, periodic sync | two stores, their writers and collectors |
| HTTP API (`pkg/server/httpAPI.go`) | initialization status, Snapshotter pointer | initialization, snapshots, configuration, delegation to the leader | all of the above |
| Compactor (`pkg/compactor`) | a listing, an embedded etcd | restore, compact, save a full snapshot, update its lease | store, restorer, sidecars, leases |
| Defragmentor, backoff, compressor, clients, metrics, commands | schedules and wiring | | server |

What makes it hard: every remote call may fail, also after it had its effect; the server
may crash between any two steps and continues from the store or the disk alone;
snapshotter, garbage collector, compactor, copier and requests interleave over one
store; the loops of one term of leadership outlive it, and a sidecar learns of an
election only from its next poll, so that for a while two of them write the same backup;
the watch on etcd may be lost or overtaken by compaction; a full snapshot's database may
be ahead of the revision in its name, since the revision is read first; the restorer,
the chunk upload and the copier are goroutine pools with bounded channels, timers and
WaitGroups whose shutdown must neither hang nor panic.

What correctness means: nothing that was backed up is lost, neither by the snapshotter
nor the garbage collector nor a copy; a restoration that reports success is exact; what
is written is backed up eventually; etcd never starts behind its backup or as a voter
that has forgotten its data, nor founds a second cluster; a sound data directory that can
be read is never thrown away; the leases name the latest snapshots; Save, Restore and a copy
return, and report failures; never two terms or lease renewals at once, and whatever a
term started ends.

## 2. The modules

| Module | Models | Run |
| --- | --- | --- |
| `SnapStore` | snapshots, their order in a listing, what a scan of the listing selects | |
| `BackupChain` | abstract: the covered revision follows etcd's and never falls back | |
| `Snapshotter` | the leader's probe loop and event handler, HTTP requests, etcd, store | `snapshotter_live` |
| `RestoreChain` | the restorer as a function of a store | `failover`, `snapshotter_overlap` |
| `MCSnapshotter` | one snapshotter, with the restorer applied to its store | `snapshotter_overlap` |
| `Compactor` | the compaction job | `failover` |
| `Bucket` | what is asked of a store that several write to | `failover` |
| `Failover` | two `Snapshotter`s, the elections between them and the `Compactor` over one store | `failover` |
| `SnapshotLeases` | the updates of the full and delta snapshot leases | `snapshot_leases` |
| `GarbageCollector`, `MCGarbageCollector` | passes of the collector beside uploads and the clock | `gc_limit`, `gc_exponential` |
| `LeaderElection` | elector, callbacks, terms, lease renewal, shutdown | `leader_election` |
| `Restorer` | the restoration pipeline | `restorer` |
| `Initialization` | initializer, validator, member control and the served configuration, over one member's volume | `initialization` |
| `ChunkUpload` | Save of the cloud stores | `chunk_upload`, `chunk_upload_oss` |
| `Copier` | copy command and periodic sync | `copier` |
| `SnapshotterProofs` | theorems about `Snapshotter`, alone and beside other writers of its store | |
| `BucketProofs`, `FailoverProofs` | theorems about `RestoreChain` and `Bucket`, and about `Failover` | |
| `GarbageCollectorProofs` | theorems about `GarbageCollector` and `MCGarbageCollector` | |
| `LeadershipProofs` | theorems about `LeaderElection` and `SnapshotLeases` | |
| `PipelineProofs` | theorems about `ChunkUpload` and `Restorer` | |
| `InitializationProofs`, `CopierProofs` | theorems about `Initialization` and `Copier` | |

**SnapStore.** A snapshot is a record of what its name says (kind, first and last
revision, creation, final) and what its object holds: the revision of a full
snapshot's database, the revisions of a delta snapshot's events. Creation times
are ordinals of the saves, so two saves within one second are told apart, which
the code's names do only if their revisions differ. `LatestFull`, `LatestDeltas`
and `LatestSnapshot` are what `GetLatestFullSnapshotAndDeltaSnapList` and
`NewSnapshotter` get from a sorted listing; `Sorted` is that listing, a snapshot's place
in it given by how many come before it.

**Snapshotter.** `pc` is where the goroutine of `runEtcdProbeLoopWithSnapshotter`
is, inside the functions it calls; `caller` says on whose behalf `takeFullSnapshot`
or the collection runs. `FullGet`, `FullSave` and `FullWatch` are the three parts of
`takeFullSnapshot` between which etcd moves on. `events` is `ssr.events`, `watch`
the next revision the watch delivers. Requests (`Trigger`) pass the check of the
state and then wait on the unbuffered channel until `FullRequest` or
`DeltaRequest` serves them. A failing `Save` leaves nothing; with `TornSave` it may
also leave its object whole (the answer was lost) or torn, as the local store does.
`Crash` forgets everything but etcd and the store. `hung` is the state in which `stop`
sends to a lease goroutine that was never started. Metrics, timers' durations and the
error of `resetFullSnapshotTimer` are left out; the leases have a module of their own.

**RestoreChain.** A database is its revision and the revisions whose events were
put into it, in order. `ApplyEvents` commits as `applyEventsToEtcd` does, so the
revision grows by the number of commits; `Verified` compares it with the name, and
`Readable` is the hash at the end of a delta snapshot. `Replay` is the function from the
number of delta snapshots applied to the database they give. A torn object keeps its name
and fails the restoration that reads it.

**Compactor.** `ListBackup` fixes the base and the delta snapshots of the job's options,
`RestoreListed` applies `RestoreChain!Restore` to them, and `SaveCompacted` saves the
database under the revision that was read from it, final if its base was. The sidecars
go on saving in between, and any call may fail.

**Failover.** Two instances of `Snapshotter`, each with its own variables, share etcd,
the store, its clock and the budget of faults. `Elect` changes etcd's leader; each
sidecar finds out with its own `Polls`, so that the loops of both may run at once, and
the compaction job runs beside them. `disturbed` remembers the last object that two
loops at once or a failing `Save` left behind; only `ChainHeals` reads it. `Spec` has the
bound `Apart` (section 3), `FullSpec` is the same without it.

**SnapshotLeases.** Each update of a lease is a Get and a Patch with other actors in
between. The full snapshot lease is patched with the resource version that was read
(`PatchFullLease` starts over after a conflict), the delta snapshot lease without.
Actors are the probe loop after its first snapshot, the event handler, the goroutine
`RenewFullSnapshotLeasePeriodically` with its timer, which the handler resets, the
compactor, and the handler of a sidecar that led before. `stop` sends on an unbuffered
channel to the goroutine, whose deferred function stops the timer (`RenewerExits`) and then
drops it (`DropTimer`), also one that the next goroutine has made. The pointer to the timer is
read anew at every use but not while a select waits for its channel. `Panic` is the use of a
dropped timer: the handler's reset, the goroutine on its way to its select (`loop`) or after
an update. A goroutine that waits already does not notice: it waits for ever if the timer was
stopped (`Stranded`), and still gets its tick if the timer was made between the two steps of
the deferred function (`lost`). The limit of
steps in `RetryOnConflict` is not reached, as the bounds allow fewer conflicts.

**GarbageCollector.** Objects are snapshots and, for GCS, their chunks. A pass
lists the store, then looks at one chunk, one stream of delta snapshots, one full
snapshot at a time, each deletion a remote call that may fail or be refused as
the object is immutable. Uploads, crashes and the clock go on in between. Hours
are exact in the arithmetic of the exponential policy, as its end of day lies 59
minutes and 59 seconds past an hour. Swift's segments, which its lister filters,
are left out.

**LeaderElection.** One server through `MaxChanges` changes of its etcd member's
status. Every term has its own probe loop and defragmentor, every start of the
lease renewal its own channel and goroutine. `StopLeaseRenewal` is the send on the
unbuffered channel that the elector waits for. `Settled` is an assumption about
time: a poll comes a re-election period after the one before, and by then a
cancelled loop has noticed, unless it is taking a snapshot, which is unbounded.

**Restorer.** Main goroutine, fetchers, applier and alarm handler with the channels
of `restoreFromDeltaSnapshots`, their capacities, the WaitGroup (whose `Add` is
called inside the goroutines) and the temporary files. It starts with at least two
delta snapshots; with fewer the goroutines do not exist.

**Initialization.** The volume, the `.part` copy, the backup, the member's place in
the cluster, the container that polls the HTTP API, and the server's steps, which
fail (`MaxFaults`) or are cut off by a crash (`MaxCrashes`). A directory has a
condition: sound, wrong structure, unreadable database, or damage that only the full
validation sees; its database file may lag behind its write-ahead log. When it has seen
a success, which the server reports only once and whose answer may be lost, the
container fetches the configuration (`ServeConfig`), whose initial-cluster-state is
`getClusterState`: "existing" during a roll-out of the statefulset or if there is a
learner, and "new" also if that question fails. A call that fails is answered as the
code answers it: a file `safe_guard` that cannot be read, a failing stat and a lock that is
held end the initialization (`FailedStatuses`), but any other error on the database file, in
full mode on any file, and an embedded etcd that does not start count as corruption
(`MisreadStatuses`, `Verify`). `unread` records what the current initialization could not
read: the two sources of `WasMemberInCluster`, the member list of `IsClusterScaledUp`, the
bucket of `checkStatus`, and the files of the directory; only the properties read it.
A multi-node member starts either before the cluster has formed, as a founder whose calls to
the cluster go unanswered until `Join` makes it a voter, or beside a cluster that has formed,
as a new member. Assumed: the volume is damaged only while nobody uses it and once the cluster
has formed, and deep damage only follows an unclean exit; the other members of a cluster that
has formed are up unless a call fails; exhausting the retries of `AddLearnerWithRetry`, which
exits the process, is a crash.

**ChunkUpload.** One `Save`: it queues the chunks, workers upload and report,
`collectChunkUploadError` counts successes and starts a timer for each failure, and
the last failure or success closes `stopCh`. The timer's check of `stopCh` and its
send are two steps. How the stores finish an upload differs (`Finish`).

**Copier.** The queue of capacity `|Workers|`, the enqueuing goroutine, the
unbuffered error channel and the WaitGroup. Around it the source is written and both
stores are garbage-collected, by what `GarbageCollector!LatestKept` promises, and the
copier of an earlier term saves its last snapshots. What is left to copy is a set, from
which `Enqueue` takes the first by the order of the code's list (`Before`). A wait for the final snapshot is
taken to have a timeout; without one it lasts until there is a final snapshot. That the
destination is collected only adds behaviours: the snapshotter that the server makes to
collect the secondary store is given the primary one (`backuprestoreserver.go`, line 241).
`FinalCopied` is about a copy that has something to do: the limits on number and age may
filter out the whole list, the final snapshot included.

## 3. What the runs check

Each property is stated with a comment in its module. The `TypeOK` of a module gives
the types of its variables; that of the snapshotter is proved.

| Run | Instance | Properties |
| --- | --- | --- |
| `snapshotter_live` | 2 revisions, 2 concurrent requests, 1 fault, 3 demands | `ChainWellFormed`, `NoEventLost`; `ImplementsBackup`, the refinement of `BackupChain` with the covered revision of the store; `RequestHonoured`, `BackedUpEventually`, `RequestAnswered`, `StopsWhenNotLeading` |
| `failover` | 3 revisions, 1 fault with torn saves or 1 election, 2 demands, 1 compaction | `RestoreSound`: a restoration that reports success is exact, from whatever two sidecars and the compactor left behind; `ReplayableRestores`: a chain of the expected shape does restore; `CompactionKeeps`; `ChainHeals` |
| `gc_limit` | limit 2, 4 uploads in chunks, 1 fault | `LatestKept`, `BackupsKept`, `DeltaChunksKept`, `CollectedEventually` |
| `gc_exponential` | steps of 1, 23, 144 and 700 hours, 3 uploads | `DailyKept`, `HourlyKept` against a record of all snapshots ever taken |
| `leader_election` | 2 changes of status, 1 failure, with and without snapshots and leases | `OneRenewal`, `OneTerm`, `TermsEnd`, `LeaderServes` |
| `snapshot_leases` | 2 revisions, 2 snapshots, 1 fault, 2 calls of `Run`, 1 compaction or stale update | `FullLeaseMonotone`, `FullLeaseCatchesUp`, `DeltaLeaseCatchesUp`, `StopReturns` |
| `restorer` | 3 delta snapshots after the first, 2 fetchers, 2 faults | `SuccessIsComplete`, `NoSendAfterClose`, `RestoreReturns` |
| `initialization` | 2 revisions, 1 damage, 2 faults, 1 crash; single and multi-node, with and without store, own and foreign volume | `NeverBehindBackup`, `NoForgetfulVoter`, `NoSecondCluster`, `SoundDirKept`, `EtcdRunsAgain` |
| `chunk_upload` | S3, ABS, GCS, Swift; 3 chunks, 2 workers, 1 retry | `SaveIsDurable`, `NeverBlocked`, `SaveReturns` |
| `copier` | 2 workers, 3 source snapshots, 1 fault | `SyncComplete`, `FinalCopied`, `CopyReturns`, `Converges` |

Two runs show a disagreement between the code and what it says of itself:

* `snapshotter_overlap`: a full snapshot is ahead of its name (revision 1, database
  at a later one), and a first delta snapshot ends below the database's revision.
  No event is new, `newRevisionIndex` stays 0, old events are applied again and the
  verification fails. The comment in `applyFirstDeltaSnapshot` says that this
  overlap is taken care of.
* `chunk_upload_oss`: when a chunk fails for good, OSS's `Save` aborts the upload and
  returns the error of the abort, which is nil if that worked. The snapshot is not in
  the store and the caller believes it is. The other four stores return the error.

**Bounds.** Two revisions are a full snapshot and a delta snapshot after it, three leave
one more for a full snapshot ahead of its name or for the second sidecar; the overlap
of `snapshotter_overlap` needs four. A demand is a term of leadership, a snapshot by
schedule or a request: three are a term with two of the others, and in `failover` two
are one term of each sidecar. There a behaviour has failing calls or elections, not
both (`Apart`): two sidecars with a fault as well are beyond a run of minutes. Two
faults are a failure and the failure of its repair. Two calls of `Run` let the lease
goroutine of the first still be exiting in the second. Four uploads with a limit of two
let the collector delete while an upload is open. The hours lead from one snapshot to
the same hour, the next day, the next week and past the last window. Two workers and
three chunks or snapshots make a worker start on a second one while the other still
holds the first. Deadlock is not checked, as every instance ends when its bounds are
spent; that nothing waits for ever is the liveness properties' matter.

**Fairness.** Weak fairness of every goroutine's steps: the Go scheduler runs what
can run, remote calls have timeouts, and timers fire (that of the delta snapshots again
and again). Nothing that comes from outside is fair: writes, requests, schedules of full snapshots, changes of
leadership, faults, crashes. Strong fairness is used once, for the stop signal of the
lease renewal: the goroutine comes back to its select again and again, and a Go
select with several ready cases picks one at random.

**What the properties leave out, because the code does not do it.**
`RestoreReturns` is claimed when no fetch fails: a fetcher whose persisting fails
sends up to three messages on `applierInfoCh`, and `cleanup` can wait for it for ever.
`DeltaChunksKept` is about delta snapshots: chunks of a full snapshot start at
revision 0 and are deleted during its upload. `gc_limit` runs with
snapshots that may be deleted at once (no immutability), so that `CollectedEventually` need not
wait for the clock; `gc_exponential` has an immutability period. `NoForgetfulVoter` excepts a voter
that lost its directory when `WasMemberInCluster` could read neither the member list nor the
lease and there is no backup, because none was taken or no store is configured: it starts as a
voter on an empty directory, and a member list that `IsClusterScaledUp` then reads does not
prevent it. If there is a backup, and only its first listing fails too, the directory is
restored from it instead of the member being replaced. `NoSecondCluster` excepts the same voter,
a new member for which `IsClusterScaledUp` failed, and the configuration that is served when
the question for a learner failed. `SoundDirKept` excepts a directory whose files could not be
read, or on which the embedded etcd did not start, in the initialization that gives it up:
such an error counts as corruption. With a backup a restored copy takes its place; without a
backup, or without a store, in full mode, the only copy of the data is removed. A watch that ends keeps the events in memory, so that a delta snapshot
may repeat events; `RestoreSound` shows that no restoration that succeeds is wrong for
it. While two sidecars lead, their delta snapshots may overlap and the store may not be
restorable; `ChainHeals` says that this ends with the first full snapshot that comes
after all of them. `CompactionKeeps` is claimed for a chain that could be replayed: when
a job compacts a listing older than a full snapshot that is ahead of its name, the
compacted one may supersede it and not fit the delta snapshots. `FullLeaseCatchesUp`
excepts a wake-up that the code loses: an update that succeeds stops the timer, also
when the handler has reset it for a newer snapshot meanwhile (`overtaken`); and a goroutine
whose timer the one before it has stopped and dropped (`Stranded`), until the handler takes
the next full snapshot and the process dies of the reset. The delta
snapshot lease may fall back when a stale sidecar patches it, until the next update. A
copy goes from the newest snapshot to the oldest, so that between rounds the secondary
store may have a gap; `SyncComplete` and `Converges` are about completed rounds.

## 4. What is proved

Every safety property that a passing run checks is a theorem, for every value of the
constants that the module's `ASSUME` admits: bounds and limits are naturals, and what the
code never has none of (snapshots to restore, fetchers, chunks, workers, backups to keep)
is not empty or zero. Where a theorem is about some configurations only, its own `ASSUME`
says so. None of the properties is inductive as it stands. Each proof has an inductive
invariant, checked with TLC before it was proved, and one lemma per action or group of
actions that keeps it.

| Module | Theorem | Property | Invariant |
| --- | --- | --- | --- |
| `SnapshotterProofs` | `TypeCorrect`, `ChainIsWellFormed`, `EventsAreKept`, `PrevIsTheLatest` | `TypeOK`, `ChainWellFormed`, `NoEventLost`, `PrevIsLatest` | `IInv` |
| | `RequestsAreHonoured` | `RequestHonoured` | `IInv`, `Serving` |
| | `RefinesBackup` | `ImplementsBackup` | `IInv` |
| `FailoverProofs` | `RestorationIsSound`, `ReplayableIsRestored`, `ChainIsHealed`, `CompactionIsSafe` | `RestoreSound`, `ReplayableRestores`, `ChainHeals`, `CompactionKeeps` | `FInv` |
| | `BoundedIsFull` | | |
| `GarbageCollectorProofs` | `RestorationIsSafe`, `ChunksAreSafe`, `LimitIsSafe` | `LatestKept`, `DeltaChunksKept`, `BackupsKept` | `GInv` |
| | `DailyBackupsStay`, `HourlyBackupsStay` | `DailyKept`, `HourlyKept` | `WInv` |
| `LeadershipProofs` | `TermIsUnique`, `RenewalIsUnique` | `OneTerm`, `OneRenewal` | `EInv` |
| | `FullLeaseNeverFallsBack` | `FullLeaseMonotone` | `ReadsFit` |
| `InitializationProofs` | `NotBehindBackup`, `VotersRemember`, `OneCluster` | `NeverBehindBackup`, `NoForgetfulVoter`, `NoSecondCluster` | `NInv` |
| | `SoundDirStays` | `SoundDirKept` | `NInv`, `Spared` |
| `CopierProofs` | `FinalIsCopied`, `SyncIsComplete` | `FinalCopied`, `SyncComplete` | `CInv` |
| `PipelineProofs` | `SavedMeansStored`, `ChannelsHaveRoom` | `SaveIsDurable`, `NeverBlocked` | `UInv` |
| | `SuccessMeansComplete`, `ClosedIsUnused` | `SuccessIsComplete`, `NoSendAfterClose` | `PInv` |

**Snapshotter** (from `~TornSave`: a `Save` that fails leaves nothing). That the next delta
snapshot fits the chain depends on `PrevSnapshot` being the newest snapshot of the store,
and on the events in memory reaching from it to the watch; after a restart it depends on
the newest snapshot being the one the sorted listing ends with. `IInv` says so:
`StoreOrdered` (saves are ordered by revision as by time, delta snapshots start past
everything before them), `StoreTop` (there is a newest snapshot, and a newest full one),
`DeltasFit`, `PrevIsTip`, `LoopPoints` (where in the loop there is something to continue)
and `EventsFit`. `LatestIsNewest` connects the order of the listing with the order of the
saves. The refinement uses that a save never lowers the newest revision. `Serving` follows
a request through `takeFullSnapshot`: it still waits for its answer, and once the snapshot
is saved or reused `PrevSnapshot` is what was asked for.

**Several writers.** With torn saves, a second sidecar and a compactor the chain need not
be well formed, so `IInv` does not hold. Two weaker things do. `SharedStore`: every
snapshot in the store has the contents its name claims or was cut short, and every delta
snapshot starts after some snapshot that is there. `Side`: the sidecar's `PrevSnapshot` is
in the store, if not its latest, and its events start after it. `SnapshotterProofs` shows
that each step of one sidecar keeps both, and that they survive what others add to the
store. `FailoverProofs` instantiates these lemmas once per sidecar (`P1`, `P2`).
`BucketProofs` shows what follows for a restoration (`Kept` is what it needs of
`SharedStore`):

* `RestoreIsSound`: in the sorted list no delta snapshot starts past the revision before
  it (`NoGap`: the snapshot it continues is in the store and sorts before it). The
  restorer compares revisions, and the revision grows with each commit, one per place
  where the revisions in the events go up. `UpsCount` shows that the count fits the last
  revision only if no event was repeated or missed, so a restoration that passes the
  comparison is exact.
* `ReplayableWorks` and `CompactionWorks`: a chain without gap or overlap passes it, and
  also with a compacted snapshot that was made from an older listing.
* `ChainHeals` needs that the delta snapshots saved since the last disturbance (`Calm`)
  follow each other and that a loop that runs is past them (`Orderly`, `Both`).

The theorems are about `FullSpec`, in which failing calls and elections mix freely;
`BoundedIsFull` says that what the run explores is a part of it.

**Garbage collector.** The collector works from a list that ages while uploads finish and
deletions fail. `GInv` says why that is safe: `ListFits` (until the streams are looked at,
all that is listed is there), `NewestKept` (the full snapshot of the latest stream is in
the store as long as anything may be deleted, and all that may be is older) and, for the
limit, `RestKept` (heads that the policy has not come to are there). What is older than
some full snapshot of the store is never used (`OldIsUnused`). For the exponential policy
`InOrder` adds that all snapshots ever recorded, listed or stored were taken one after the
other, and `WalkFits` that the walk goes down the list and moves the end of its day back
only when all that is left is older than a week: until then a full snapshot is deleted
only if a later one of the same day, or of the same hour, is in the list.

**Leadership.** `EInv` says that only the goroutine of the current stop channel renews,
and does so exactly while the status is known (`CurrentRenews`), and that a new channel
costs two changes of etcd's status (`ChannelsSuffice`), which bounds the channels that
the model has to have. `ReadsFit`: what an actor read for its patch is not newer than the
lease, and while the lease has that version the actor's snapshot is not behind it.

**Initialization.** `NInv` follows the directory from the validation to the start of etcd:
`Handshake` (Initialize runs only while etcd does not, and a reported success leads to a
start with nothing in between), `Progress` (what is true of the directory and the
membership at each place of Initialize, such as a whole `.part` copy before the rename
and a removed member before it is added again), `UpToDate`, `Overlooked` (a voter whose
heartbeat was not found had both its sources unread, as a voter has its name in the member
list and its lease renewed; a member that the cluster does not list and that was not added as
a learner had the scale-up check unread) and `Remembers` (what is true of a multi-node member
in `restoreCorruptData`, and of one left without a directory when the initialization has
succeeded). `Spared` follows the verdict on a directory: a single node comes to a restoration
only on its own volume and with a directory that is not sound or was not read, as the other
errors that a sound one may meet are among those that the code does not answer with a
restoration. That the replacement is whole is `Progress`.

**Chunk upload.** Both theorems count chunks that wander between two channels, workers
and timers. `UInv` says that there is a function `stage` that gives each chunk one place,
that each place holds its chunks once, and that `remaining` counts those that are not
done. A step moves one chunk from one stage to the next. That all chunks are stored when
`remaining` is 0, and that a channel has room for a chunk that is not in it, then follows
from the cardinality of finite sets. `SavedMeansStored` is for `Stores` without OSS.

**Copier.** `StoresFit`: what is in the source, was in it when it was listed or has been
copied was taken one after the other, and the source covers all of it, so that "latest"
means the same in both stores. `PoolFits`: the WaitGroup counts exactly what is queued
and what a worker is at, and is zero from the time the queue is closed. `ListedFits`: the
list has the latest full snapshot of the source, which is not older than the final one
that was waited for. `NoneForgotten`: what a restoration needs is in the destination,
superseded there, or under way, unless an error is on its way. At the end of a round
nothing is under way. A full snapshot that is superseded stays so while the destination
grows and is collected (`GrowthSettles`, `CollectionSettles`).

**Restorer.** Success needs that a failed fetch can never be made good: `PInv` says that
indexes are handed out once and in order, that the applier has applied a prefix of the
list, that nil can come from the applier alone and after the last snapshot, and that
after a failed fetch some index is `Lost`, held by no fetcher and without a file, so that
the last snapshot is never reached. `Closing` says that once `cleanup` has waited no
fetcher holds anything to send.

**Instead of induction.** The provers cannot use the library's induction theorems, which
take an operator. Where a proof needs one (a list has a first and a last element, the
function `Replay` is defined, a count of events), it takes a least counterexample:
`NatMin`, that a set of naturals has a least element, follows from the library's theorem
that strict inclusion of finite sets is well-founded.

Only model-checked: all liveness (outside the prover's reach), and that the two runs of
section 3 violate their properties.


## 5. Not modelled

* Compression, TLS and credentials with their reload, metrics, command-line options,
  file formats of etcd: library code or wiring, without a state that the properties
  speak of. A failing reload is one of the failing calls.
* The HTTP API's delegation of a request to the leader and its latest-snapshot
  endpoint, and the list of peers in the configuration (`getInitialCluster`): requests
  reach the `Snapshotter` of the member that leads.
* The update of a member's peer URL, after a restoration and before the leader election:
  one idempotent call to etcd, which changes nothing that the models tell apart.
* What `DefragmentData` does to the members, and their order: `LeaderElection` has the
  life of the schedule and its jobs only.
* Durations: of the backoff, the timers and the leases' `RenewTime`.
* A garbage collector beside two sidecars; `GarbageCollector` has one.

## 6. What could follow

1. *Requests*: delegation to the leader, with the handler's pointer and status, composed
   with `LeaderElection`.
2. *Garbage collection after a failover*: a second sidecar's chain in
   `GarbageCollector`.
3. *Proofs*: that the two sidecars of `Failover` refine `BackupChain` as long as nothing
   disturbs them.
