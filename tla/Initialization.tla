---------------------------- MODULE Initialization ----------------------------
(***************************************************************************)
(* The data directory of one etcd member before etcd starts: the handshake *)
(* between the etcd container and the server's /initialization endpoints,  *)
(* and EtcdInitializer.Initialize with the validator, the restoration into *)
(* <data-dir>.part, and the replacement of a member in a multi-node        *)
(* cluster.  The server may crash between any two steps and start anew.    *)
(*                                                                         *)
(* The etcd container is not part of the repository: it asks for an        *)
(* initialization, polls its status and, when that succeeded, fetches      *)
(* etcd's configuration from /config and starts etcd with it.              *)
(* A multi-node cluster that this member founds with others answers no     *)
(* call until it has formed; then the other members keep it available      *)
(* unless a call fails.                                                    *)
(***************************************************************************)
EXTENDS Naturals

CONSTANTS
    MaxRev,         \* bound: revisions
    MaxDamage,      \* bound: damages to the volume
    MaxFaults,      \* bound: failing calls
    MaxCrashes      \* bound: crashes of the server

ASSUME InitializationAssumption ==
    MaxRev \in Nat /\ MaxDamage \in Nat /\ MaxFaults \in Nat /\ MaxCrashes \in Nat

VARIABLES
    multi,      \* OriginalClusterSize > 1
    snapstore,  \* a storage provider is configured
    foreign,    \* the mounted volume is another namespace's
    dir,        \* the data directory
    part,       \* <data-dir>.part: none, partial or whole
    backup,     \* revision of the latest snapshot, 0 if there is none
    formed,     \* the cluster of several members has formed
    member,     \* in the cluster's member list: none, learner or voter
    named,      \* and there with its name, which it gets when its etcd has joined
    lease,      \* the member lease has a holder
    etcd,       \* etcd runs
    booting,    \* the container has seen a success and fetches the configuration
    conf,       \* the initial-cluster-state that etcd was started with
    clean,      \* etcd's last exit was normal
    status,     \* initializationStatus
    pc,         \* where Initialize is
    mode,       \* the validation mode it was asked for
    present,    \* memberHeartbeatPresent
    dirStatus,  \* dataDirStatus
    unread,     \* what this initialization asked for and could not read
    damage, faults, crashes

storage == <<dir, part, backup>>
cluster == <<formed, member, named, lease>>
container == <<etcd, booting, conf, clean>>
local == <<mode, present, dirStatus, unread>>
config == <<multi, snapstore, foreign>>
bounds == <<damage, faults, crashes>>
vars == <<config, storage, cluster, container, status, pc, local, bounds>>

Revs == 0 .. MaxRev

\* Damage the validator tells apart: no member/snap/wal directories; a database file that
\* cannot be read; and what only the checks of the full mode find.
Conditions == {"ok", "structure", "bolt", "deep"}

\* db is the revision of the database file, wal the one that replaying the WAL leads to.
Dirs == [exists : BOOLEAN, cond : Conditions, db : Revs, wal : Revs]
NoDir == [exists |-> FALSE, cond |-> "ok", db |-> 0, wal |-> 0]
Data(rev) == [exists |-> TRUE, cond |-> "ok", db |-> rev, wal |-> rev]

Statuses == {"Valid", "WrongVolumeMounted", "NotExist", "InvStruct", "Corrupt", "BoltDBCorrupt",
             "StatusUnknown", "InvalidInMultiNode", "RevisionConsistencyError",
             "FailToOpenBoltDB"}

\* The member list and the lease of WasMemberInCluster, the member list of
\* IsClusterScaledUp, the bucket of checkStatus, and the files of the data directory.
Sources == {"members", "lease", "scaleUp", "bucket", "directory"}

Places == {"idle", "wasMember", "scaledUp", "clearDir", "addLearner", "validate", "verify",
           "checkStatus", "removeMember", "clearMemberDir", "readd", "list", "empty", "removePart",
           "restore", "applying", "removeData", "rename", "tempDir"}

TypeOK ==
    /\ multi \in BOOLEAN /\ snapstore \in BOOLEAN /\ foreign \in BOOLEAN
    /\ dir \in Dirs /\ dir.db <= dir.wal /\ part \in {"none", "partial", "whole"}
    /\ backup \in Revs /\ member \in {"none", "learner", "voter"}
    /\ formed \in BOOLEAN /\ named \in BOOLEAN /\ lease \in BOOLEAN
    /\ etcd \in BOOLEAN /\ clean \in BOOLEAN /\ booting \in BOOLEAN
    /\ conf \in {"none", "new", "existing"}
    /\ status \in {"New", "Progress", "Successful", "Failed"} /\ pc \in Places
    /\ (status = "Progress") = (pc # "idle")
    /\ mode \in {"full", "sanity"} /\ present \in BOOLEAN /\ dirStatus \in Statuses
    /\ unread \subseteq Sources
    /\ damage \in 0 .. MaxDamage /\ faults \in 0 .. MaxFaults /\ crashes \in 0 .. MaxCrashes

\* A new volume, for a single node, a founder of a multi-node cluster or a new member of
\* a running one; or another namespace's volume.
Init ==
    /\ multi \in BOOLEAN /\ snapstore \in BOOLEAN
    /\ \/ foreign = FALSE /\ dir = NoDir /\ member = "none" /\ formed \in {FALSE, multi}
       \/ /\ foreign = TRUE /\ dir = Data(0) /\ formed = multi
          /\ member = IF multi THEN "voter" ELSE "none"
    /\ named = (member # "none") /\ lease = named
    /\ part = "none" /\ backup = 0 /\ etcd = FALSE /\ clean = FALSE
    /\ booting = FALSE /\ conf = "none"
    /\ status = "New" /\ pc = "idle" /\ mode = "full" /\ present = FALSE
    /\ dirStatus = "Valid" /\ unread = {}
    /\ damage = 0 /\ faults = 0 /\ crashes = 0

Fails == faults < MaxFaults /\ faults' = faults + 1 /\ UNCHANGED <<damage, crashes>>
Works == UNCHANGED bounds

\* A call to the cluster fails; one that has not formed answers none.
Unreachable == Fails \/ (Works /\ ~formed)

CouldNotRead(what) == unread' = unread \cup what

Goto(place) == pc' = place /\ UNCHANGED status
Return(result) == pc' = "idle" /\ status' = result

-----------------------------------------------------------------------------
(* The etcd container and its surroundings *)

\* GET /initialization/status, and /initialization/start when nothing is going on.
\* A finished initialization is reported once, even if the answer is lost.
Poll ==
    /\ ~etcd /\ ~booting
    /\ \/ /\ status = "New" /\ Works
          /\ status' = "Progress" /\ pc' = IF multi THEN "wasMember" ELSE "validate"
          /\ mode' = IF clean THEN "sanity" ELSE "full"
          /\ present' = FALSE /\ unread' = {}
          /\ UNCHANGED <<booting, dirStatus>>
       \/ /\ status = "Failed" /\ Works
          /\ status' = "New" /\ UNCHANGED <<booting, pc, local>>
       \/ /\ status = "Successful"
          /\ status' = "New" /\ UNCHANGED <<pc, local>>
          /\ (Works /\ booting' = TRUE) \/ (Fails /\ UNCHANGED booting)
    /\ UNCHANGED <<config, storage, cluster, etcd, conf, clean>>

\* Mutant: only a scale-up of the statefulset is looked for.
ClusterStateOfSet(state) == Works /\ (state = "new" \/ multi)

\* getClusterState: what /config says.  During a roll-out of the statefulset every member
\* joins an existing cluster; otherwise one joins if there is a learner, and an error of
\* that call counts as no.
ClusterState(state) ==
    \/ Works /\ ~multi /\ state = "new"
    \/ Works /\ multi /\ state = "existing"
    \/ Works /\ multi /\ state = IF member = "learner" THEN "existing" ELSE "new"
    \/ Fails /\ multi /\ state = "new"

\* GET /config, again if it fails; then etcd starts.
ServeConfig ==
    /\ booting
    /\ \/ \E state \in {"new", "existing"} :
             /\ ClusterState(state) /\ conf' = state
             /\ booting' = FALSE /\ etcd' = TRUE
             /\ dir' = IF dir.exists THEN dir ELSE Data(0)
       \/ Fails /\ UNCHANGED <<conf, booting, etcd, dir>>
    /\ UNCHANGED <<config, part, backup, cluster, clean, status, pc, local>>

\* A founder is a voter with its name once the cluster has formed.  A member that was
\* added publishes its name, and a learner is then promoted.  The lease is renewed from
\* the start.
Join ==
    /\ etcd /\ multi
    /\ \/ /\ ~formed /\ conf = "new"
          /\ formed' = TRUE /\ member' = "voter" /\ named' = TRUE /\ lease' = TRUE
       \/ /\ member # "none" /\ ~named
          /\ named' = TRUE /\ lease' = TRUE /\ UNCHANGED <<formed, member>>
       \/ /\ named /\ member = "learner"
          /\ member' = "voter" /\ UNCHANGED <<formed, named, lease>>
    /\ UNCHANGED <<config, storage, container, status, pc, local, bounds>>

\* There is a leader to write to and to take snapshots.
Serves == etcd /\ (multi => formed)

Write ==
    /\ Serves /\ dir.cond = "ok" /\ dir.wal < MaxRev
    /\ \E flushed \in {dir.db, dir.wal + 1} :
          dir' = [dir EXCEPT !.wal = dir.wal + 1, !.db = flushed]
    /\ UNCHANGED <<config, part, backup, cluster, container, status, pc, local, bounds>>

Backup ==
    /\ Serves /\ snapstore /\ backup' = dir.wal
    /\ UNCHANGED <<config, dir, part, cluster, container, status, pc, local, bounds>>

Exit ==
    /\ etcd /\ etcd' = FALSE /\ conf' = "none" /\ UNCHANGED booting
    /\ \/ clean' = TRUE /\ dir' = [dir EXCEPT !.db = dir.wal]
       \/ clean' = FALSE /\ UNCHANGED dir
    /\ UNCHANGED <<config, part, backup, cluster, status, pc, local, bounds>>

\* The volume is lost, damaged, or goes back to an earlier state, while nobody uses it
\* and not before the cluster has formed.  Only an unclean exit leaves what only the full
\* validation finds.
Damage ==
    /\ ~etcd /\ ~booting /\ status = "New" /\ dir.exists /\ ~foreign
    /\ (multi => formed) /\ damage < MaxDamage
    /\ damage' = damage + 1 /\ UNCHANGED <<faults, crashes>>
    /\ \/ dir' = NoDir
       \/ \E c \in Conditions \ {"ok"} :
             (clean => c # "deep") /\ dir' = [dir EXCEPT !.cond = c]
       \/ \E r \in Revs : r < dir.wal /\ dir' = Data(r)
    /\ UNCHANGED <<config, part, backup, cluster, container, status, pc, local>>

\* The server restarts: only files and the cluster keep what was done.
Crash ==
    /\ crashes < MaxCrashes /\ crashes' = crashes + 1 /\ UNCHANGED <<damage, faults>>
    /\ Return("New")
    /\ UNCHANGED <<config, storage, cluster, container, local>>

-----------------------------------------------------------------------------
(* Initialize: is this a new member of a running cluster? *)

\* IsMemberInCluster: the cluster can be reached and lists a member of this name.
InCluster == named

\* WasMemberInCluster: the member list, or else the member lease.
WasMember ==
    /\ pc = "wasMember"
    /\ \/ Works /\ formed /\ present' = InCluster /\ UNCHANGED unread
       \/ Unreachable /\ present' = lease /\ CouldNotRead({"members"})
       \/ Fails /\ present' = FALSE /\ CouldNotRead({"members", "lease"})
    /\ Goto(IF present' THEN "validate" ELSE "scaledUp")
    /\ UNCHANGED <<config, storage, cluster, container, mode, dirStatus>>

\* IsClusterScaledUp: an error counts as no.  That the cluster lists the member does not
\* change memberHeartbeatPresent.
ScaledUp ==
    /\ pc = "scaledUp"
    /\ \/ Works /\ formed /\ Goto(IF InCluster THEN "validate" ELSE "clearDir") /\ UNCHANGED unread
       \/ Unreachable /\ Goto("validate") /\ CouldNotRead({"scaleUp"})
    /\ UNCHANGED <<config, storage, cluster, container, mode, present, dirStatus>>

\* The cluster adds a learner; a member with this peer URL stays what it is.
Added == IF member = "none" THEN "learner" ELSE member

\* AddLearnerWithRetry: each attempt removes the data directory first.
ClearDir ==
    /\ pc = "clearDir" /\ dir' = NoDir /\ Goto("addLearner")
    /\ UNCHANGED <<config, part, backup, cluster, container, local, bounds>>

\* The answer to the call may be lost after it had its effect.
AddLearner ==
    /\ pc = "addLearner"
    /\ \/ Works /\ member' = Added /\ Return("Successful")
       \/ Fails /\ member' \in {member, Added} /\ Goto("clearDir")
    /\ UNCHANGED <<config, storage, formed, named, lease, container, local>>

-----------------------------------------------------------------------------
(* Validate *)

\* sanityCheck when no call fails.
SanityStatuses ==
    IF foreign THEN {"WrongVolumeMounted"}
    ELSE IF ~dir.exists THEN {"NotExist"}
    ELSE IF dir.cond = "structure" THEN {"InvStruct"}
    ELSE IF ~snapstore THEN {"Valid"}
    ELSE IF dir.cond = "bolt" THEN {"Corrupt", "BoltDBCorrupt"}
    ELSE IF multi \/ dir.wal >= backup THEN {"Valid"}
    ELSE {"RevisionConsistencyError"}

\* The database file is opened for its revision.  On a single node that is compared with
\* the backup, and an embedded etcd is started on the directory if it is behind.
OpensDatabase == ~foreign /\ dir.exists /\ dir.cond # "structure" /\ snapstore
StartsEmbedded == OpensDatabase /\ dir.cond # "bolt" /\ ~multi /\ dir.db < backup

\* sanityCheck when a call fails: the file safe_guard, a stat of the directories, the lock
\* of the database file, the snapstore.
FailedStatuses ==
    {"WrongVolumeMounted"}
    \cup (IF foreign THEN {} ELSE {"StatusUnknown"})
    \cup (IF OpensDatabase THEN {"FailToOpenBoltDB"} ELSE {})

\* sanityCheck when a call to the files of the directory fails, or the embedded etcd does
\* not start or not answer: any error of getLatestEtcdRevision but a timeout of the lock
\* counts as corruption.
MisreadStatuses ==
    (IF OpensDatabase THEN {"Corrupt"} ELSE {})
    \cup (IF StartsEmbedded THEN {"RevisionConsistencyError"} ELSE {})

SanityCheck ==
    /\ pc = "validate"
    /\ \/ Works /\ dirStatus' \in SanityStatuses /\ UNCHANGED unread
       \/ Fails /\ dirStatus' \in FailedStatuses /\ UNCHANGED unread
       \/ Fails /\ dirStatus' \in MisreadStatuses /\ CouldNotRead({"directory"})
    /\ dir' = IF StartsEmbedded /\ dirStatus' = "Valid"
              THEN [dir EXCEPT !.db = dir.wal] ELSE dir
    /\ Goto(IF dirStatus' # "Valid" THEN "checkStatus"
            ELSE IF mode = "full" THEN "verify" ELSE "tempDir")
    /\ UNCHANGED <<config, part, backup, cluster, container, mode, present>>

\* Mutant: an unknown status is treated like a bad directory.
DecisionUnknown(s) ==
    \/ s \in {"WrongVolumeMounted", "FailToOpenBoltDB"} /\ Return("Failed")
    \/ /\ s \notin {"WrongVolumeMounted", "FailToOpenBoltDB"}
       /\ Goto(IF multi /\ (s \in {"InvalidInMultiNode", "Corrupt"} \/ present)
               THEN "removeMember" ELSE "list")

\* Initialize after a failed validation: return the error, replace the member, or restore.
Decision(s) ==
    \/ s \in {"WrongVolumeMounted", "FailToOpenBoltDB", "StatusUnknown"} /\ Return("Failed")
    \/ /\ s \notin {"WrongVolumeMounted", "FailToOpenBoltDB", "StatusUnknown"}
       /\ Goto(IF multi /\ (s \in {"InvalidInMultiNode", "Corrupt"} \/ present)
               THEN "removeMember" ELSE "list")

\* IsBackupBucketEmpty takes a bucket it cannot list for empty.
IsBackupBucketEmpty(empty) ==
    \/ Works /\ empty = ~(snapstore /\ backup # 0) /\ UNCHANGED unread
    \/ Fails /\ multi /\ snapstore /\ empty /\ CouldNotRead({"bucket"})

\* checkStatus: with a backup, an unusable directory of a multi-node cluster is one
\* to replace.
CheckStatus ==
    /\ pc = "checkStatus"
    /\ \/ /\ dirStatus \in {"WrongVolumeMounted", "FailToOpenBoltDB"}
          /\ Works /\ UNCHANGED <<dirStatus, unread>>
       \/ /\ dirStatus \notin {"WrongVolumeMounted", "FailToOpenBoltDB"}
          /\ \E empty \in BOOLEAN :
                /\ IsBackupBucketEmpty(empty)
                /\ dirStatus' = IF multi /\ ~empty THEN "InvalidInMultiNode" ELSE dirStatus
    /\ Decision(dirStatus')
    /\ UNCHANGED <<config, storage, cluster, container, mode, present>>

\* checkForDataCorruption, in full mode only.  Any error but a timeout of the lock counts as
\* corruption: of the snap directory, the WAL and the database file.
Verify ==
    /\ pc = "verify"
    /\ \/ /\ Works /\ UNCHANGED unread
          /\ IF dir.cond = "ok" THEN dirStatus' = "Valid" /\ Goto("tempDir")
             ELSE dirStatus' = "Corrupt" /\ Decision("Corrupt")
       \/ Fails /\ dirStatus' = "FailToOpenBoltDB" /\ Return("Failed") /\ UNCHANGED unread
       \/ Fails /\ dirStatus' = "Corrupt" /\ Decision("Corrupt") /\ CouldNotRead({"directory"})
    /\ UNCHANGED <<config, storage, cluster, container, mode, present>>

-----------------------------------------------------------------------------
(* restoreInMultiNode *)

\* RemoveAll, which may fail half way.
RemoveAll(next) ==
    \/ Works /\ dir' = NoDir /\ Goto(next)
    \/ Fails /\ dir.exists /\ dir' \in {dir, [dir EXCEPT !.cond = "structure"]} /\ Return("Failed")

\* Mutant: the member keeps its place in the cluster.
RemoveMemberSkipped ==
    /\ pc = "removeMember" /\ Goto("clearMemberDir")
    /\ UNCHANGED <<config, storage, cluster, container, local, bounds>>

\* Only a member with its name is found and removed; the answer may be lost.
RemoveMember ==
    /\ pc = "removeMember"
    /\ LET removed == IF named THEN "none" ELSE member
       IN \/ Works /\ formed /\ member' = removed /\ Goto("clearMemberDir")
          \/ Unreachable /\ member' \in {member, removed} /\ Return("Failed")
    /\ named' = (named /\ member' # "none")
    /\ UNCHANGED <<config, storage, formed, lease, container, local>>

ClearMemberDir ==
    /\ pc = "clearMemberDir" /\ RemoveAll("readd")
    /\ UNCHANGED <<config, part, backup, cluster, container, local>>

AddMemberAsLearner ==
    /\ pc = "readd"
    /\ \/ Works /\ member' = Added /\ Goto("tempDir")
       \/ Fails /\ member' \in {member, Added} /\ Return("Failed")
    /\ UNCHANGED <<config, storage, formed, named, lease, container, local>>

-----------------------------------------------------------------------------
(* restoreCorruptData *)

\* Mutant: a bucket that cannot be listed counts as empty.
FindLatestOrNone ==
    /\ pc = "list"
    /\ \/ Works /\ Goto(IF snapstore /\ backup # 0 THEN "removePart" ELSE "empty")
       \/ Fails /\ Goto("empty")
    /\ UNCHANGED <<config, storage, cluster, container, local>>

FindLatest ==
    /\ pc = "list"
    /\ \/ Works /\ Goto(IF snapstore /\ backup # 0 THEN "removePart" ELSE "empty")
       \/ Fails /\ snapstore /\ Return("Failed")
    /\ UNCHANGED <<config, storage, cluster, container, local>>

\* restoreWithEmptySnapstore
RestoreWithEmptySnapstore ==
    /\ pc = "empty" /\ RemoveAll("tempDir")
    /\ UNCHANGED <<config, part, backup, cluster, container, local>>

\* The restoration writes to <data-dir>.part, from which earlier attempts are removed.
RemovePart ==
    /\ pc = "removePart"
    /\ \/ Works /\ part' = "none" /\ Goto("restore")
       \/ Fails /\ UNCHANGED part /\ Return("Failed")
    /\ UNCHANGED <<config, dir, backup, cluster, container, local>>

RestoreStarts ==
    /\ pc = "restore" /\ part' = "partial"
    /\ Works /\ Goto("applying")
    /\ UNCHANGED <<config, dir, backup, cluster, container, local>>

RestoreEnds ==
    /\ pc = "applying"
    /\ \/ Works /\ part' = "whole" /\ Goto("removeData")
       \/ Fails /\ UNCHANGED part /\ Return("Failed")
    /\ UNCHANGED <<config, dir, backup, cluster, container, local>>

\* removeContents: the data directory goes, then <data-dir>.part takes its place.
RemoveData ==
    /\ pc = "removeData" /\ RemoveAll("rename")
    /\ UNCHANGED <<config, part, backup, cluster, container, local>>

Rename ==
    /\ pc = "rename"
    /\ \/ /\ Works /\ Goto("tempDir")
          /\ dir' = Data(IF part = "whole" THEN backup ELSE 0)
          /\ part' = "none"
       \/ Fails /\ Return("Failed") /\ UNCHANGED <<dir, part>>
    /\ UNCHANGED <<config, backup, cluster, container, local>>

\* Mutant: the failure to clean up ends the initialization without a status.
TempDirSilently ==
    /\ pc = "tempDir"
    /\ \/ Works /\ Return("Successful")
       \/ Fails /\ snapstore /\ pc' = "idle" /\ UNCHANGED status
    /\ UNCHANGED <<config, storage, cluster, container, local>>

\* The temporary directory of the snapstore is created anew.
TempDir ==
    /\ pc = "tempDir"
    /\ \/ Works /\ Return("Successful")
       \/ Fails /\ snapstore /\ Return("Failed")
    /\ UNCHANGED <<config, storage, cluster, container, local>>

Initialize ==
    \/ WasMember \/ ScaledUp \/ ClearDir \/ AddLearner
    \/ SanityCheck \/ CheckStatus \/ Verify
    \/ RemoveMember \/ ClearMemberDir \/ AddMemberAsLearner
    \/ FindLatest \/ RestoreWithEmptySnapstore \/ RemovePart \/ RestoreStarts \/ RestoreEnds
    \/ RemoveData \/ Rename \/ TempDir

Next ==
    \/ Poll \/ ServeConfig \/ Join \/ Write \/ Backup \/ Exit \/ Damage
    \/ Initialize
    \/ Crash

Spec == Init /\ [][Next]_vars

\* The container keeps polling, and the initialization keeps running.
FairSpec == Spec /\ WF_vars(Poll) /\ WF_vars(ServeConfig) /\ WF_vars(Initialize)

-----------------------------------------------------------------------------
\* A single etcd that runs is never behind the latest snapshot, whatever happened to its
\* volume and wherever the server crashed: the revision check of the validator.
NeverBehindBackup == etcd /\ ~multi => dir.wal >= backup

\* The voter was not seen: WasMemberInCluster could read neither the member list nor the
\* lease, and there is no backup.  IsClusterScaledUp may list it all the same.
Unseen == {"members", "lease"} \subseteq unread /\ backup = 0

\* A member of a multi-node cluster never votes with an empty directory: it is removed from
\* the cluster and added as a learner first, unless it was not seen.  And its directory is
\* not replaced by one restored from a snapshot, unless memberHeartbeatPresent is false and
\* checkStatus could not list the bucket that the restoration then could.
NoForgetfulVoter ==
    multi =>
        /\ status = "Successful" /\ ~dir.exists /\ member = "voter" => Unseen
        /\ pc = "rename" => ~present /\ "bucket" \in unread

\* Beside a cluster that has formed no member starts an empty etcd as a cluster of its
\* own, except: a new member for which IsClusterScaledUp could not read the member list;
\* a learner when the very call that looks for one failed; and a voter that was not seen.
NoSecondCluster ==
    [][booting /\ conf' = "new" /\ formed /\ ~dir.exists =>
         \/ member = "none" /\ "scaleUp" \in unread
         \/ member = "learner" /\ faults' # faults
         \/ member = "voter" /\ Unseen]_vars

\* A data directory that is sound and not behind the backups, by its write-ahead log.
Sound == dir.exists /\ dir.cond = "ok" /\ dir.wal >= backup

\* The step removes the directory, or a part of it, or replaces it.
Discards == dir.exists /\ dir' \notin {dir, [dir EXCEPT !.db = dir.wal]}

\* On a single node Initialize discards a directory only on its own volume; only if it is
\* not sound or its files could not be read or etcd not be started on them, and not for a
\* failing call to the bucket, a lock that is held, a database file that lags behind the
\* log, or a crash; and only when a whole restored copy stands ready, if there is a backup.
SoundDirKept ==
    [][~multi /\ pc # "idle" /\ Discards =>
         /\ ~foreign
         /\ Sound => "directory" \in unread
         /\ backup # 0 => part = "whole"]_vars

\* Failed calls, crashes and damages come to an end, and etcd runs again.
EtcdRunsAgain == foreign \/ []<>etcd
=============================================================================
