------------------------- MODULE InitializationProofs -------------------------
(***************************************************************************)
(* What etcd may start on, for every number of revisions, damages, failing *)
(* calls and crashes: never behind the backup on a single node, never as a *)
(* voter that has forgotten its data or as a second cluster in a           *)
(* multi-node one.  And which directories are never removed.               *)
(***************************************************************************)
EXTENDS Initialization, TLAPS

\* The places of Initialize that only a member of a multi-node cluster comes to, the ones
\* past the decision to give the member up, and the ones of restoreCorruptData.
MultiNode == {"wasMember", "scaledUp", "clearDir", "addLearner", "removeMember",
              "clearMemberDir", "readd"}
GivenUp == {"clearDir", "addLearner", "clearMemberDir", "readd"}
Restoring == {"list", "empty", "removePart", "restore", "applying", "removeData", "rename"}

StorageTypes ==
    /\ dir \in Dirs /\ part \in {"none", "partial", "whole"} /\ backup \in Revs
    /\ (~dir.exists => dir.wal = 0) /\ (~snapstore => backup = 0)

Flags ==
    /\ multi \in BOOLEAN /\ snapstore \in BOOLEAN /\ foreign \in BOOLEAN
    /\ etcd \in BOOLEAN /\ booting \in BOOLEAN /\ present \in BOOLEAN /\ formed \in BOOLEAN
    /\ named \in BOOLEAN /\ lease \in BOOLEAN

\* A voter has its name in the member list, so that it is found and removed; and who has
\* its name there has renewed its lease.
ControlTypes ==
    /\ pc \in Places /\ status \in {"New", "Progress", "Successful", "Failed"}
    /\ member \in {"none", "learner", "voter"} /\ (member = "voter" => named)
    /\ (named => lease /\ member # "none")
    /\ faults \in Nat

\* Initialize runs only while etcd does not, and etcd has a configuration only while it runs.
Handshake ==
    /\ (status = "Progress") = (pc # "idle")
    /\ etcd \/ booting => pc = "idle" /\ status = "New"
    /\ ~(etcd /\ booting) /\ (etcd => dir.exists)
    /\ ~etcd => conf = "none"

\* The directory has passed the validation or has been replaced, and nothing changed it since.
Settled == booting \/ status = "Successful" \/ pc = "tempDir"

Progress ==
    /\ pc \in MultiNode \/ formed => multi
    /\ pc \in GivenUp => ~named
    /\ pc = "verify" => dir.exists
    /\ pc = "empty" => backup = 0
    /\ pc \in {"removeData", "rename"} => part = "whole"

\* A single node's directory is not behind the backup once it has been validated.
UpToDate == ~multi /\ (Settled \/ etcd \/ pc = "verify") => dir.wal >= backup

\* The places where Initialize goes by memberHeartbeatPresent.
Looking == {"validate", "verify", "checkStatus"} \cup Restoring

\* Why a voter's heartbeat was not found, and why no scale-up was seen.
Overlooked ==
    /\ multi /\ ~present /\ member = "voter" /\ pc \in Looking \cup {"scaledUp"} =>
         "members" \in unread /\ "lease" \in unread
    /\ multi /\ ~present /\ member = "none" /\ formed /\ pc \in Looking => "scaleUp" \in unread

\* A multi-node member is restored only when its heartbeat was not found and the bucket
\* showed no backup; and it is left without a directory only for the reasons above.
Remembers ==
    /\ multi /\ pc \in Restoring =>
         /\ ~present
         /\ (pc = "list" /\ backup = 0) \/ pc = "empty" \/ "bucket" \in unread
    /\ multi /\ Settled /\ ~dir.exists =>
         /\ member = "voter" => "members" \in unread /\ "lease" \in unread /\ backup = 0
         /\ member = "none" /\ formed => "scaleUp" \in unread

NInv ==
    /\ StorageTypes /\ Flags /\ ControlTypes
    /\ Handshake /\ Progress /\ UpToDate /\ Overlooked /\ Remembers

\* The directories that the steps make.
LEMMA DirMade ==
    /\ NoDir \in Dirs /\ ~NoDir.exists /\ NoDir.wal = 0
    /\ \A r \in Revs : Data(r) \in Dirs /\ Data(r).exists /\ Data(r).wal = r
    /\ 0 \in Revs
<1>1. 0 \in Revs
  BY InitializationAssumption DEF Revs
<1>2. NoDir \in Dirs
  BY <1>1 DEF NoDir, Dirs, Conditions
<1>3. ASSUME NEW r \in Revs PROVE Data(r) \in Dirs
  BY DEF Data, Dirs, Conditions
<1> QED
  BY <1>1, <1>2, <1>3 DEF NoDir, Data

\* A new member is not settled.
LEMMA InitNInv == Init => NInv
<1> SUFFICES ASSUME Init PROVE NInv
  OBVIOUS
<1>1. StorageTypes
  BY DirMade DEF Init, StorageTypes
<1>2. Flags
  BY Zenon DEF Init, Flags
<1>3. /\ formed => multi
      /\ member = "voter" => named
      /\ named => lease /\ member # "none"
  <2>1. formed => multi
    BY Zenon DEF Init
  <2>2. named = (member # "none") /\ lease = named
    BY DEF Init
  <2> QED
    BY <2>1, <2>2
<1>4. ControlTypes /\ Handshake /\ Progress
  BY <1>3 DEF Init, ControlTypes, Handshake, Progress, Places, MultiNode, GivenUp
<1>5. UpToDate /\ Overlooked /\ Remembers
  BY DirMade DEF Init, UpToDate, Overlooked, Remembers, Settled, Looking, Restoring
<1> QED
  BY <1>1, <1>2, <1>4, <1>5 DEF NInv

\* Every step of the container, of Initialize and of what surrounds them.
LEMMA NextNInv == NInv /\ [Next]_vars => NInv'
<1> SUFFICES ASSUME NInv, [Next]_vars PROVE NInv'
  OBVIOUS
<1> USE DEF config, storage, cluster, container, local, bounds, Goto, Return,
           CouldNotRead, Serves
<1>0. /\ dir.exists \in BOOLEAN /\ dir.wal \in Nat /\ backup \in Nat
      /\ dir.wal \in Revs /\ dir.db \in Revs /\ dir \in Dirs
  BY InitializationAssumption DEF NInv, StorageTypes, Dirs, Revs
<1>1. CASE Poll
  <2>1. StorageTypes'
    BY <1>1 DEF Poll, NInv, StorageTypes
  <2>2. Flags'
    BY <1>1, Zenon DEF Poll, NInv, Flags
  <2>3. ControlTypes'
    BY <1>1 DEF Poll, NInv, ControlTypes, Places, Fails, Works
  <2>4. Handshake' /\ Progress'
    BY <1>1 DEF Poll, NInv, Handshake, Progress, MultiNode, GivenUp
  <2>5. UpToDate'
    BY <1>1 DEF Poll, NInv, UpToDate, Settled
  <2>6. Remembers'
    BY <1>1 DEF Poll, NInv, Remembers, Settled, Restoring
  <2>7. Overlooked'
    BY <1>1 DEF Poll, NInv, Overlooked, Looking, Restoring, Handshake
  <2> QED
    BY <2>1, <2>2, <2>3, <2>4, <2>5, <2>6, <2>7 DEF NInv
<1>2. CASE ServeConfig
  <2>1. /\ booting /\ UNCHANGED <<config, part, backup, cluster, status, pc, local>>
        /\ faults' = faults \/ faults' = faults + 1
        /\ (booting' = FALSE /\ etcd' = TRUE /\ (dir.exists \/ dir' = Data(0)))
           \/ (UNCHANGED <<conf, booting, etcd>> /\ dir' = dir)
        /\ dir' = dir \/ (~dir.exists /\ dir' = Data(0))
    BY <1>2 DEF ServeConfig, ClusterState, Fails, Works
  <2>2. dir' \in Dirs /\ dir'.wal = dir.wal /\ (dir.exists => dir'.exists)
        /\ (dir'.exists \/ UNCHANGED <<conf, booting, etcd>>)
    <3>1. CASE dir' = dir
      BY <1>0, <2>1, <3>1, DirMade
    <3>2. CASE dir' = Data(0) /\ ~dir.exists
      BY <1>0, <3>2, DirMade DEF NInv, StorageTypes
    <3> QED
      BY <2>1, <3>1, <3>2
  <2>3. Flags'
    BY <2>1, Zenon DEF NInv, Flags
  <2>4. StorageTypes' /\ ControlTypes'
    BY <2>1, <2>2 DEF NInv, StorageTypes, ControlTypes
  <2>5. Handshake' /\ Progress'
    BY <2>1, <2>2, <2>3 DEF NInv, Flags, Handshake, Progress
  <2>6. UpToDate' /\ Overlooked' /\ Remembers'
    BY <2>1, <2>2, <2>3 DEF NInv, UpToDate, Overlooked, Remembers, Settled
  <2> QED
    BY <2>3, <2>4, <2>5, <2>6 DEF NInv
<1>3. CASE Join
  <2>1. StorageTypes'
    BY <1>3 DEF Join, NInv, StorageTypes
  <2>2. Flags'
    BY <1>3, Zenon DEF Join, NInv, Flags
  <2>3. ControlTypes'
    BY <1>3 DEF Join, NInv, ControlTypes
  <2>4. Handshake' /\ Progress'
    BY <1>3 DEF Join, NInv, Handshake, Progress, GivenUp
  <2>5. UpToDate'
    BY <1>3 DEF Join, NInv, UpToDate
  <2>6. Remembers'
    BY <1>3 DEF Join, NInv, Handshake, Remembers
  <2>7. Overlooked'
    BY <1>3 DEF Join, NInv, Overlooked, Looking, Restoring, Handshake
  <2> QED
    BY <2>1, <2>2, <2>3, <2>4, <2>5, <2>6, <2>7 DEF NInv
<1>4. CASE Write
  <2>0. dir' \in Dirs /\ dir'.exists = dir.exists /\ dir'.wal = dir.wal + 1
      
    <3>1. dir.wal + 1 \in Revs
      BY <1>0, <1>4, InitializationAssumption DEF Write, Revs
    <3>2. \E flushed \in Revs : dir' = [dir EXCEPT !.wal = dir.wal + 1, !.db = flushed]
      BY <1>0, <1>4, <3>1 DEF Write
    <3> QED
      BY <1>0, <3>1, <3>2 DEF Dirs
  <2>1. StorageTypes'
    BY <1>4, <2>0 DEF Write, NInv, StorageTypes, Handshake
  <2>2. Flags'
    BY <1>4 DEF Write, NInv, Flags
  <2>3. ControlTypes'
    BY <1>4 DEF Write, NInv, ControlTypes
  <2>4. Handshake' /\ Progress'
    BY <1>4 DEF Write, NInv, Handshake, Progress
  <2>5. UpToDate'
    BY <1>0, <1>4 DEF Write, NInv, UpToDate
  <2>6. Remembers'
    BY <1>4 DEF Write, NInv, Handshake, Remembers
  <2>7. Overlooked'
    BY <1>4 DEF Write, NInv, Overlooked, Looking, Restoring, Handshake
  <2> QED
    BY <2>1, <2>2, <2>3, <2>4, <2>5, <2>6, <2>7 DEF NInv
<1>5. CASE Backup
  <2>1. StorageTypes'
    BY <1>0, <1>5 DEF Backup, NInv, StorageTypes
  <2>2. Flags'
    BY <1>5 DEF Backup, NInv, Flags
  <2>3. ControlTypes'
    BY <1>5 DEF Backup, NInv, ControlTypes
  <2>4. Handshake' /\ Progress'
    BY <1>5 DEF Backup, NInv, Handshake, Progress
  <2>5. UpToDate'
    BY <1>0, <1>5 DEF Backup, NInv, UpToDate
  <2>6. Remembers'
    BY <1>5 DEF Backup, NInv, Handshake, Remembers
  <2>7. Overlooked'
    BY <1>5 DEF Backup, NInv, Overlooked, Looking, Restoring, Handshake
  <2> QED
    BY <2>1, <2>2, <2>3, <2>4, <2>5, <2>6, <2>7 DEF NInv
<1>6. CASE Exit
  <2>0. /\ dir' \in Dirs
        /\ dir'.exists = dir.exists /\ dir'.wal = dir.wal
    <3>1. dir' = dir \/ dir' = [dir EXCEPT !.db = dir.wal]
      BY <1>6 DEF Exit
    <3> QED
      BY <1>0, <3>1 DEF Dirs
  <2>1. StorageTypes'
    BY <1>6, <2>0 DEF Exit, NInv, StorageTypes
  <2>2. Flags'
    BY <1>6, Zenon DEF Exit, NInv, Flags
  <2>3. ControlTypes'
    BY <1>6 DEF Exit, NInv, ControlTypes
  <2>4. Handshake' /\ Progress'
    BY <1>6 DEF Exit, NInv, Handshake, Progress
  <2>5. UpToDate'
    BY <1>6 DEF Exit, NInv, Handshake, UpToDate, Settled
  <2>6. Remembers'
    BY <1>6, <2>0 DEF Exit, NInv, Handshake, Remembers
  <2>7. Overlooked'
    BY <1>6 DEF Exit, NInv, Overlooked, Looking, Restoring, Handshake
  <2> QED
    BY <2>1, <2>2, <2>3, <2>4, <2>5, <2>6, <2>7 DEF NInv
<1>7. CASE Damage
  <2>0. dir' \in Dirs /\ (~dir'.exists => dir'.wal = 0)
    <3>1. CASE dir' = NoDir \/ \E r \in Revs : dir' = Data(r)
      BY <3>1, DirMade
    <3>2. CASE \E c \in Conditions : dir' = [dir EXCEPT !.cond = c]
      BY <1>0, <3>2 DEF Dirs, NInv, StorageTypes
    <3> QED
      BY <1>7, <3>1, <3>2 DEF Damage
  <2>1. StorageTypes'
    BY <1>7, <2>0 DEF Damage, NInv, StorageTypes
  <2>2. Flags'
    BY <1>7 DEF Damage, NInv, Flags
  <2>3. ControlTypes'
    BY <1>7 DEF Damage, NInv, ControlTypes
  <2>4. Handshake' /\ Progress'
    BY <1>7 DEF Damage, NInv, Handshake, Progress
  <2>5. UpToDate'
    BY <1>7 DEF Damage, NInv, Handshake, UpToDate, Settled
  <2>6. Remembers'
    BY <1>7, <2>0 DEF Damage, NInv, Handshake, Remembers, Settled
  <2>7. Overlooked'
    BY <1>7 DEF Damage, NInv, Overlooked, Looking, Restoring, Handshake
  <2> QED
    BY <2>1, <2>2, <2>3, <2>4, <2>5, <2>6, <2>7 DEF NInv
<1>8. CASE WasMember
  <2>0. pc' \in {"validate", "scaledUp"} /\ (faults' = faults \/ faults' = faults + 1)
    <3>1. pc' = "validate" \/ pc' = "scaledUp"
      BY <1>8, Zenon DEF WasMember
    <3> QED
      BY <1>8, <3>1 DEF WasMember, Unreachable, Fails, Works
  <2>1. StorageTypes'
    BY <1>8 DEF WasMember, NInv, StorageTypes
  <2>2. Flags'
    BY <1>8, Zenon DEF WasMember, NInv, Flags, InCluster
  <2>3. ControlTypes'
    BY <1>8, <2>0 DEF WasMember, NInv, ControlTypes, Places
  <2>4. Handshake' /\ Progress'
    BY <1>8 DEF WasMember, NInv, Handshake, Progress, MultiNode, GivenUp
  <2>5. UpToDate'
    BY <1>8 DEF WasMember, NInv, UpToDate, Settled
  <2>6. Remembers'
    BY <1>8 DEF WasMember, NInv, Remembers, Settled, Restoring
  <2>7. Overlooked'
    BY <1>8
    DEF WasMember, NInv, Overlooked, Looking, Restoring, Handshake, ControlTypes, InCluster
  <2> QED
    BY <2>1, <2>2, <2>3, <2>4, <2>5, <2>6, <2>7 DEF NInv
<1>9. CASE ScaledUp
  <2>1. StorageTypes'
    BY <1>9 DEF ScaledUp, NInv, StorageTypes
  <2>2. Flags'
    BY <1>9 DEF ScaledUp, NInv, Flags
  <2>3. ControlTypes'
    BY <1>9 DEF ScaledUp, NInv, ControlTypes, Places, Unreachable, Fails, Works
  <2>4. Handshake' /\ Progress'
    BY <1>9 DEF ScaledUp, NInv, Handshake, Progress, MultiNode, GivenUp, InCluster
  <2>5. UpToDate'
    BY <1>9 DEF ScaledUp, NInv, UpToDate, Settled
  <2>6. Remembers'
    BY <1>9 DEF ScaledUp, NInv, Remembers, Settled, Restoring
  <2>7. Overlooked'
    BY <1>9
    DEF ScaledUp, NInv, Overlooked, Looking, Restoring, Handshake, ControlTypes, InCluster
  <2> QED
    BY <2>1, <2>2, <2>3, <2>4, <2>5, <2>6, <2>7 DEF NInv
<1>10. CASE ClearDir
  <2>0. dir' = NoDir
    BY <1>10 DEF ClearDir
  <2>1. StorageTypes'
    BY <1>10, DirMade DEF ClearDir, NInv, StorageTypes
  <2>2. Flags'
    BY <1>10 DEF ClearDir, NInv, Flags
  <2>3. ControlTypes'
    BY <1>10 DEF ClearDir, NInv, ControlTypes, Places
  <2>4. Handshake' /\ Progress'
    BY <1>10 DEF ClearDir, NInv, Handshake, Progress, MultiNode, GivenUp
  <2>5. UpToDate'
    BY <1>10 DEF ClearDir, NInv, Handshake, UpToDate, Settled
  <2>6. Remembers'
    BY <1>10, DirMade DEF ClearDir, NInv, Handshake, Remembers, Settled, Restoring
  <2>7. Overlooked'
    BY <1>10 DEF ClearDir, NInv, Overlooked, Looking, Restoring, Handshake
  <2> QED
    BY <2>1, <2>2, <2>3, <2>4, <2>5, <2>6, <2>7 DEF NInv
<1>11. CASE AddLearner
  <2>1. StorageTypes'
    BY <1>11 DEF AddLearner, NInv, StorageTypes
  <2>2. Flags'
    BY <1>11 DEF AddLearner, NInv, Flags
  <2>3. ControlTypes'
    BY <1>11 DEF AddLearner, NInv, ControlTypes, Places, Added, Fails, Works
  <2>4. Handshake' /\ Progress'
    BY <1>11 DEF AddLearner, NInv, Handshake, Progress, MultiNode, GivenUp
  <2>5. UpToDate'
    BY <1>11 DEF AddLearner, NInv, Progress, UpToDate, MultiNode
  <2>6. Remembers'
    BY <1>11
    DEF AddLearner, NInv, ControlTypes, Handshake, Progress, Remembers, Settled, GivenUp,
        Restoring, Added
  <2>7. Overlooked'
    BY <1>11 DEF AddLearner, NInv, Overlooked, Looking, Restoring, Handshake
  <2> QED
    BY <2>1, <2>2, <2>3, <2>4, <2>5, <2>6, <2>7 DEF NInv
<1>12. CASE SanityCheck
  <2>0. /\ dir' \in Dirs
        /\ dir'.exists = dir.exists /\ dir'.wal = dir.wal
    <3>1. dir' = dir \/ dir' = [dir EXCEPT !.db = dir.wal]
      BY <1>12 DEF SanityCheck
    <3> QED
      BY <1>0, <3>1 DEF Dirs
  <2>1. StorageTypes'
    BY <1>12, <2>0 DEF SanityCheck, NInv, StorageTypes
  <2>2. Flags'
    BY <1>12 DEF SanityCheck, NInv, Flags
  <2>3. ControlTypes'
    BY <1>12 DEF SanityCheck, NInv, ControlTypes, Places, Fails, Works
  <2>4. Handshake' /\ Progress'
    BY <1>12
    DEF SanityCheck, NInv, Handshake, Progress, MultiNode, GivenUp, SanityStatuses,
        FailedStatuses, MisreadStatuses
  <2>5. UpToDate'
    BY <1>0, <1>12
    DEF SanityCheck, NInv, StorageTypes, UpToDate, Settled, SanityStatuses, FailedStatuses, MisreadStatuses
  <2>6. Remembers'
    BY <1>12
    DEF SanityCheck, NInv, Remembers, Settled, Restoring, SanityStatuses, FailedStatuses, MisreadStatuses
  <2>7. Overlooked'
    BY <1>12 DEF SanityCheck, NInv, Overlooked, Looking, Restoring, Handshake
  <2> QED
    BY <2>1, <2>2, <2>3, <2>4, <2>5, <2>6, <2>7 DEF NInv
<1>13. CASE CheckStatus
  <2>1. StorageTypes'
    BY <1>13 DEF CheckStatus, NInv, StorageTypes
  <2>2. Flags'
    BY <1>13 DEF CheckStatus, NInv, Flags
  <2>3. ControlTypes'
    BY <1>13
    DEF CheckStatus, NInv, ControlTypes, Places, IsBackupBucketEmpty, Decision, Fails, Works
  <2>4. Handshake' /\ Progress'
    BY <1>13 DEF CheckStatus, NInv, Handshake, Progress, MultiNode, GivenUp, Decision
  <2>5. UpToDate'
    BY <1>13 DEF CheckStatus, NInv, UpToDate, Settled, Decision
  <2>6. Remembers'
    BY <1>13
    DEF CheckStatus, NInv, StorageTypes, Handshake, Remembers, Settled, Restoring, Decision,
        IsBackupBucketEmpty
  <2>7. Overlooked'
    BY <1>13
    DEF CheckStatus, NInv, Overlooked, Looking, Restoring, Decision, IsBackupBucketEmpty
  <2> QED
    BY <2>1, <2>2, <2>3, <2>4, <2>5, <2>6, <2>7 DEF NInv
<1>14. CASE Verify
  <2>1. StorageTypes'
    BY <1>14 DEF Verify, NInv, StorageTypes
  <2>2. Flags'
    BY <1>14 DEF Verify, NInv, Flags
  <2>3. ControlTypes'
    BY <1>14 DEF Verify, NInv, ControlTypes, Places, Decision, Fails, Works
  <2>4. Handshake' /\ Progress'
    BY <1>14 DEF Verify, NInv, Handshake, Progress, MultiNode, GivenUp, Decision
  <2>5. UpToDate'
    BY <1>14 DEF Verify, NInv, UpToDate
  <2>6. Remembers'
    BY <1>14 DEF Verify, NInv, Progress, Remembers, Restoring, Decision
  <2>7. Overlooked'
    BY <1>14 DEF Verify, NInv, Overlooked, Looking, Restoring, Handshake, Decision
  <2> QED
    BY <2>1, <2>2, <2>3, <2>4, <2>5, <2>6, <2>7 DEF NInv
<1>15. CASE RemoveMember
  <2>1. StorageTypes'
    BY <1>15 DEF RemoveMember, NInv, StorageTypes
  <2>2. Flags'
    BY <1>15, Zenon DEF RemoveMember, NInv, Flags
  <2>3. ControlTypes'
    <3>1. /\ member' = member \/ (named /\ member' = "none")
          /\ named' = (named /\ member' # "none") /\ lease' = lease
      BY <1>15 DEF RemoveMember
    <3>2. (member' = "voter" => named') /\ (named' => lease' /\ member' # "none")
      BY <3>1, Zenon DEF NInv, ControlTypes
    <3>3. pc' \in Places /\ status' \in {"New", "Progress", "Successful", "Failed"} /\ faults' \in Nat
      BY <1>15 DEF RemoveMember, NInv, ControlTypes, Places, Unreachable, Fails, Works
    <3> QED
      BY <3>1, <3>2, <3>3 DEF NInv, ControlTypes
  <2>4. Handshake' /\ Progress'
    BY <1>15 DEF RemoveMember, NInv, Handshake, Progress, MultiNode, GivenUp
  <2>5. UpToDate'
    BY <1>15 DEF RemoveMember, NInv, UpToDate, Settled
  <2>6. Remembers'
    BY <1>15 DEF RemoveMember, NInv, Handshake, Remembers, Settled, Restoring
  <2>7. Overlooked'
    BY <1>15 DEF RemoveMember, NInv, Overlooked, Looking, Restoring, Handshake
  <2> QED
    BY <2>1, <2>2, <2>3, <2>4, <2>5, <2>6, <2>7 DEF NInv
<1>16. CASE ClearMemberDir
  <2>0. /\ dir' \in Dirs
        /\ \/ dir' = NoDir
           \/ dir'.exists = dir.exists /\ dir'.wal = dir.wal
    <3>1. dir' = NoDir \/ dir' = dir \/ dir' = [dir EXCEPT !.cond = "structure"]
      BY <1>16 DEF ClearMemberDir, RemoveAll
    <3> QED
      BY <1>0, <3>1, DirMade DEF Dirs, Conditions
  <2>1. StorageTypes'
    BY <1>16, <2>0, DirMade DEF ClearMemberDir, NInv, StorageTypes
  <2>2. Flags'
    BY <1>16 DEF ClearMemberDir, NInv, Flags
  <2>3. ControlTypes'
    BY <1>16 DEF ClearMemberDir, NInv, ControlTypes, Places, RemoveAll, Fails, Works
  <2>4. Handshake' /\ Progress'
    BY <1>16 DEF ClearMemberDir, NInv, Handshake, Progress, MultiNode, GivenUp, RemoveAll
  <2>5. UpToDate'
    BY <1>16 DEF ClearMemberDir, NInv, Progress, UpToDate, MultiNode
  <2>6. Remembers'
    BY <1>16, <2>0, DirMade
    DEF ClearMemberDir, NInv, Handshake, Remembers, Settled, Restoring, RemoveAll
  <2>7. Overlooked'
    BY <1>16 DEF ClearMemberDir, NInv, Overlooked, Looking, Restoring, Handshake, RemoveAll
  <2> QED
    BY <2>1, <2>2, <2>3, <2>4, <2>5, <2>6, <2>7 DEF NInv
<1>17. CASE AddMemberAsLearner
  <2>1. StorageTypes'
    BY <1>17 DEF AddMemberAsLearner, NInv, StorageTypes
  <2>2. Flags'
    BY <1>17 DEF AddMemberAsLearner, NInv, Flags
  <2>3. ControlTypes'
    BY <1>17 DEF AddMemberAsLearner, NInv, ControlTypes, Places, Added, Fails, Works
  <2>4. Handshake' /\ Progress'
    BY <1>17 DEF AddMemberAsLearner, NInv, Handshake, Progress, MultiNode, GivenUp
  <2>5. UpToDate'
    BY <1>17 DEF AddMemberAsLearner, NInv, Progress, UpToDate, MultiNode
  <2>6. Remembers'
    BY <1>17
    DEF AddMemberAsLearner, NInv, ControlTypes, Handshake, Progress, Remembers, Settled, GivenUp,
        Restoring, Added
  <2>7. Overlooked'
    BY <1>17 DEF AddMemberAsLearner, NInv, Overlooked, Looking, Restoring, Handshake
  <2> QED
    BY <2>1, <2>2, <2>3, <2>4, <2>5, <2>6, <2>7 DEF NInv
<1>18. CASE FindLatest
  <2>1. StorageTypes'
    BY <1>18 DEF FindLatest, NInv, StorageTypes
  <2>2. Flags'
    BY <1>18 DEF FindLatest, NInv, Flags
  <2>3. ControlTypes'
    BY <1>18 DEF FindLatest, NInv, ControlTypes, Places, Fails, Works
  <2>4. Handshake' /\ Progress'
    BY <1>18 DEF FindLatest, NInv, StorageTypes, Handshake, Progress, MultiNode, GivenUp
  <2>5. UpToDate'
    BY <1>18 DEF FindLatest, NInv, UpToDate, Settled
  <2>6. Remembers'
    BY <1>18 DEF FindLatest, NInv, StorageTypes, Handshake, Remembers, Settled, Restoring
  <2>7. Overlooked'
    BY <1>18 DEF FindLatest, NInv, Overlooked, Looking, Restoring, Handshake
  <2> QED
    BY <2>1, <2>2, <2>3, <2>4, <2>5, <2>6, <2>7 DEF NInv
<1>19. CASE RestoreWithEmptySnapstore
  <2>0. /\ dir' \in Dirs
        /\ \/ dir' = NoDir
           \/ dir'.exists = dir.exists /\ dir'.wal = dir.wal
    <3>1. dir' = NoDir \/ dir' = dir \/ dir' = [dir EXCEPT !.cond = "structure"]
      BY <1>19 DEF RestoreWithEmptySnapstore, RemoveAll
    <3> QED
      BY <1>0, <3>1, DirMade DEF Dirs, Conditions
  <2>1. StorageTypes'
    BY <1>19, <2>0, DirMade DEF RestoreWithEmptySnapstore, NInv, StorageTypes
  <2>2. Flags'
    BY <1>19 DEF RestoreWithEmptySnapstore, NInv, Flags
  <2>3. ControlTypes'
    BY <1>19 DEF RestoreWithEmptySnapstore, NInv, ControlTypes, Places, RemoveAll, Fails, Works
  <2>4. Handshake' /\ Progress'
    BY <1>19
    DEF RestoreWithEmptySnapstore, NInv, Handshake, Progress, MultiNode, GivenUp, RemoveAll
  <2>5. UpToDate'
    BY <1>19, DirMade
    DEF RestoreWithEmptySnapstore, NInv, Handshake, Progress, UpToDate, Settled, RemoveAll
  <2>6. Remembers'
    BY <1>19, DirMade
    DEF RestoreWithEmptySnapstore, NInv, Handshake, Progress, Overlooked, Remembers, Settled,
        Looking, Restoring, RemoveAll
  <2>7. Overlooked'
    BY <1>19
    DEF RestoreWithEmptySnapstore, NInv, Overlooked, Looking, Restoring, Handshake, RemoveAll
  <2> QED
    BY <2>1, <2>2, <2>3, <2>4, <2>5, <2>6, <2>7 DEF NInv
<1>20. CASE RemovePart
  <2>1. StorageTypes'
    BY <1>20 DEF RemovePart, NInv, StorageTypes
  <2>2. Flags'
    BY <1>20 DEF RemovePart, NInv, Flags
  <2>3. ControlTypes'
    BY <1>20 DEF RemovePart, NInv, ControlTypes, Places, Fails, Works
  <2>4. Handshake' /\ Progress'
    BY <1>20 DEF RemovePart, NInv, Handshake, Progress, MultiNode, GivenUp
  <2>5. UpToDate'
    BY <1>20 DEF RemovePart, NInv, UpToDate, Settled
  <2>6. Remembers'
    BY <1>20 DEF RemovePart, NInv, Handshake, Remembers, Settled, Restoring
  <2>7. Overlooked'
    BY <1>20 DEF RemovePart, NInv, Overlooked, Looking, Restoring, Handshake
  <2> QED
    BY <2>1, <2>2, <2>3, <2>4, <2>5, <2>6, <2>7 DEF NInv
<1>21. CASE RestoreStarts
  <2>1. StorageTypes'
    BY <1>21 DEF RestoreStarts, NInv, StorageTypes
  <2>2. Flags'
    BY <1>21 DEF RestoreStarts, NInv, Flags
  <2>3. ControlTypes'
    BY <1>21 DEF RestoreStarts, NInv, ControlTypes, Places, Works
  <2>4. Handshake' /\ Progress'
    BY <1>21 DEF RestoreStarts, NInv, Handshake, Progress, MultiNode, GivenUp
  <2>5. UpToDate'
    BY <1>21 DEF RestoreStarts, NInv, UpToDate, Settled
  <2>6. Remembers'
    BY <1>21 DEF RestoreStarts, NInv, Handshake, Remembers, Settled, Restoring
  <2>7. Overlooked'
    BY <1>21 DEF RestoreStarts, NInv, Overlooked, Looking, Restoring, Handshake
  <2> QED
    BY <2>1, <2>2, <2>3, <2>4, <2>5, <2>6, <2>7 DEF NInv
<1>22. CASE RestoreEnds
  <2>1. StorageTypes'
    BY <1>22 DEF RestoreEnds, NInv, StorageTypes
  <2>2. Flags'
    BY <1>22 DEF RestoreEnds, NInv, Flags
  <2>3. ControlTypes'
    BY <1>22 DEF RestoreEnds, NInv, ControlTypes, Places, Fails, Works
  <2>4. Handshake' /\ Progress'
    BY <1>22 DEF RestoreEnds, NInv, Handshake, Progress, MultiNode, GivenUp
  <2>5. UpToDate'
    BY <1>22 DEF RestoreEnds, NInv, UpToDate, Settled
  <2>6. Remembers'
    BY <1>22 DEF RestoreEnds, NInv, Handshake, Remembers, Settled, Restoring
  <2>7. Overlooked'
    BY <1>22 DEF RestoreEnds, NInv, Overlooked, Looking, Restoring, Handshake
  <2> QED
    BY <2>1, <2>2, <2>3, <2>4, <2>5, <2>6, <2>7 DEF NInv
<1>23. CASE RemoveData
  <2>0. /\ dir' \in Dirs
        /\ \/ dir' = NoDir
           \/ dir'.exists = dir.exists /\ dir'.wal = dir.wal
    <3>1. dir' = NoDir \/ dir' = dir \/ dir' = [dir EXCEPT !.cond = "structure"]
      BY <1>23 DEF RemoveData, RemoveAll
    <3> QED
      BY <1>0, <3>1, DirMade DEF Dirs, Conditions
  <2>1. StorageTypes'
    BY <1>23, <2>0, DirMade DEF RemoveData, NInv, StorageTypes
  <2>2. Flags'
    BY <1>23 DEF RemoveData, NInv, Flags
  <2>3. ControlTypes'
    BY <1>23 DEF RemoveData, NInv, ControlTypes, Places, RemoveAll, Fails, Works
  <2>4. Handshake' /\ Progress'
    BY <1>23 DEF RemoveData, NInv, Handshake, Progress, MultiNode, GivenUp, RemoveAll
  <2>5. UpToDate'
    BY <1>23 DEF RemoveData, NInv, Handshake, UpToDate, Settled, RemoveAll
  <2>6. Remembers'
    BY <1>23 DEF RemoveData, NInv, Handshake, Remembers, Settled, Restoring, RemoveAll
  <2>7. Overlooked'
    BY <1>23 DEF RemoveData, NInv, Overlooked, Looking, Restoring, Handshake, RemoveAll
  <2> QED
    BY <2>1, <2>2, <2>3, <2>4, <2>5, <2>6, <2>7 DEF NInv
<1>24. CASE Rename
  <2>0. \/ dir' = dir /\ pc' = "idle" /\ status' = "Failed"
        \/ dir' \in Dirs /\ dir'.exists /\ dir'.wal = IF part = "whole" THEN backup ELSE 0
    <3> DEFINE rev == IF part = "whole" THEN backup ELSE 0
    <3>1. rev \in Revs /\ Data(rev) \in Dirs /\ Data(rev).exists /\ Data(rev).wal = rev
      BY DirMade DEF NInv, StorageTypes
    <3>2. \/ dir' = dir /\ pc' = "idle" /\ status' = "Failed"
          \/ dir' = Data(rev)
      BY <1>24 DEF Rename
    <3> HIDE DEF rev
    <3> QED
      BY <3>1, <3>2 DEF Dirs, rev
  <2>1. StorageTypes'
    BY <1>24, <2>0 DEF Rename, NInv, StorageTypes
  <2>2. Flags'
    BY <1>24 DEF Rename, NInv, Flags
  <2>3. ControlTypes'
    BY <1>24 DEF Rename, NInv, ControlTypes, Places, Fails, Works
  <2>4. Handshake' /\ Progress'
    BY <1>24 DEF Rename, NInv, Handshake, Progress, MultiNode, GivenUp
  <2>5. UpToDate'
    BY <1>0, <1>24, <2>0 DEF Rename, NInv, Progress, UpToDate, Settled
  <2>6. Remembers'
    BY <1>24, <2>0 DEF Rename, NInv, Handshake, Remembers, Settled, Restoring
  <2>7. Overlooked'
    BY <1>24 DEF Rename, NInv, Overlooked, Looking, Restoring, Handshake
  <2> QED
    BY <2>1, <2>2, <2>3, <2>4, <2>5, <2>6, <2>7 DEF NInv
<1>25. CASE TempDir
  <2>1. StorageTypes'
    BY <1>25 DEF TempDir, NInv, StorageTypes
  <2>2. Flags'
    BY <1>25 DEF TempDir, NInv, Flags
  <2>3. ControlTypes'
    BY <1>25 DEF TempDir, NInv, ControlTypes, Places, Fails, Works
  <2>4. Handshake' /\ Progress'
    BY <1>25 DEF TempDir, NInv, Handshake, Progress, MultiNode, GivenUp
  <2>5. UpToDate'
    BY <1>25 DEF TempDir, NInv, UpToDate, Settled
  <2>6. Remembers'
    BY <1>25 DEF TempDir, NInv, Remembers, Settled, Restoring
  <2>7. Overlooked'
    BY <1>25 DEF TempDir, NInv, Overlooked, Looking, Restoring, Handshake
  <2> QED
    BY <2>1, <2>2, <2>3, <2>4, <2>5, <2>6, <2>7 DEF NInv
<1>26. CASE Crash
  <2>1. StorageTypes'
    BY <1>26 DEF Crash, NInv, StorageTypes
  <2>2. Flags'
    BY <1>26 DEF Crash, NInv, Flags
  <2>3. ControlTypes'
    BY <1>26 DEF Crash, NInv, ControlTypes, Places
  <2>4. Handshake' /\ Progress'
    BY <1>26 DEF Crash, NInv, Handshake, Progress, MultiNode, GivenUp
  <2>5. UpToDate'
    BY <1>26 DEF Crash, NInv, UpToDate, Settled
  <2>6. Remembers'
    BY <1>26 DEF Crash, NInv, Remembers, Settled, Restoring
  <2>7. Overlooked'
    BY <1>26 DEF Crash, NInv, Overlooked, Looking, Restoring, Handshake
  <2> QED
    BY <2>1, <2>2, <2>3, <2>4, <2>5, <2>6, <2>7 DEF NInv
<1>27. CASE UNCHANGED vars
  BY <1>27
  DEF vars, NInv, StorageTypes, Flags, ControlTypes, Handshake, Progress, UpToDate,
      Overlooked, Remembers, Settled
<1> QED
  BY <1>1, <1>2, <1>3, <1>4, <1>5, <1>6, <1>7, <1>8, <1>9, <1>10, <1>11, <1>12, <1>13, <1>14,
     <1>15, <1>16, <1>17, <1>18, <1>19, <1>20, <1>21, <1>22, <1>23, <1>24, <1>25, <1>26,
     <1>27
  DEF Next, Initialize

\* A single etcd that runs is never behind the latest snapshot.
THEOREM NotBehindBackup == Spec => []NeverBehindBackup
<1>1. NInv => NeverBehindBackup
  BY DEF NInv, UpToDate, NeverBehindBackup
<1> QED
  BY <1>1, InitNInv, NextNInv, PTL DEF Spec

\* A multi-node member that has forgotten its data does not vote, unless neither the member
\* list nor the lease showed it and there is no backup; and it is restored from a snapshot
\* only when its heartbeat was not found and the bucket could at first not be listed.
THEOREM VotersRemember == Spec => []NoForgetfulVoter
<1>1. NInv => NoForgetfulVoter
  BY DEF NInv, Remembers, Restoring, Settled, NoForgetfulVoter, Unseen
<1> QED
  BY <1>1, InitNInv, NextNInv, PTL DEF Spec

\* Beside a cluster that has formed, a member founds one of its own only when the call
\* that would have shown it the cluster failed.
THEOREM OneCluster == Spec => NoSecondCluster
<1> DEFINE Excepted == \/ member = "none" /\ "scaleUp" \in unread
                       \/ member = "learner" /\ faults' # faults
                       \/ member = "voter" /\ Unseen
<1>1. ASSUME NInv, [Next]_vars, booting, conf' = "new", formed, ~dir.exists
      PROVE  Excepted
  <2>1. ~etcd /\ conf = "none" /\ pc = "idle" /\ status = "New" /\ faults \in Nat
    BY <1>1 DEF NInv, Handshake, ControlTypes
  <2>2. ServeConfig
    BY <1>1, <2>1
    DEF Next, Initialize, Poll, Join, Write, Serves, Backup, Exit, Damage, Crash, WasMember,
         ScaledUp, ClearDir, AddLearner, SanityCheck, CheckStatus, Verify, RemoveMember,
         ClearMemberDir, AddMemberAsLearner, FindLatest, RestoreWithEmptySnapstore, RemovePart,
         RestoreStarts, RestoreEnds, RemoveData, Rename, TempDir, vars, container
  <2>3. multi
    BY <1>1 DEF NInv, Progress
  <2>4. CASE member = "learner"
    BY <1>1, <2>1, <2>2, <2>3, <2>4 DEF ServeConfig, ClusterState, Works, Fails
  <2>5. CASE member # "learner"
    BY <1>1, <2>3, <2>5 DEF NInv, Remembers, Settled, ControlTypes, Unseen
  <2> QED
    BY <2>4, <2>5
<1>2. NInv /\ [Next]_vars => [booting /\ conf' = "new" /\ formed /\ ~dir.exists => Excepted]_vars
  BY <1>1
<1> QED
  BY <1>2, InitNInv, NextNInv, PTL DEF Spec, NoSecondCluster

-----------------------------------------------------------------------------
(* Which directories are discarded *)

\* What a failed validation may say without a decision to restore.
Refused == {"WrongVolumeMounted", "FailToOpenBoltDB", "StatusUnknown"}

\* The directory is not sound, or was not read.
Doubtful == Sound => "directory" \in unread

\* On a single node the initializer decides to restore only when it has reason to doubt
\* the directory and the volume is its own.
Spared ==
    /\ dir.db <= dir.wal
    /\ ~multi =>
         /\ pc = "verify" => ~foreign
         /\ pc \in Restoring => ~foreign /\ Doubtful
         /\ pc = "checkStatus" =>
              (foreign => dirStatus = "WrongVolumeMounted") /\ (dirStatus \in Refused \/ Doubtful)

\* Nothing happens to the decision.
LEMMA SparedStays ==
    ASSUME NInv, Spared, UNCHANGED <<config, dir, backup>>,
           \/ pc' \in {"idle", "tempDir", "validate"} \cup MultiNode
           \/ pc \in Restoring /\ pc' \in Restoring /\ unread' = unread
    PROVE  Spared'
<1>1. UNCHANGED <<multi, foreign, dir, backup>>
  BY DEF config
<1> QED
  BY <1>1 DEF Spared, Doubtful, Sound, MultiNode, Restoring

\* A directory that is gone is not sound.
LEMMA RemovedSpared ==
    ASSUME NInv, Spared, UNCHANGED config, pc \in Restoring \/ multi, NEW next, RemoveAll(next),
           next \in Restoring \cup MultiNode \cup {"tempDir"}
    PROVE  Spared'
<1>1. UNCHANGED <<multi, foreign>>
  BY DEF config
<1>2. CASE dir' = NoDir /\ pc' = next
  BY <1>1, <1>2 DEF Spared, Doubtful, NoDir, Sound, Restoring, MultiNode
<1>3. CASE dir' \in {dir, [dir EXCEPT !.cond = "structure"]} /\ pc' = "idle"
  <2>1. dir'.db <= dir'.wal
    BY <1>3 DEF Spared, NInv, StorageTypes, Dirs
  <2> QED
    BY <1>1, <1>3, <2>1 DEF Spared, Restoring
<1> QED
  BY <1>2, <1>3 DEF RemoveAll, Goto, Return

\* The validator finds nothing wrong with a sound directory that it can read, unless a call
\* fails, and then only that it could not look.
LEMMA CheckSpares ==
    ASSUME NInv, Spared, SanityCheck
    PROVE  Spared'
<1>1. /\ UNCHANGED <<multi, foreign, snapstore, backup>> /\ backup \in Nat
      /\ dir \in Dirs /\ dir.db \in Nat /\ dir.wal \in Nat /\ dir.db <= dir.wal
  BY InitializationAssumption
  DEF SanityCheck, config, NInv, StorageTypes, Dirs, Revs, Spared
<1>2. dir'.db <= dir'.wal /\ (dir' # dir => dirStatus' = "Valid")
  BY <1>1 DEF SanityCheck, Dirs
<1>3. pc' \in {"checkStatus", "verify", "tempDir"} /\ (pc' = "checkStatus" <=> dirStatus' # "Valid")
  BY DEF SanityCheck, Goto
<1>4. foreign => dirStatus' = "WrongVolumeMounted"
  BY DEF SanityCheck, SanityStatuses, FailedStatuses, MisreadStatuses, OpensDatabase,
         StartsEmbedded
<1>5. ASSUME ~multi, ~foreign, dirStatus' # "Valid", Sound', "directory" \notin unread'
      PROVE  dirStatus' \in Refused
  <2>1. dir' = dir /\ dir.exists /\ dir.cond = "ok" /\ dir.wal >= backup
    BY <1>1, <1>2, <1>5 DEF Sound
  <2>2. CASE dirStatus' \in SanityStatuses
    BY <1>5, <2>1, <2>2 DEF SanityStatuses
  <2>3. CASE dirStatus' \in FailedStatuses
    BY <2>3 DEF FailedStatuses, Refused
  <2> QED
    BY <1>5, <2>2, <2>3 DEF SanityCheck, CouldNotRead
<1>6. pc' \notin Restoring
  BY <1>3 DEF Restoring
<1> QED
  BY <1>1, <1>2, <1>3, <1>4, <1>5, <1>6 DEF Spared, Doubtful, Refused

\* Every step keeps Spared.
LEMMA NextSpared ==
    ASSUME NInv, Spared, [Next]_vars
    PROVE  Spared'
<1>1. dir \in Dirs /\ dir.db <= dir.wal /\ dir.db \in Nat /\ dir.wal \in Nat
      /\ (etcd \/ booting \/ status = "New" => pc = "idle")
  BY InitializationAssumption DEF NInv, StorageTypes, Handshake, Dirs, Revs, Spared
<1>2. ASSUME UNCHANGED <<multi, foreign>>, pc' = "idle", dir'.db <= dir'.wal PROVE Spared'
  BY <1>2 DEF Spared, Restoring
<1>3. CASE Poll
  <2>1. UNCHANGED <<config, dir, backup>> /\ pc' \in {"idle", "validate"} \cup MultiNode
    BY <1>3 DEF Poll, storage, NInv, Handshake, MultiNode
  <2> QED
    BY <2>1, SparedStays
<1>4. CASE ServeConfig
  <2>1. UNCHANGED <<multi, foreign, pc>> /\ booting /\ (dir' = dir \/ dir' = Data(0))
    BY <1>4 DEF ServeConfig, config
  <2> QED
    BY <1>1, <1>2, <2>1 DEF Data
<1>5. CASE Join \/ Backup
  <2>1. UNCHANGED <<multi, foreign, pc, dir>> /\ etcd
    BY <1>5 DEF Join, Backup, Serves, config, storage
  <2> QED
    BY <1>1, <1>2, <2>1
<1>6. CASE Write \/ Exit
  <2>1. UNCHANGED <<multi, foreign, pc>> /\ etcd
    BY <1>6 DEF Write, Serves, Exit, config
  <2>2. dir'.db <= dir'.wal
    <3>1. CASE Write
      <4>1. PICK f \in {dir.db, dir.wal + 1} : dir' = [dir EXCEPT !.wal = dir.wal + 1, !.db = f]
        BY <3>1 DEF Write
      <4>2. dir'.wal = dir.wal + 1 /\ dir'.db = f
        BY <1>1, <4>1 DEF Dirs
      <4> QED
        BY <1>1, <4>1, <4>2
    <3>2. CASE Exit
      BY <1>1, <3>2 DEF Exit, Dirs
    <3> QED
      BY <1>6, <3>1, <3>2
  <2> QED
    BY <1>1, <1>2, <2>1, <2>2
<1>7. CASE Damage
  <2>1. UNCHANGED <<multi, foreign, pc>> /\ pc = "idle"
    BY <1>1, <1>7 DEF Damage, config
  <2>2. dir'.db <= dir'.wal
    <3>1. \A r \in Revs : Data(r).db <= Data(r).wal
      BY InitializationAssumption DEF Data, Revs
    <3> QED
      BY <1>1, <1>7, <3>1 DEF Damage, NoDir, Dirs
  <2> QED
    BY <1>2, <2>1, <2>2
<1>8. CASE Crash
  BY <1>1, <1>2, <1>8 DEF Crash, Return, config, storage
<1>9. CASE WasMember \/ ScaledUp \/ AddLearner \/ RemoveMember \/ AddMemberAsLearner \/ TempDir
  <2>1. UNCHANGED <<config, dir, backup>>
    BY <1>9
    DEF WasMember, ScaledUp, AddLearner, RemoveMember, AddMemberAsLearner, TempDir, storage
  <2>2. pc' \in {"idle", "tempDir", "validate"} \cup MultiNode
    BY <1>9 DEF WasMember, ScaledUp, AddLearner, RemoveMember, AddMemberAsLearner, TempDir,
                Goto, Return, MultiNode
  <2> QED
    BY <2>1, <2>2, SparedStays
<1>10. CASE ClearDir
  BY <1>10 DEF ClearDir, Goto, config, Spared, NoDir, Restoring
<1>11. CASE SanityCheck
  BY <1>11, CheckSpares
<1>12. CASE CheckStatus
  <2>1. UNCHANGED <<config, dir, backup>> /\ pc = "checkStatus"
    BY <1>12 DEF CheckStatus, storage
  <2>2. UNCHANGED <<multi, foreign, dir, backup>>
    BY <2>1 DEF config
  <2>3. pc' \in {"idle", "removeMember", "list"} /\ (pc' = "list" => dirStatus' \notin Refused)
    BY <1>12 DEF CheckStatus, Decision, Goto, Return, Refused
  <2>4. ~multi => dirStatus' = dirStatus
    BY <1>12 DEF CheckStatus
  <2>5. "directory" \in unread => "directory" \in unread'
    BY <1>12 DEF CheckStatus, IsBackupBucketEmpty, CouldNotRead
  <2> QED
    BY <2>1, <2>2, <2>3, <2>4, <2>5 DEF Spared, Doubtful, Sound, Refused, Restoring
<1>13. CASE Verify
  <2>1. UNCHANGED <<config, dir, backup>> /\ pc = "verify"
    BY <1>13 DEF Verify, storage
  <2>2. UNCHANGED <<multi, foreign, dir, backup>>
    BY <2>1 DEF config
  <2>3. /\ pc' \in {"idle", "removeMember", "list", "tempDir"}
        /\ pc' = "list" => dir.cond # "ok" \/ "directory" \in unread'
    BY <1>13 DEF Verify, Decision, Goto, Return, CouldNotRead
  <2> QED
    BY <2>1, <2>2, <2>3 DEF Spared, Doubtful, Sound, Restoring
<1>14. CASE ClearMemberDir
  <2>1. UNCHANGED config /\ multi /\ RemoveAll("readd")
    BY <1>14 DEF ClearMemberDir, NInv, Progress, MultiNode
  <2> QED
    BY <2>1, RemovedSpared DEF MultiNode
<1>15. CASE RestoreWithEmptySnapstore
  <2>1. UNCHANGED config /\ pc \in Restoring /\ RemoveAll("tempDir")
    BY <1>15 DEF RestoreWithEmptySnapstore, Restoring
  <2> QED
    BY <2>1, RemovedSpared
<1>16. CASE RemoveData
  <2>1. UNCHANGED config /\ pc \in Restoring /\ RemoveAll("rename")
    BY <1>16 DEF RemoveData, Restoring
  <2> QED
    BY <2>1, RemovedSpared DEF Restoring
<1>17. CASE FindLatest \/ RemovePart \/ RestoreStarts \/ RestoreEnds
  <2>1. UNCHANGED <<config, dir, backup>> /\ unread' = unread
    BY <1>17 DEF FindLatest, RemovePart, RestoreStarts, RestoreEnds, storage, local
  <2>2. pc \in Restoring /\ pc' \in Restoring \cup {"idle"}
    BY <1>17 DEF FindLatest, RemovePart, RestoreStarts, RestoreEnds, Goto, Return, Restoring
  <2> QED
    BY <2>1, <2>2, SparedStays
<1>18. CASE Rename
  <2>1. UNCHANGED <<multi, foreign>> /\ pc' \in {"idle", "tempDir"}
    BY <1>18 DEF Rename, config, Goto, Return
  <2>2. dir' = dir \/ (dir'.db = dir'.wal /\ dir'.wal \in Nat)
    <3>1. backup \in Nat
      BY InitializationAssumption DEF NInv, StorageTypes, Revs
    <3>2. PICK r \in {backup, 0} : dir' = dir \/ dir' = Data(r)
      BY <1>18 DEF Rename
    <3> QED
      BY <3>1, <3>2 DEF Data
  <2> QED
    BY <1>1, <2>1, <2>2 DEF Spared, Restoring
<1>19. CASE UNCHANGED vars
  BY <1>19 DEF vars, config, storage, local, bounds, Spared, Doubtful, Sound
<1> QED
  BY <1>3, <1>4, <1>5, <1>6, <1>7, <1>8, <1>9, <1>10, <1>11, <1>12, <1>13, <1>14, <1>15, <1>16,
     <1>17, <1>18, <1>19 DEF Next, Initialize

\* On a single node Initialize discards a data directory only on its own volume, only if it
\* is not sound or could not be read, and, if there is a backup, only when a whole restored
\* copy stands ready.
THEOREM SoundDirStays == Spec => SoundDirKept
<1> DEFINE Justified == /\ ~foreign
                        /\ Sound => "directory" \in unread
                        /\ backup # 0 => part = "whole"
<1>1. ASSUME Init PROVE Spared
  <2>1. pc = "idle" /\ dir \in {NoDir, Data(0)}
    BY <1>1 DEF Init
  <2> QED
    BY <2>1 DEF Spared, NoDir, Data, Restoring
<1>2. ASSUME NInv, Spared, [Next]_vars, ~multi, pc # "idle", Discards
      PROVE  Justified
  <2>1. ~etcd /\ ~booting /\ status = "Progress" /\ pc \notin MultiNode /\ dir.exists
    BY <1>2 DEF NInv, Handshake, Progress, Discards
  <2>2. RestoreWithEmptySnapstore \/ RemoveData \/ Rename
    BY <1>2, <2>1
    DEF Next, Initialize, Poll, ServeConfig, Join, Write, Serves, Backup, Exit, Damage, Crash,
        WasMember, ScaledUp, ClearDir, AddLearner, SanityCheck, CheckStatus, Verify, RemoveMember,
        ClearMemberDir, AddMemberAsLearner, FindLatest, RemovePart, RestoreStarts, RestoreEnds,
        TempDir, vars, storage, MultiNode, Discards
  <2>3. pc \in {"empty", "removeData", "rename"}
    BY <2>2 DEF RestoreWithEmptySnapstore, RemoveData, Rename
  <2>4. ~foreign /\ (Sound => "directory" \in unread)
    BY <1>2, <2>3 DEF Spared, Doubtful, Restoring
  <2> QED
    BY <1>2, <2>3, <2>4 DEF NInv, Progress
<1>3. NInv /\ Spared /\ [Next]_vars => Spared'
  BY NextSpared
<1>4. NInv /\ Spared /\ [Next]_vars => [~multi /\ pc # "idle" /\ Discards => Justified]_vars
  BY <1>2
<1> QED
  BY <1>1, <1>3, <1>4, InitNInv, NextNInv, PTL DEF Spec, SoundDirKept
=============================================================================
