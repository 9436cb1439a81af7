--------------------------- MODULE LeadershipProofs ---------------------------
(***************************************************************************)
(* What comes with leadership, for every number of status changes,         *)
(* failures, revisions, snapshots, runs and jobs: never two terms of       *)
(* leadership and never two renewals of the member lease (LeaderElection), *)
(* and a full snapshot lease that never falls back (SnapshotLeases).       *)
(***************************************************************************)
EXTENDS LeaderElection, SnapshotLeases, FiniteSetTheorems, TLAPS

Renews(c) == renewer[c] \in {"starting", "select", "renewing"}

NoStatus == etcd \in {"noLeader", "down"}

EInvTypes ==
    /\ changes \in 0 .. MaxChanges /\ mmStopCh \in Nat
    /\ etcd \in {"leader", "follower", "learner", "noLeader", "down"}
    /\ term \in Nat /\ cancelled \subseteq 1 .. term /\ (state = "Leader" => term > 0)
    /\ state \in {"Follower", "Leader", "UnknownState"}
    /\ le \in {"select", "stopLease", "exited"}
    /\ renewer \in [Channels -> {"none", "starting", "select", "renewing", "ended"}]
    /\ ctx \in BOOLEAN /\ config \in [snapshots : BOOLEAN, leases : BOOLEAN]

\* The renewal is started anew only after a status that was not known and one that is,
\* each of which takes a change of the etcd member, so that the channels suffice.
ChannelsSuffice ==
    /\ mmStopCh <= changes
    /\ NoStatus \/ (~ctx /\ (state = "UnknownState" \/ le = "stopLease")) => mmStopCh < changes

\* Only the goroutine of the current channel renews, and it does as long as the status is
\* known and the server is not shutting down.
CurrentRenews ==
    /\ \A c \in Channels : Renews(c) => c = mmStopCh /\ state # "UnknownState" /\ config.leases
    /\ config.leases /\ state # "UnknownState" /\ ~ctx /\ le # "exited" => Renews(mmStopCh)

EInv == EInvTypes /\ ChannelsSuffice /\ CurrentRenews /\ OneTerm

\* The server has started its lease renewal and no term.
LEMMA InitEInv == Init => EInv
<1> SUFFICES ASSUME Init PROVE EInv
  OBVIOUS
<1>1. 0 \in Channels /\ MaxChanges \in Nat
  BY LEAssumption DEF Channels
<1>2. EInvTypes /\ ChannelsSuffice
  <2>1. renewer \in [Channels -> {"none", "starting", "select", "renewing", "ended"}]
    BY DEF Init
  <2>2. ctx \in BOOLEAN /\ config \in [snapshots : BOOLEAN, leases : BOOLEAN]
    BY Zenon DEF Init
  <2>3. /\ etcd \in {"leader", "follower", "learner", "noLeader", "down"} /\ ~NoStatus
        /\ state = "Follower" /\ le = "select" /\ term = 0 /\ cancelled = {}
        /\ changes = 0 /\ mmStopCh = 0
    BY DEF Init, NoStatus
  <2>4. EInvTypes
    BY <1>1, <2>1, <2>2, <2>3 DEF EInvTypes
  <2>5. ChannelsSuffice
    BY <2>3 DEF ChannelsSuffice
  <2> QED
    BY <2>4, <2>5
<1>3. CurrentRenews
  BY <1>1 DEF Init, CurrentRenews, Renews
<1>4. OneTerm
  BY DEF Init, OneTerm
<1> QED
  BY <1>2, <1>3, <1>4 DEF EInv

\* A step of a probe loop, a defragmentor or the promotion of a learner.
LEMMA WorkKeeps ==
    ASSUME EInv, etcd' = etcd \/ (etcd' = "follower" /\ ~NoStatus),
           UNCHANGED <<config, changes, ctx, le, state, term, cancelled, snapshotter, lease>>
    PROVE  EInv'
<1>1. EInvTypes' /\ ChannelsSuffice'
  BY DEF EInv, EInvTypes, ChannelsSuffice, NoStatus, lease
<1>2. CurrentRenews' /\ OneTerm'
  BY DEF EInv, CurrentRenews, Renews, OneTerm, lease
<1> QED
  BY <1>1, <1>2 DEF EInv

\* The status changes.
LEMMA ChangeKeeps ==
    ASSUME EInv, Change
    PROVE  EInv'
<1>1. EInvTypes' /\ ChannelsSuffice'
  BY LEAssumption DEF Change, EInv, EInvTypes, ChannelsSuffice, NoStatus, lease
<1>2. CurrentRenews' /\ OneTerm'
  BY DEF Change, EInv, CurrentRenews, Renews, OneTerm, lease, handler
<1> QED
  BY <1>1, <1>2 DEF EInv

\* A signal cancels all terms.
LEMMA SignalKeeps ==
    ASSUME EInv, Signal
    PROVE  EInv'
<1>1. EInvTypes' /\ ChannelsSuffice'
  BY DEF Signal, EInv, EInvTypes, ChannelsSuffice, NoStatus, lease, env
<1>2. CurrentRenews' /\ OneTerm'
  BY DEF Signal, EInv, CurrentRenews, Renews, OneTerm, lease, handler, env
<1> QED
  BY <1>1, <1>2 DEF EInv

\* leCancel and OnStoppedLeading end the only term.
LEMMA TermEnds ==
    ASSUME EInv, state = "Leader", state' # "Leader", OnStoppedLeading, UNCHANGED <<config, ctx>>
    PROVE  term' \in Nat /\ cancelled' \subseteq 1 .. term' /\ OneTerm'
<1>1. term \in Nat /\ term > 0 /\ cancelled \subseteq 1 .. term /\ term' = term
      /\ cancelled' = cancelled \cup {term}
  BY DEF EInv, EInvTypes, OnStoppedLeading
<1>2. cancelled' \subseteq 1 .. term'
  BY <1>1
<1>3. OneTerm'
  BY <1>1 DEF EInv, OneTerm, OnStoppedLeading
<1> QED
  BY <1>1, <1>2, <1>3

\* OnStartedLeading follows the end of the term before.
LEMMA TermStarts ==
    ASSUME EInv, state # "Leader", ~ctx, state' = "Leader", OnStartedLeading, UNCHANGED <<config, ctx>>
    PROVE  term' \in Nat /\ term' > 0 /\ cancelled' \subseteq 1 .. term' /\ OneTerm'
<1>1. term \in Nat /\ cancelled \subseteq 1 .. term /\ term' = term + 1 /\ cancelled' = cancelled
  BY DEF EInv, EInvTypes, OnStartedLeading
<1>2. 1 .. term \subseteq cancelled
  BY <1>1 DEF EInv, OneTerm
<1>3. cancelled' \subseteq 1 .. term' /\ term' \notin cancelled' /\ 1 .. term' \ cancelled' \subseteq {term'}
  BY <1>1, <1>2
<1>4. term' > 0 /\ (config.snapshots => snapshotter' = term')
  <2>1. config.snapshots => snapshotter' = term + 1
    BY Zenon DEF OnStartedLeading
  <2> QED
    BY <1>1, <2>1
<1>5. OneTerm'
  BY <1>3, <1>4 DEF OneTerm
<1> QED
  BY <1>1, <1>3, <1>4, <1>5

\* The elector's steps on a known status: a term starts or ends.
LEMMA KnownKeeps ==
    ASSUME EInv, PollLeader \/ PollFollower
    PROVE  EInv'
<1>0. ~ctx /\ ~NoStatus /\ le = "select" /\ UNCHANGED <<env, ctx, le>> /\ MaxChanges \in Nat
      /\ state' \in {"Leader", "Follower"}
  BY LEAssumption DEF PollLeader, PollFollower, Poll, EtcdMemberStatus, NoStatus
<1>1. CASE state = "UnknownState"
  <2>1. mmStopCh' = mmStopCh + 1 /\ mmStopCh + 1 \in Channels /\ mmStopCh + 1 <= changes
        /\ renewer' = IF config.leases THEN [renewer EXCEPT ![mmStopCh + 1] = "starting"] ELSE renewer
    BY <1>0, <1>1
    DEF PollLeader, PollFollower, StartLeaseRenewal, EInv, EInvTypes, ChannelsSuffice,
                      Channels
  <2>2. \A c \in Channels : ~Renews(c)
    BY <1>1 DEF EInv, CurrentRenews
  <2>3. renewer' \in [Channels -> {"none", "starting", "select", "renewing", "ended"}]
    BY <2>1 DEF EInv, EInvTypes
  <2>4. CurrentRenews'
    BY <1>0, <2>1, <2>2 DEF EInv, EInvTypes, CurrentRenews, Renews, env
  <2>5. ChannelsSuffice'
    BY <1>0, <2>1 DEF EInv, EInvTypes, ChannelsSuffice, NoStatus, env
  <2>6. EInvTypes' /\ OneTerm'
    <3>1. CASE PollLeader
      <4>1. term' \in Nat /\ term' > 0 /\ cancelled' \subseteq 1 .. term' /\ OneTerm'
        BY <1>0, <1>1, <3>1, TermStarts DEF PollLeader, env
      <4> QED
        BY <1>0, <2>1, <2>3, <4>1 DEF EInv, EInvTypes, env
    <3>2. CASE PollFollower
      <4>1. state' = "Follower" /\ UNCHANGED <<term, cancelled, handler>>
        BY <1>1, <3>2 DEF PollFollower
      <4> QED
        BY <1>0, <1>1, <2>1, <2>3, <4>1 DEF EInv, EInvTypes, OneTerm, env, handler
    <3> QED
      BY <3>1, <3>2
  <2> QED
    BY <2>4, <2>5, <2>6 DEF EInv
<1>2. CASE state # "UnknownState"
  <2>1. UNCHANGED lease
    BY <1>2 DEF PollLeader, PollFollower, EInv, EInvTypes
  <2>2. CurrentRenews' /\ ChannelsSuffice'
    BY <1>0, <1>2, <2>1 DEF EInv, CurrentRenews, Renews, ChannelsSuffice, NoStatus, env, lease
  <2>3. EInvTypes' /\ OneTerm'
    <3>1. CASE PollLeader
      <4>1. term' \in Nat /\ term' > 0 /\ cancelled' \subseteq 1 .. term' /\ OneTerm'
        BY <1>0, <3>1, TermStarts DEF PollLeader, env
      <4> QED
        BY <1>0, <2>1, <4>1 DEF EInv, EInvTypes, env, lease
    <3>2. CASE PollFollower
      <4>1. state = "Leader" /\ state' = "Follower" /\ OnStoppedLeading
        BY <1>2, <3>2 DEF PollFollower, EInv, EInvTypes
      <4>2. term' \in Nat /\ cancelled' \subseteq 1 .. term' /\ OneTerm'
        BY <1>0, <4>1, TermEnds DEF env
      <4> QED
        BY <1>0, <2>1, <4>1, <4>2 DEF EInv, EInvTypes, env, lease
    <3> QED
      BY <3>1, <3>2
  <2> QED
    BY <2>2, <2>3 DEF EInv
<1> QED
  BY <1>1, <1>2

\* Whether or not there is a term to end, none is left when the status is not known.
LEMMA LostEnds ==
    ASSUME EInv, Lost, UNCHANGED <<config, ctx>>
    PROVE  term' \in Nat /\ cancelled' \subseteq 1 .. term' /\ OneTerm' /\ state' = "UnknownState"
<1>1. CASE state = "Leader"
  BY <1>1, TermEnds DEF Lost
<1>2. CASE state # "Leader"
  <2>1. state' = "UnknownState" /\ UNCHANGED <<term, cancelled, handler>>
    BY <1>2 DEF Lost
  <2>2. OneTerm'
    BY <1>2, <2>1 DEF EInv, OneTerm, handler
  <2> QED
    BY <2>1, <2>2 DEF EInv, EInvTypes
<1> QED
  BY <1>1, <1>2

\* The elector's steps on an unknown status: the renewal stops, and then the term.
LEMMA UnknownKeeps ==
    ASSUME EInv, PollFails \/ StopLeaseRenewal
    PROVE  EInv'
<1>1. CASE PollFails /\ state # "UnknownState" /\ config.leases
  <2>1. /\ le' = "stopLease" /\ UNCHANGED <<state, term, cancelled, handler, env, ctx, lease>>
        /\ ctx \/ NoStatus
    BY <1>1 DEF PollFails, EtcdMemberStatus, NoStatus, EInv, EInvTypes
  <2>2. EInvTypes' /\ ChannelsSuffice'
    BY <2>1 DEF EInv, EInvTypes, ChannelsSuffice, NoStatus, env, lease
  <2>3. CurrentRenews' /\ OneTerm'
    BY <1>1, <2>1 DEF PollFails, Poll, EInv, CurrentRenews, Renews, OneTerm, env, lease, handler
  <2> QED
    BY <2>2, <2>3 DEF EInv
<1>2. CASE PollFails /\ ~(state # "UnknownState" /\ config.leases)
  <2>1. Lost /\ le = "select" /\ UNCHANGED <<le, env, ctx, lease>> /\ (ctx \/ NoStatus)
    BY <1>2 DEF PollFails, Poll, EtcdMemberStatus, NoStatus, EInv, EInvTypes
  <2>2. EInvTypes' /\ OneTerm'
    <3>1. term' \in Nat /\ cancelled' \subseteq 1 .. term' /\ OneTerm' /\ state' = "UnknownState"
      BY <2>1, LostEnds DEF env
    <3> QED
      BY <2>1, <3>1 DEF EInv, EInvTypes, env, lease
  <2>3. ChannelsSuffice'
    BY <2>1 DEF Lost, EInv, ChannelsSuffice, NoStatus, env, lease
  <2>4. CurrentRenews'
    BY <1>2, <2>1 DEF Lost, EInv, CurrentRenews, Renews, env, lease
  <2> QED
    BY <2>2, <2>3, <2>4 DEF EInv
<1>3. CASE StopLeaseRenewal
  <2>1. /\ Lost /\ le = "stopLease" /\ le' = "select" /\ UNCHANGED <<env, ctx, mmStopCh>>
        /\ renewer' = [renewer EXCEPT ![mmStopCh] = "ended"]
    BY <1>3 DEF StopLeaseRenewal
  <2>2. renewer' \in [Channels -> {"none", "starting", "select", "renewing", "ended"}]
    BY <2>1 DEF EInv, EInvTypes
  <2>3. EInvTypes' /\ OneTerm'
    <3>1. term' \in Nat /\ cancelled' \subseteq 1 .. term' /\ OneTerm' /\ state' = "UnknownState"
      BY <2>1, LostEnds DEF env
    <3> QED
      BY <2>1, <2>2, <3>1 DEF EInv, EInvTypes, env
  <2>4. ChannelsSuffice'
    BY <2>1 DEF Lost, EInv, ChannelsSuffice, NoStatus, env
  <2>5. CurrentRenews'
    BY <2>1 DEF Lost, EInv, EInvTypes, CurrentRenews, Renews, env
  <2> QED
    BY <2>3, <2>4, <2>5 DEF EInv
<1> QED
  BY <1>1, <1>2, <1>3

\* Steps of a renewal goroutine.
LEMMA RenewalKeeps ==
    ASSUME EInv, NEW c \in Channels, Renew(c) \/ RenewalFatal(c)
    PROVE  EInv'
<1>0. UNCHANGED <<env, ctx, state, term, cancelled, handler, mmStopCh>> /\ le # "exited"
  BY DEF Renew, RenewalFatal, RenewalStarts, RenewMemberLease, LeaseRenewed, RenewalStops,
         Renewal,
         Alive
<1>1. le' = le \/ le' = "exited"
  BY DEF Renew, RenewalFatal, RenewalStarts, RenewMemberLease, LeaseRenewed, RenewalStops
<1>2. PICK to \in {"select", "renewing", "ended"} :
        /\ renewer' = [renewer EXCEPT ![c] = to] /\ Renews(c)
        /\ to = "ended" => ctx \/ le' = "exited"
  BY DEF Renew, RenewalFatal, RenewalStarts, RenewMemberLease, LeaseRenewed, RenewalStops,
         Renewal,
         Renews
<1>3. EInvTypes' /\ ChannelsSuffice'
  BY <1>0, <1>1, <1>2 DEF EInv, EInvTypes, ChannelsSuffice, NoStatus, env
<1>4. CurrentRenews'
  BY <1>0, <1>1, <1>2 DEF EInv, EInvTypes, CurrentRenews, Renews, env
<1>5. OneTerm'
  BY <1>0 DEF EInv, OneTerm, env, handler
<1> QED
  BY <1>3, <1>4, <1>5 DEF EInv

\* The elector returns when the server shuts down.
LEMMA ReturnsKeeps ==
    ASSUME EInv, Returns
    PROVE  EInv'
<1>1. EInvTypes' /\ ChannelsSuffice'
  BY DEF Returns, EInv, EInvTypes, ChannelsSuffice, NoStatus, env, lease
<1>2. CurrentRenews' /\ OneTerm'
  BY DEF Returns, EInv, CurrentRenews, Renews, OneTerm, env, lease, handler
<1> QED
  BY <1>1, <1>2 DEF EInv

\* The invariant is inductive.
LEMMA NextEInv == EInv /\ [Next]_vars => EInv'
<1> SUFFICES ASSUME EInv, [Next]_vars PROVE EInv'
  OBVIOUS
<1>1. CASE Promote
  BY <1>1, WorkKeeps DEF Promote, handler, NoStatus, EtcdMemberStatus
<1>2. CASE \E t \in Terms : Loop(t)
  <2>1. UNCHANGED <<elsewhere>>
    BY <1>2 DEF Loop, EnterLoop, ProbeFails, ProbeWorks, BackoffStopped, Serve, SnapshotTaken,
                SnapshotterReturns, WaitEnds
  <2> QED
    BY <2>1, WorkKeeps DEF elsewhere, NoStatus
<1>3. CASE \E t \in Terms : Defragment(t)
  BY <1>3, WorkKeeps DEF Defragment, env, handler, NoStatus
<1>4. CASE UNCHANGED vars
  BY <1>4, WorkKeeps DEF vars, env, handler, NoStatus
<1> QED
  BY <1>1, <1>2, <1>3, <1>4, ChangeKeeps, SignalKeeps, KnownKeeps, UnknownKeeps, RenewalKeeps,
     ReturnsKeeps DEF Next, Elector

\* However the status of the etcd member changes and whatever goroutines of earlier terms
\* still run, at most one term is not cancelled, and the elector's state and the handler's
\* Snapshotter belong to it.
THEOREM TermIsUnique == Spec => []OneTerm
<1>1. EInv => OneTerm
  BY DEF EInv
<1> QED
  BY <1>1, InitEInv, NextEInv, PTL DEF Spec

\* There is never a second goroutine that renews the member lease, and one does exactly as
\* long as the status is known.
THEOREM RenewalIsUnique == Spec => []OneRenewal
<1>1. EInv => OneRenewal
  <2> SUFFICES ASSUME EInv PROVE OneRenewal
    OBVIOUS
  <2>1. Renewing \subseteq {mmStopCh}
    BY DEF EInv, CurrentRenews, Renewing, Renews
  <2>2. Cardinality(Renewing) <= 1
    <3>1. IsFiniteSet({mmStopCh}) /\ Cardinality({mmStopCh}) = 1
      BY FS_Singleton
    <3>2. Cardinality(Renewing) <= Cardinality({mmStopCh})
      BY <2>1, <3>1, FS_Subset
    <3> QED
      BY <3>1, <3>2
  <2>3. mmStopCh \in Channels
    BY LEAssumption DEF EInv, EInvTypes, ChannelsSuffice, Channels
  <2>4. ASSUME le = "select", ~ctx, config.leases
        PROVE  Renewing = {mmStopCh} <=> state # "UnknownState"
    BY <2>1, <2>3, <2>4 DEF EInv, CurrentRenews, Renewing, Renews
  <2> QED
    BY <2>2, <2>4 DEF OneRenewal
<1> QED
  BY <1>1, InitEInv, NextEInv, PTL DEF Spec

-----------------------------------------------------------------------------
(***************************************************************************)
(* The full snapshot lease, which several actors update.                   *)
(***************************************************************************)

Actors == {"probe", "renewer", "compactor"}

Stages == {"idle", "get", "patch", "done", "failed"}

LeaseTypes ==
    /\ full \in Int /\ prevFull \in Int
    /\ fullLease \in [rev : Int, ver : Nat]
    /\ fullUpd \in [Actors -> [at : Stages, snap : Int, ver : Nat]]

\* What an actor read for its patch is no newer than the lease, and as long as the lease
\* has not changed since, the snapshot is not behind it.
ReadsFit ==
    \A a \in Actors : fullUpd[a].at = "patch" =>
        /\ fullUpd[a].ver <= fullLease.ver
        /\ fullUpd[a].ver = fullLease.ver => fullLease.rev <= fullUpd[a].snap

LInv == LeaseTypes /\ ReadsFit

\* Initially no lease has a holder and no actor updates one.
LEMMA InitLInv == LeaseInit => LInv
BY DEF LeaseInit, LInv, LeaseTypes, ReadsFit, Actors, Stages, Idle

\* An update that starts has read nothing yet.
LEMMA StartKeeps ==
    ASSUME LInv, NEW a \in Actors, NEW r \in Int, StartFullUpdate(a, r),
           UNCHANGED fullLease, full' \in Int, prevFull' \in Int
    PROVE  LInv'
BY DEF LInv, LeaseTypes, ReadsFit, StartFullUpdate, Idle, Stages

\* An update that has returned is forgotten.
LEMMA ReapKeeps ==
    ASSUME LInv, NEW a \in Actors, Reap(a), UNCHANGED <<full, prevFull, fullLease>>
    PROVE  LInv'
BY DEF LInv, LeaseTypes, ReadsFit, Reap, Idle, Stages

\* Get reads the version with the revision that it compares.
LEMMA GetKeeps ==
    ASSUME LInv, NEW a \in Actors, GetFullLease(a)
    PROVE  LInv'
BY DEF LInv, LeaseTypes, ReadsFit, GetFullLease, Proceeds, Stages, store, leases

\* A patch that is applied makes every other read out of date.
LEMMA PatchKeeps ==
    ASSUME LInv, NEW a \in Actors, PatchFullLease(a)
    PROVE  LInv' /\ fullLease'.rev >= fullLease.rev
<1>1. UNCHANGED <<full, prevFull>>
  BY DEF PatchFullLease, store
<1>2. CASE UNCHANGED fullLease /\ \E at \in {"get", "failed"} : Proceeds(a, at)
  BY <1>1, <1>2 DEF LInv, LeaseTypes, ReadsFit, Proceeds, Stages
<1>3. CASE /\ fullUpd[a].at = "patch" /\ fullUpd[a].ver = fullLease.ver
           /\ PatchedBy(a) /\ \E at \in {"done", "failed"} : Proceeds(a, at)
  <2>1. fullLease.rev <= fullUpd[a].snap /\ fullUpd[a].snap \in Int /\ fullLease.ver \in Nat
    BY <1>3 DEF LInv, LeaseTypes, ReadsFit
  <2>2. fullLease' \in [rev : Int, ver : Nat] /\ fullLease'.rev = fullUpd[a].snap
        /\ fullLease'.ver = fullLease.ver + 1
    BY <1>3, <2>1 DEF PatchedBy
  <2>3. PICK at \in {"done", "failed"} : Proceeds(a, at)
    BY <1>3
  <2>4. LeaseTypes'
    BY <1>1, <2>2, <2>3 DEF LInv, LeaseTypes, Proceeds, Stages
  <2>5. ReadsFit'
    <3> SUFFICES ASSUME NEW b \in Actors, fullUpd'[b].at = "patch"
                 PROVE  fullUpd'[b].ver < fullLease'.ver
      BY <2>2, <2>4 DEF ReadsFit, LeaseTypes
    <3>1. b # a /\ fullUpd'[b] = fullUpd[b]
      BY <2>3 DEF Proceeds, LInv, LeaseTypes
    <3> QED
      BY <3>1, <2>1, <2>2 DEF LInv, LeaseTypes, ReadsFit
  <2> QED
    BY <2>1, <2>2, <2>4, <2>5 DEF LInv
<1> QED
  BY <1>2, <1>3 DEF PatchFullLease

\* A step that changes neither a full snapshot's revision nor the lease nor an update.
LEMMA OthersKeep ==
    ASSUME LInv, UNCHANGED <<full, prevFull, fullLease, fullUpd>>
    PROVE  LInv'
BY DEF LInv, LeaseTypes, ReadsFit

\* The process that dies forgets the updates of its goroutines.
LEMMA PanicKeeps == LInv /\ Panic => LInv'
BY DEF LInv, LeaseTypes, ReadsFit, Panic, Idle, Stages, Actors, store, leases

\* Every step keeps the invariant and the order of the lease's revisions.
LEMMA NextLInv ==
    ASSUME LInv, [LeaseNext]_leaseVars
    PROVE  LInv' /\ fullLease'.rev >= fullLease.rev
<1> USE DEF Actors
<1>0. fullLease.rev \in Int
  BY DEF LInv, LeaseTypes
<1>1. CASE FirstFull
  <2>1. PICK r \in 1 .. MaxRev : full' = r /\ prevFull' = r /\ StartFullUpdate("probe", r)
    BY <1>1 DEF FirstFull, NewFull
  <2>2. MaxRev \in Int /\ UNCHANGED fullLease
    BY <1>1, LeasesAssumption DEF FirstFull, leases
  <2> QED
    BY <2>1, <2>2, <1>0, StartKeeps
<1>2. CASE Tick
  BY <1>2, <1>0, StartKeeps DEF Tick, LInv, LeaseTypes, store, leases
<1>3. CASE Compact
  <2>1. PICK r \in 1 .. MaxRev : full' = r /\ StartFullUpdate("compactor", r)
    BY <1>3 DEF Compact
  <2>2. MaxRev \in Int /\ UNCHANGED fullLease /\ prevFull' \in Int
    BY <1>3, LeasesAssumption DEF Compact, leases, LInv, LeaseTypes
  <2> QED
    BY <2>1, <2>2, <1>0, StartKeeps
<1>4. CASE FirstFullAnnounced \/ Renewed
  BY <1>4, <1>0, ReapKeeps DEF FirstFullAnnounced, Renewed, store, leases
<1>5. CASE \E a \in DOMAIN fullUpd : GetFullLease(a) \/ PatchFullLease(a)
  <2>1. PICK a \in Actors : GetFullLease(a) \/ PatchFullLease(a)
    BY <1>5 DEF LInv, LeaseTypes
  <2>2. CASE GetFullLease(a)
    <3>1. LInv'
      BY <2>2, GetKeeps
    <3> QED
      BY <2>2, <3>1, <1>0 DEF GetFullLease, leases
  <2> QED
    BY <2>1, <2>2, PatchKeeps
<1>6. CASE Panic
  BY <1>6, <1>0, PanicKeeps DEF Panic, leases
<1>7. CASE FullSnapshot
  <2>1. full' \in Int /\ prevFull' \in Int /\ UNCHANGED <<fullLease, fullUpd>>
    BY <1>7, LeasesAssumption DEF FullSnapshot, NewFull, leases
  <2> QED
    BY <2>1, <1>0 DEF LInv, LeaseTypes, ReadsFit
<1>8. CASE \/ FirstDelta \/ FirstDeltaAnnounced \/ Run \/ ResetTimer \/ DeltaSnapshot
           \/ DeltaAnnounced \/ HandlerReturns \/ StopReceived \/ RenewerStarts \/ EnterSelect
           \/ RenewerExits \/ DropTimer \/ StaleUpdate \/ UNCHANGED leaseVars
           \/ \E a \in DOMAIN deltaUpd : ListDeltas(a) \/ GetDeltaLease(a) \/ PatchDeltaLease(a)
  <2>1. UNCHANGED <<full, prevFull, fullLease, fullUpd>>
    BY <1>8 DEF FirstDelta, FirstDeltaAnnounced, Run, ResetTimer, DeltaSnapshot, DeltaAnnounced,
                HandlerReturns, StopReceived, RenewerStarts, EnterSelect, RenewerExits, DropTimer,
                StaleUpdate, ListDeltas, GetDeltaLease, PatchDeltaLease, NewDelta, leaseVars, store, leases
  <2> QED
    BY <2>1, <1>0, OthersKeep
<1> QED
  BY <1>1, <1>2, <1>3, <1>4, <1>5, <1>6, <1>7, <1>8 DEF LeaseNext, Main, Renewer, Updates

\* However many actors update the full snapshot lease at the same time, from whatever they
\* read before, its revision never falls back (UpdateFullSnapshotLease).
THEOREM FullLeaseNeverFallsBack == LeaseSpec => FullLeaseMonotone
<1>1. LInv /\ [LeaseNext]_leaseVars => [fullLease'.rev >= fullLease.rev]_leaseVars
  BY NextLInv
<1>2. LInv /\ [LeaseNext]_leaseVars => LInv'
  BY NextLInv
<1> QED
  BY <1>1, <1>2, InitLInv, PTL DEF LeaseSpec, FullLeaseMonotone
=============================================================================
