---------------------------- MODULE LeaderElection ----------------------------
(***************************************************************************)
(* One backup-restore server: the leader elector, which polls the status   *)
(* of its own etcd member, and the goroutines its callbacks start and      *)
(* stop: the probe loop with the snapshotter and the defragmentor of each  *)
(* term of leadership, and the renewal of the member lease.                *)
(*                                                                         *)
(* A term is a call of OnStartedLeading; it numbers leCtx, the Snapshotter *)
(* and the goroutines that get them.  What a probe loop does between its   *)
(* probes (module Snapshotter) is the single place "running" here.         *)
(***************************************************************************)
EXTENDS Integers, FiniteSets

CONSTANTS
    MaxChanges,     \* bound: changes of the etcd member's status
    MaxFailures     \* bound: failures of the snapshotter

ASSUME LEAssumption == MaxChanges \in Nat /\ MaxFailures \in Nat

Terms == 1 .. MaxChanges + 1
Channels == 0 .. MaxChanges + 1

VARIABLES
    config,       \* runServerWithSnapshotter, MemberLeaseRenewalEnabled
    etcd,         \* what the etcd member's status says
    changes, failures,
    ctx,          \* the server's context is cancelled
    le,           \* the elector: at its select, blocked in StopLeaseRenewal, or returned
    state,        \* CurrentState
    term,         \* number of terms so far
    cancelled,    \* terms whose leCtx is cancelled
    loop,         \* term -> where its probe loop is
    defrag,       \* term -> its defragmentor: none, idle, job, ended
    backoff,      \* backoffConfig.Start, shared by all loops
    snapshotter,  \* HTTPHandler.Snapshotter: the term that made it, or 0
    status,       \* HTTPHandler.status
    mmStopCh,     \* the current stop channel of the lease renewal
    renewer       \* channel -> the goroutine that receives from it

work == <<loop, defrag, backoff>>
handler == <<snapshotter, status>>
lease == <<mmStopCh, renewer>>
env == <<config, etcd, changes, failures>>
vars == <<env, ctx, le, state, term, cancelled, work, handler, lease>>

Places == {"none", "select", "probing", "probed", "running", "waiting", "ended"}

TypeOK ==
    /\ config \in [snapshots : BOOLEAN, leases : BOOLEAN]
    /\ etcd \in {"leader", "follower", "learner", "noLeader", "down"}
    /\ changes \in 0 .. MaxChanges /\ failures \in 0 .. MaxFailures /\ ctx \in BOOLEAN
    /\ le \in {"select", "stopLease", "exited"}
    /\ state \in {"Follower", "Leader", "UnknownState"}
    /\ term \in 0 .. MaxChanges + 1 /\ cancelled \subseteq 1 .. term
    /\ loop \in [Terms -> Places]
    /\ defrag \in [Terms -> {"none", "idle", "job", "ended"}]
    /\ backoff \in BOOLEAN
    /\ snapshotter \in 0 .. term /\ status \in {"OK", "ServiceUnavailable"}
    /\ mmStopCh \in Channels
    /\ renewer \in [Channels -> {"none", "starting", "select", "renewing", "ended"}]

\* runServer, until it calls le.Run: etcd runs, the lease renewal is started.
Init ==
    /\ config \in [snapshots : BOOLEAN, leases : BOOLEAN]
    /\ etcd \in {"leader", "follower", "learner"} /\ changes = 0 /\ failures = 0
    /\ ctx = FALSE /\ le = "select" /\ state = "Follower"
    /\ term = 0 /\ cancelled = {}
    /\ loop = [t \in Terms |-> "none"] /\ defrag = [t \in Terms |-> "none"] /\ backoff = FALSE
    /\ snapshotter = 0 /\ status = "ServiceUnavailable"
    /\ mmStopCh = 0
    /\ renewer = [c \in Channels |-> IF c = 0 /\ config.leases THEN "starting" ELSE "none"]

Alive == le # "exited"

-----------------------------------------------------------------------------
(* The environment *)

\* The etcd member wins or loses an election, stops, comes back.
Change ==
    /\ changes < MaxChanges /\ changes' = changes + 1
    /\ etcd' \in {"leader", "follower", "noLeader", "down"} \ {etcd}
    /\ UNCHANGED <<config, failures, ctx, le, state, term, cancelled, work, handler, lease>>

\* A signal cancels the server's context, of which every leCtx is a child.
Signal ==
    /\ Alive /\ ~ctx
    /\ ctx' = TRUE /\ cancelled' = 1 .. term
    /\ UNCHANGED <<env, le, state, term, work, handler, lease>>

-----------------------------------------------------------------------------
(* Callbacks of the elector *)

\* StartLeaseRenewal: a new channel and a goroutine that receives from it.
StartLeaseRenewal ==
    /\ mmStopCh' = mmStopCh + 1
    /\ renewer' = IF config.leases THEN [renewer EXCEPT ![mmStopCh + 1] = "starting"] ELSE renewer

\* OnStartedLeading: a new Snapshotter for the handler, a probe loop, a defragmentor.
OnStartedLeading ==
    /\ term' = term + 1
    /\ loop' = [loop EXCEPT ![term + 1] = "select"]
    /\ defrag' = [defrag EXCEPT ![term + 1] = "idle"]
    /\ snapshotter' = IF config.snapshots THEN term + 1 ELSE snapshotter
    /\ UNCHANGED <<cancelled, status, backoff>>

\* Mutant: the handler keeps the Snapshotter of the term that ended.
OnStoppedLeadingKeeping ==
    /\ cancelled' = cancelled \cup {term}
    /\ status' = IF config.snapshots THEN "ServiceUnavailable" ELSE status
    /\ UNCHANGED <<snapshotter, term, work>>

\* leCancel and OnStoppedLeading.
OnStoppedLeading ==
    /\ cancelled' = cancelled \cup {term}
    /\ IF config.snapshots THEN snapshotter' = 0 /\ status' = "ServiceUnavailable"
       ELSE UNCHANGED handler
    /\ UNCHANGED <<term, work>>

-----------------------------------------------------------------------------
(* LeaderElector.Run *)

\* A poll comes a re-election period after the one before.  By then a cancelled
\* loop has noticed, unless it is taking a snapshot.
Settled == \A t \in cancelled : loop[t] \notin {"probing", "probed", "waiting"}

Poll == le = "select" /\ Settled

\* The status of the own etcd member.  The call fails if the member is down, knows no
\* leader, or the context is cancelled.
EtcdMemberStatus == IF ctx \/ etcd \in {"noLeader", "down"} THEN "error" ELSE etcd

\* What follows StopLeaseRenewal when the status is not known.
Lost ==
    /\ state' = "UnknownState"
    /\ IF state = "Leader" THEN OnStoppedLeading ELSE UNCHANGED <<term, cancelled, work, handler>>

PollFails ==
    /\ Poll /\ EtcdMemberStatus = "error"
    /\ IF state # "UnknownState" /\ config.leases
       THEN le' = "stopLease" /\ UNCHANGED <<state, term, cancelled, work, handler>>
       ELSE Lost /\ UNCHANGED le
    /\ UNCHANGED <<env, ctx, lease>>

\* Mutant: the send does not wait for the goroutine to receive.
StopLeaseRenewalAsync ==
    /\ le = "stopLease"
    /\ renewer' = IF renewer[mmStopCh] = "select" THEN [renewer EXCEPT ![mmStopCh] = "ended"]
                  ELSE renewer
    /\ le' = "select" /\ Lost
    /\ UNCHANGED <<env, ctx, mmStopCh>>

\* StopLeaseRenewal: the unbuffered send meets the goroutine at its select.
StopLeaseRenewal ==
    /\ le = "stopLease" /\ renewer[mmStopCh] = "select"
    /\ renewer' = [renewer EXCEPT ![mmStopCh] = "ended"]
    /\ le' = "select" /\ Lost
    /\ UNCHANGED <<env, ctx, mmStopCh>>

\* The member leads.
PollLeader ==
    /\ Poll /\ EtcdMemberStatus = "leader" /\ state # "Leader"
    /\ IF state = "UnknownState" THEN StartLeaseRenewal ELSE UNCHANGED lease
    /\ state' = "Leader" /\ OnStartedLeading
    /\ UNCHANGED <<env, ctx, le>>

\* The member follows.
PollFollower ==
    /\ Poll /\ EtcdMemberStatus \in {"follower", "learner"} /\ state # "Follower"
    /\ state' = "Follower"
    /\ IF state = "Leader" THEN OnStoppedLeading /\ UNCHANGED lease
       ELSE StartLeaseRenewal /\ UNCHANGED <<term, cancelled, work, handler>>
    /\ UNCHANGED <<env, ctx, le>>

\* The member is a learner: try to promote it.
Promote ==
    /\ Poll /\ EtcdMemberStatus = "learner" /\ state = "Follower"
    /\ etcd' = "follower"
    /\ UNCHANGED <<config, changes, failures, ctx, le, state, term, cancelled, work, handler, lease>>

Returns ==
    /\ le = "select" /\ ctx
    /\ le' = "exited"
    /\ UNCHANGED <<env, ctx, state, term, cancelled, work, handler, lease>>

Elector == PollFails \/ PollLeader \/ PollFollower \/ Promote \/ Returns

-----------------------------------------------------------------------------
(* runEtcdProbeLoopWithSnapshotter, for each term *)

Goes(t, from, to) == Alive /\ loop[t] = from /\ loop' = [loop EXCEPT ![t] = to]

elsewhere == <<config, etcd, changes, ctx, le, state, term, cancelled, defrag, lease, snapshotter>>

\* The select at the top of the loop.
EnterLoop(t) ==
    /\ Goes(t, "select", IF t \in cancelled THEN "ended" ELSE "probing")
    /\ UNCHANGED <<elsewhere, failures, backoff, status>>

ProbeFails(t) ==
    /\ etcd = "down" \/ t \in cancelled
    /\ Goes(t, "probing", "select")
    /\ status' = "ServiceUnavailable"
    /\ UNCHANGED <<elsewhere, failures, backoff>>

ProbeWorks(t) ==
    /\ etcd # "down"
    /\ Goes(t, "probing", "probed")
    /\ UNCHANGED <<elsewhere, failures, backoff, status>>

\* The term ends during the back-off.
BackoffStopped(t) ==
    /\ backoff /\ t \in cancelled
    /\ Goes(t, "probed", "ended")
    /\ UNCHANGED <<elsewhere, failures, backoff, status>>

\* The server reports that it is healthy, and starts to take snapshots.
Serve(t) ==
    /\ Goes(t, "probed", IF config.snapshots THEN "running" ELSE "waiting")
    /\ status' = "OK"
    /\ UNCHANGED <<elsewhere, failures, backoff>>

\* The first snapshot is taken: ResetExponentialBackoff.
SnapshotTaken(t) ==
    /\ backoff /\ Goes(t, "running", "running")
    /\ backoff' = FALSE
    /\ UNCHANGED <<elsewhere, failures, status>>

\* Mutant: a snapshotter that was stopped starts over.
SnapshotterReturnsAnyway(t) ==
    /\ Goes(t, "running", "probing")
    /\ \/ t \in cancelled /\ UNCHANGED <<failures, backoff>>
       \/ /\ failures < MaxFailures /\ failures' = failures + 1
          /\ backoff' \in {backoff, TRUE}
    /\ UNCHANGED <<elsewhere, status>>

\* It was stopped with its term; or it fails, in Run or before.
SnapshotterReturns(t) ==
    /\ Goes(t, "running", "select")
    /\ \/ t \in cancelled /\ UNCHANGED <<failures, backoff>>
       \/ /\ failures < MaxFailures /\ failures' = failures + 1
          /\ backoff' \in {backoff, TRUE}
    /\ UNCHANGED <<elsewhere, status>>

\* No snapshots are configured, and the term ends.
WaitEnds(t) ==
    /\ t \in cancelled
    /\ Goes(t, "waiting", "select")
    /\ status' = "ServiceUnavailable"
    /\ UNCHANGED <<elsewhere, failures, backoff>>

Loop(t) == EnterLoop(t) \/ ProbeFails(t) \/ ProbeWorks(t) \/ BackoffStopped(t) \/ Serve(t)
           \/ SnapshotTaken(t) \/ SnapshotterReturns(t) \/ WaitEnds(t)

-----------------------------------------------------------------------------
(* DefragDataPeriodically, for each term *)

\* A job ends when all members are defragmented, or its term is cancelled.
DefragmentorJob(t) == defrag[t] = "job" /\ defrag' = [defrag EXCEPT ![t] = "idle"]

\* The schedule starts a job unless one is running; a cancelled term waits for its job.
Defragment(t) ==
    /\ Alive
    /\ \/ defrag[t] = "idle" /\ t \notin cancelled /\ defrag' = [defrag EXCEPT ![t] = "job"]
       \/ DefragmentorJob(t)
       \/ defrag[t] = "idle" /\ t \in cancelled /\ defrag' = [defrag EXCEPT ![t] = "ended"]
    /\ UNCHANGED <<env, ctx, le, state, term, cancelled, loop, backoff, handler, lease>>

-----------------------------------------------------------------------------
(* RenewMemberLeasePeriodically, for each stop channel *)

Renewal(c, from, to) ==
    /\ Alive /\ renewer[c] = from /\ renewer' = [renewer EXCEPT ![c] = to]
    /\ UNCHANGED <<env, ctx, state, term, cancelled, work, handler, mmStopCh>>

RenewalStarts(c) == Renewal(c, "starting", "select") /\ UNCHANGED le

\* No Kubernetes client: the server exits.
RenewalFatal(c) == Renewal(c, "starting", "ended") /\ le' = "exited"

\* The heartbeat timer fires; the lease is fetched and patched.
RenewMemberLease(c) == Renewal(c, "select", "renewing") /\ UNCHANGED le

LeaseRenewed(c) == Renewal(c, "renewing", "select") /\ UNCHANGED le

RenewalStops(c) == ctx /\ Renewal(c, "select", "ended") /\ UNCHANGED le

Renew(c) == RenewalStarts(c) \/ RenewMemberLease(c) \/ LeaseRenewed(c) \/ RenewalStops(c)

-----------------------------------------------------------------------------
Next ==
    \/ Change \/ Signal \/ Elector \/ StopLeaseRenewal
    \/ \E t \in Terms : Loop(t) \/ Defragment(t)
    \/ \E c \in Channels : Renew(c) \/ RenewalFatal(c)

Spec == Init /\ [][Next]_vars

\* Goroutines are scheduled; remote calls have timeouts.  A select with several
\* ready cases picks one at random, so the renewal takes the stop signal in the end.
Fairness ==
    /\ WF_vars(PollFails) /\ WF_vars(PollLeader) /\ WF_vars(PollFollower)
    /\ SF_vars(StopLeaseRenewal)
    /\ \A t \in Terms : WF_vars(Loop(t)) /\ WF_vars(Defragment(t))
    /\ \A c \in Channels : WF_vars(RenewalStarts(c) \/ LeaseRenewed(c))

FairSpec == Spec /\ Fairness

-----------------------------------------------------------------------------
(* Properties *)

Renewing == {c \in Channels : renewer[c] \in {"starting", "select", "renewing"}}

\* Never two goroutines renew the member lease, and while the elector is at its
\* select one does exactly if the status is known.
OneRenewal ==
    /\ Cardinality(Renewing) <= 1
    /\ le = "select" /\ ~ctx /\ config.leases =>
         (Renewing = {mmStopCh} <=> state # "UnknownState")

\* At most one term is not cancelled, and the elector's state and the HTTP handler's
\* Snapshotter, which requests for snapshots go to, belong to it.
OneTerm ==
    /\ 1 .. term \ cancelled \subseteq {term}
    /\ ~ctx => (state = "Leader" <=> term > 0 /\ term \notin cancelled)
    /\ ~ctx /\ config.snapshots => snapshotter = IF state = "Leader" THEN term ELSE 0

\* Everything that a term started ends after the term.
TermsEnd ==
    \A t \in Terms :
      t \in cancelled ~> (loop[t] = "ended" /\ defrag[t] = "ended") \/ ~Alive

\* A member that stays etcd's leader gets a server that leads and says it is healthy,
\* whatever the goroutines of earlier terms still do.
LeaderServes ==
    <>[](etcd = "leader") =>
      <>[](state = "Leader" /\ status = "OK") \/ <>(ctx \/ ~Alive)
=============================================================================
