------------------------------- MODULE Restorer -------------------------------
(***************************************************************************)
(* Restore: the base snapshot and the first delta snapshot one after the   *)
(* other, then the remaining delta snapshots through a pipeline of         *)
(* goroutines: fetchers persist them to files in any order, the applier    *)
(* applies them in the order of the list, and an alarm handler defragments *)
(* the embedded etcd when the applier asks for it.  What is applied is     *)
(* the subject of RestoreChain; here it is who waits for whom.             *)
(*                                                                         *)
(* A goroutine's pending sends are a sequence: each goes to its buffered   *)
(* channel once there is room.                                             *)
(***************************************************************************)
EXTENDS Naturals, Sequences, FiniteSets

CONSTANTS
    NumSnaps,       \* delta snapshots after the first one
    MaxFetchers,    \* configured number of fetchers
    LeanInterval,   \* periodicallyMakeEtcdLeanDeltaSnapshotInterval
    MaxFaults       \* bound: failing calls

ASSUME RestorerAssumption ==
    /\ NumSnaps \in Nat \ {0} /\ MaxFetchers \in Nat \ {0}
    /\ LeanInterval \in Nat \ {0} /\ MaxFaults \in Nat

Snaps == 1 .. NumSnaps
numFetchers == IF MaxFetchers < NumSnaps THEN MaxFetchers ELSE NumSnaps
Fetchers == 1 .. numFetchers

VARIABLES
    main,          \* where Restore is
    result,        \* what it received from errCh
    stopClosed,    \* stopCh is closed
    locsClosed,    \* snapLocationsCh is closed
    fetcherInfoCh, \* the next index to fetch; the channel is filled and closed
    fetcher,       \* fetcher -> new, range, fetch, send, ended
    idx,           \* fetcher -> the index it works on
    sends,         \* fetcher -> its pending sends
    applierInfoCh, \* indexes, or 0 for SnapIndex -1; capacity NumSnaps
    errCh,         \* "nil" or "err"; capacity numFetchers + 1
    files,         \* indexes whose file is complete
    applier,       \* new, select, apply, lean, alarm, disarm, send, ended
    applierErr,    \* what it sends to errCh before it returns
    pathList,      \* indexes whose path the applier knows
    curr,          \* currSnapIndex
    applied,       \* the indexes it applied, in order
    leanFailed,    \* prevAttemptToMakeEtcdLeanFailed
    alarm,         \* the alarm handler: select, defrag, ended
    faults,
    fetchFailed    \* a fetch or its file failed

chans == <<stopClosed, locsClosed, applierInfoCh, errCh>>
fetching == <<fetcherInfoCh, fetcher, idx, sends, files, fetchFailed>>
applying == <<applier, applierErr, pathList, curr, applied, leanFailed, alarm>>
restoreVars == <<main, result, chans, fetching, applying, faults>>

RestoreTypeOK ==
    /\ main \in {"base", "first", "wait", "wgWait", "returned", "panicked"}
    /\ result \in {"none", "nil", "err"}
    /\ stopClosed \in BOOLEAN /\ locsClosed \in BOOLEAN
    /\ fetcherInfoCh \in 1 .. NumSnaps + 1
    /\ fetcher \in [Fetchers -> {"new", "range", "fetch", "send", "ended"}]
    /\ idx \in [Fetchers -> 0 .. NumSnaps]
    /\ \A f \in Fetchers : sends[f] \in Seq({"err", "minus", "loc", "info"})
    /\ applierInfoCh \in Seq(0 .. NumSnaps) /\ Len(applierInfoCh) <= NumSnaps
    /\ errCh \in Seq({"nil", "err"}) /\ Len(errCh) <= numFetchers + 1
    /\ files \subseteq Snaps /\ pathList \subseteq Snaps /\ applied \in Seq(Snaps)
    /\ applier \in {"new", "select", "apply", "lean", "alarm", "disarm", "send", "ended"}
    /\ curr \in 0 .. NumSnaps + 1 /\ applierErr \in {"none", "nil", "err"} /\ leanFailed \in BOOLEAN
    /\ alarm \in {"select", "defrag", "ended"}
    /\ faults \in 0 .. MaxFaults /\ fetchFailed \in BOOLEAN

RestoreInit ==
    /\ main = "base" /\ result = "none" /\ stopClosed = FALSE /\ locsClosed = FALSE
    /\ fetcherInfoCh = 1 /\ fetcher = [f \in Fetchers |-> "new"]
    /\ idx = [f \in Fetchers |-> 0] /\ sends = [f \in Fetchers |-> <<>>]
    /\ applierInfoCh = <<>> /\ errCh = <<>> /\ files = {}
    /\ applier = "new" /\ applierErr = "none" /\ pathList = {} /\ curr = 0 /\ applied = <<>>
    /\ leanFailed = FALSE /\ alarm = "select" /\ faults = 0 /\ fetchFailed = FALSE

Fails == faults < MaxFaults /\ faults' = faults + 1

\* The pipeline's goroutines exist.
Started == main \in {"wait", "wgWait", "returned"}

-----------------------------------------------------------------------------
(* Restore and applyDeltaSnapshots *)

\* restoreFromBaseSnapshot
RestoreBase ==
    /\ main = "base"
    /\ \/ main' = "first" /\ UNCHANGED <<result, faults>>
       \/ Fails /\ main' = "returned" /\ result' = "err"
    /\ UNCHANGED <<chans, fetching, applying>>

\* applyFirstDeltaSnapshot and verifySnapshotRevision; then the goroutines start.
ApplyFirst ==
    /\ main = "first"
    /\ \/ main' = "wait" /\ UNCHANGED <<result, faults>>
       \/ Fails /\ main' = "returned" /\ result' = "err"
    /\ UNCHANGED <<chans, fetching, applying>>

\* The first message on errCh decides; cleanup closes stopCh.
ReceiveErr ==
    /\ main = "wait" /\ errCh # <<>>
    /\ result' = Head(errCh) /\ errCh' = Tail(errCh)
    /\ stopClosed' = TRUE /\ main' = "wgWait"
    /\ UNCHANGED <<locsClosed, applierInfoCh, fetching, applying, faults>>

\* wg counts goroutines from their own wg.Add(1) on.
Waited == applier \in {"new", "ended"} /\ \A f \in Fetchers : fetcher[f] \in {"new", "ended"}

\* Mutant: the channel is closed without waiting.
CleanupEarly ==
    /\ main = "wgWait"
    /\ locsClosed' = TRUE /\ files' = {} /\ main' = "returned" /\ alarm' = "ended"
    /\ UNCHANGED <<result, stopClosed, applierInfoCh, errCh, fetcherInfoCh, fetcher, idx, sends,
                   fetchFailed, applier, applierErr, pathList, curr, applied, leanFailed, faults>>

\* wg.Wait returns, snapLocationsCh is closed, the files it names are removed,
\* Restore returns and with it the alarm handler is told to stop.
Cleanup ==
    /\ main = "wgWait" /\ Waited
    /\ locsClosed' = TRUE /\ files' = {} /\ main' = "returned" /\ alarm' = "ended"
    /\ UNCHANGED <<result, stopClosed, applierInfoCh, errCh, fetcherInfoCh, fetcher, idx, sends,
                   fetchFailed, applier, applierErr, pathList, curr, applied, leanFailed, faults>>

Main == RestoreBase \/ ApplyFirst \/ ReceiveErr \/ Cleanup

-----------------------------------------------------------------------------
(* fetchSnaps *)

FetcherStarts(f) ==
    /\ Started /\ fetcher[f] = "new"
    /\ fetcher' = [fetcher EXCEPT ![f] = "range"]
    /\ UNCHANGED <<main, result, chans, fetcherInfoCh, idx, sends, files, fetchFailed, applying,
                   faults>>

\* Take the next index, unless there is none or stopCh is closed.
NextSnap(f) ==
    /\ fetcher[f] = "range"
    /\ IF fetcherInfoCh > NumSnaps
       THEN fetcher' = [fetcher EXCEPT ![f] = "ended"] /\ UNCHANGED <<fetcherInfoCh, idx>>
       ELSE /\ fetcher' = [fetcher EXCEPT ![f] = IF stopClosed THEN "ended" ELSE "fetch"]
            /\ idx' = [idx EXCEPT ![f] = fetcherInfoCh]
            /\ fetcherInfoCh' = fetcherInfoCh + 1
    /\ UNCHANGED <<main, result, chans, sends, files, fetchFailed, applying, faults>>

WillSend(f, messages) ==
    /\ fetcher[f] = "fetch"
    /\ fetcher' = [fetcher EXCEPT ![f] = "send"]
    /\ sends' = [sends EXCEPT ![f] = messages]

Fetch(f) ==
    /\ WillSend(f, <<"loc", "info">>)
    /\ files' = files \cup {idx[f]}
    /\ UNCHANGED <<main, result, chans, fetcherInfoCh, idx, fetchFailed, applying, faults>>

\* Fetch fails, and then so does persisting what it returned; or only that.  The
\* incomplete file is handed on all the same.
FetchFails(f) ==
    /\ \/ WillSend(f, <<"err", "minus", "err", "minus", "loc", "info">>)
       \/ WillSend(f, <<"err", "minus", "loc", "info">>)
    /\ Fails /\ fetchFailed' = TRUE
    /\ UNCHANGED <<main, result, chans, fetcherInfoCh, idx, files, applying>>

\* Fetch fails with a nil reader, and copying from it panics.
FetchPanics(f) ==
    /\ fetcher[f] = "fetch"
    /\ Fails /\ fetchFailed' = TRUE /\ main' = "panicked"
    /\ UNCHANGED <<result, chans, fetcherInfoCh, fetcher, idx, sends, files, applying>>

\* The next pending send, when its channel has room.
Send(f) ==
    /\ fetcher[f] = "send"
    /\ LET message == Head(sends[f])
       IN /\ IF message = "err" /\ Len(errCh) < numFetchers + 1
             THEN errCh' = Append(errCh, "err") ELSE message # "err" /\ UNCHANGED errCh
          /\ IF message \in {"minus", "info"} /\ Len(applierInfoCh) < NumSnaps
             THEN applierInfoCh' = Append(applierInfoCh, IF message = "info" THEN idx[f] ELSE 0)
             ELSE message \notin {"minus", "info"} /\ UNCHANGED applierInfoCh
    /\ sends' = [sends EXCEPT ![f] = Tail(sends[f])]
    /\ fetcher' = [fetcher EXCEPT ![f] = IF Len(sends[f]) = 1 THEN "range" ELSE "send"]
    /\ UNCHANGED <<main, result, stopClosed, locsClosed, fetcherInfoCh, idx, files, fetchFailed,
                   applying, faults>>

Fetcher(f) == FetcherStarts(f) \/ NextSnap(f) \/ Fetch(f) \/ FetchFails(f) \/ FetchPanics(f)
              \/ Send(f)

-----------------------------------------------------------------------------
(* applySnaps *)

\* nextSnapIndexToApply
next == Len(applied) + 1

ApplierStarts ==
    /\ Started /\ applier = "new"
    /\ applier' = "select"
    /\ UNCHANGED <<main, result, chans, fetching, applierErr, pathList, curr, applied, leanFailed,
                   alarm, faults>>

ApplierStops ==
    /\ applier = "select" /\ stopClosed
    /\ applier' = "ended"
    /\ UNCHANGED <<main, result, chans, fetching, applierErr, pathList, curr, applied, leanFailed,
                   alarm, faults>>

\* An index from a fetcher: 0 ends the applier, the one it waits for starts applying.
ReceiveInfo ==
    /\ applier = "select" /\ applierInfoCh # <<>>
    /\ LET i == Head(applierInfoCh)
       IN /\ pathList' = IF i = 0 THEN pathList ELSE pathList \cup {i}
          /\ curr' = IF i = next THEN i ELSE curr
          /\ applier' = CASE i = 0 -> "ended"
                          [] i = next -> "apply"
                          [] i > next -> "select"
                          [] OTHER -> "send"
          /\ applierErr' = IF i \in 1 .. next - 1 THEN "err" ELSE applierErr
    /\ applierInfoCh' = Tail(applierInfoCh)
    /\ UNCHANGED <<main, result, stopClosed, locsClosed, errCh, fetching, applied, leanFailed, alarm,
                   faults>>

\* The loop over the known files goes on after currSnapIndex.
Continue(n) == IF n \in pathList THEN "apply" ELSE "select"

\* Mutant: the first delta snapshot, applied before, is counted once more.
ApplyShort ==
    /\ applier = "apply" /\ curr \in files
    /\ files' = files \ {curr}
    /\ applied' = Append(applied, curr) /\ curr' = curr + 1
    /\ IF next + 1 >= NumSnaps
       THEN applier' = "send" /\ applierErr' = "nil"
       ELSE /\ applier' = IF (next + 1) % LeanInterval = 0 \/ leanFailed THEN "lean"
                          ELSE Continue(curr + 1)
            /\ UNCHANGED applierErr
    /\ UNCHANGED <<main, result, chans, fetcherInfoCh, fetcher, idx, sends, fetchFailed, pathList,
                   leanFailed, alarm, faults>>

\* One snapshot is read, applied and verified, and its file removed.
\* numberOfDeltaSnapApplied counts the first delta snapshot too.
Apply ==
    /\ applier = "apply" /\ curr \in files
    /\ files' = files \ {curr}
    /\ applied' = Append(applied, curr) /\ curr' = curr + 1
    /\ IF next = NumSnaps
       THEN applier' = "send" /\ applierErr' = "nil"
       ELSE /\ applier' = IF (next + 1) % LeanInterval = 0 \/ leanFailed THEN "lean"
                          ELSE Continue(curr + 1)
            /\ UNCHANGED applierErr
    /\ UNCHANGED <<main, result, chans, fetcherInfoCh, fetcher, idx, sends, fetchFailed, pathList,
                   leanFailed, alarm, faults>>

\* Reading, applying or verifying fails; it always does with an incomplete file.
ApplyFails ==
    /\ applier = "apply"
    /\ IF curr \in files THEN Fails ELSE UNCHANGED faults
    /\ applier' = "send" /\ applierErr' = "err"
    /\ UNCHANGED <<main, result, chans, fetching, pathList, curr, applied, leanFailed, alarm>>

\* The applier's last send.
ApplierReturns ==
    /\ applier = "send" /\ Len(errCh) < numFetchers + 1
    /\ errCh' = Append(errCh, applierErr)
    /\ applier' = "ended"
    /\ UNCHANGED <<main, result, stopClosed, locsClosed, applierInfoCh, fetching, applierErr, pathList,
                   curr, applied, leanFailed, alarm, faults>>

-----------------------------------------------------------------------------
(* MakeEtcdLeanAndCheckAlarm and HandleAlarm *)

\* Compaction or the status call fails, or the database is small enough.
MakeEtcdLean ==
    /\ applier = "lean"
    /\ \/ Fails /\ leanFailed' = TRUE
       \/ leanFailed' = FALSE /\ UNCHANGED faults
    /\ applier' = Continue(curr)
    /\ UNCHANGED <<main, result, chans, fetching, applierErr, pathList, curr, applied, alarm>>

\* The size is past the threshold: the endpoint goes to the handler.
RaiseAlarm ==
    /\ \/ applier = "lean" /\ applier' = "alarm" /\ UNCHANGED alarm
       \/ applier = "alarm" /\ alarm = "select" /\ applier' = "disarm" /\ alarm' = "defrag"
    /\ UNCHANGED <<main, result, chans, fetching, applierErr, pathList, curr, applied, leanFailed,
                   faults>>

\* Mutant: a failed defragmentation is not answered.
HandleAlarmSilently ==
    /\ alarm = "defrag" /\ alarm' = "select"
    /\ \/ Fails /\ UNCHANGED <<applier, leanFailed>>
       \/ leanFailed' = FALSE /\ applier' = Continue(curr) /\ UNCHANGED faults
    /\ UNCHANGED <<main, result, chans, fetching, applierErr, pathList, curr, applied>>

\* The handler defragments and tells the waiting applier whether that worked.
HandleAlarm ==
    /\ alarm = "defrag" /\ alarm' = "select"
    /\ applier = "disarm" /\ applier' = Continue(curr)
    /\ \/ Fails /\ leanFailed' = TRUE
       \/ leanFailed' = FALSE /\ UNCHANGED faults
    /\ UNCHANGED <<main, result, chans, fetching, applierErr, pathList, curr, applied>>

Applier == ApplierStarts \/ ApplierStops \/ ReceiveInfo \/ Apply \/ ApplyFails \/ ApplierReturns
           \/ MakeEtcdLean \/ RaiseAlarm

-----------------------------------------------------------------------------
RestoreNext ==
    /\ main # "panicked"
    /\ Main \/ Applier \/ HandleAlarm \/ \E f \in Fetchers : Fetcher(f)

RestoreSpec == RestoreInit /\ [][RestoreNext]_restoreVars

\* The Go scheduler runs every goroutine that can proceed.
FairRestoreSpec ==
    /\ RestoreSpec
    /\ WF_restoreVars(main # "panicked" /\ Main)
    /\ WF_restoreVars(main # "panicked" /\ Applier)
    /\ WF_restoreVars(main # "panicked" /\ HandleAlarm)
    /\ \A f \in Fetchers : WF_restoreVars(main # "panicked" /\ Fetcher(f))

-----------------------------------------------------------------------------
\* The applier applies the delta snapshots in the order of the list, each once, in
\* whatever order the fetchers deliver them; and when Restore reports success, all of
\* them were applied and no fetch failed, whichever goroutine wrote to errCh first.
SuccessIsComplete ==
    /\ \A i \in 1 .. Len(applied) : applied[i] = i
    /\ result = "nil" => Len(applied) = NumSnaps /\ ~fetchFailed

\* cleanup closes snapLocationsCh only when no fetcher can send on it any more; a
\* send on the closed channel would panic.
NoSendAfterClose ==
    locsClosed => \A f \in Fetchers : fetcher[f] # "fetch" /\ sends[f] = <<>>

\* Unless a fetch fails, Restore returns, with or without failures of the applier
\* and of the alarm handler.
RestoreReturns == <>(main = "returned" \/ fetchFailed)
=============================================================================
