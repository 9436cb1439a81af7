----------------------------- MODULE ChunkUpload -----------------------------
(***************************************************************************)
(* SnapStore.Save of the object stores: the snapshot is cut into chunks    *)
(* that worker goroutines upload from a temporary file, failed ones are    *)
(* retried after a delay, and once every chunk is there the snapshot is    *)
(* completed from them (S3, OSS), committed (ABS), composed (GCS) or named *)
(* by a manifest (Swift).  The stores share collectChunkUploadError.       *)
(***************************************************************************)
EXTENDS Naturals, Sequences, FiniteSets

CONSTANTS
    Stores,         \* the kinds of store to consider
    NoOfChunks,
    Workers,        \* maxParallelChunkUploads of them
    MaxAttempts     \* maxRetryAttempts

ASSUME UploadAssumption ==
    /\ Stores \subseteq {"S3", "ABS", "GCS", "Swift", "OSS"}
    /\ NoOfChunks \in Nat \ {0} /\ Workers # {} /\ MaxAttempts \in Nat

Chunks == 1 .. NoOfChunks

VARIABLES
    kind,           \* the store
    chunkUploadCh,  \* chunks to upload; capacity NoOfChunks
    resCh,          \* results; capacity NoOfChunks
    attempt,        \* chunk -> its attempt
    worker,         \* worker -> what it does
    timers,         \* chunks whose AfterFunc has not run
    checked,        \* chunks whose AfterFunc has seen stopCh open
    stopCh,         \* cancelCh is closed
    remaining,      \* remainingChunks
    failed,         \* snapshotErr is set
    save,           \* where Save is: start, queue, collect, wait, finish, returned
    queued,         \* chunks the loop of Save has queued
    err,            \* Save returned an error
    uploaded,       \* chunks in the store
    object          \* the snapshot is in the store

queues == <<chunkUploadCh, resCh, attempt, timers, checked>>
remote == <<uploaded, object>>
vars == <<kind, queues, worker, stopCh, remaining, failed, save, queued, err, remote>>

Result == [chunk : Chunks, ok : BOOLEAN]
Idle == [at |-> "select"]
Uploading(c) == [at |-> "upload", chunk |-> c]
Reporting(r) == [at |-> "report", result |-> r]
Ended == [at |-> "ended"]

TypeOK ==
    /\ kind \in Stores
    /\ chunkUploadCh \in Seq(Chunks) /\ resCh \in Seq(Result)
    /\ attempt \in [Chunks -> 0 .. MaxAttempts]
    /\ worker \in [Workers -> {Idle, Ended} \cup {Uploading(c) : c \in Chunks}
                              \cup {Reporting(r) : r \in Result}]
    /\ timers \subseteq Chunks /\ checked \subseteq Chunks
    /\ stopCh \in BOOLEAN /\ remaining \in 0 .. NoOfChunks /\ failed \in BOOLEAN
    /\ save \in {"start", "queue", "collect", "wait", "finish", "returned"}
    /\ queued \in 0 .. NoOfChunks /\ err \in BOOLEAN
    /\ uploaded \subseteq Chunks /\ object \in BOOLEAN

Init ==
    /\ kind \in Stores
    /\ chunkUploadCh = <<>> /\ resCh = <<>> /\ queued = 0
    /\ attempt = [c \in Chunks |-> 0] /\ worker = [w \in Workers |-> Ended]
    /\ timers = {} /\ checked = {} /\ stopCh = FALSE /\ remaining = NoOfChunks
    /\ failed = FALSE /\ save = "start" /\ err = FALSE
    /\ uploaded = {} /\ object = FALSE

-----------------------------------------------------------------------------
(* The uploaders: select, upload, report *)

Select(w) ==
    /\ worker[w] = Idle
    /\ \/ /\ stopCh
          /\ worker' = [worker EXCEPT ![w] = Ended] /\ UNCHANGED chunkUploadCh
       \/ /\ chunkUploadCh # <<>>
          /\ worker' = [worker EXCEPT ![w] = Uploading(Head(chunkUploadCh))]
          /\ chunkUploadCh' = Tail(chunkUploadCh)
    /\ UNCHANGED <<kind, resCh, attempt, timers, checked, stopCh, remaining, failed, save,
                   queued, err, remote>>

\* A failed upload may have had its effect.
Upload(w) ==
    /\ worker[w].at = "upload"
    /\ \E ok, stored \in BOOLEAN :
          /\ ok => stored
          /\ worker' = [worker EXCEPT ![w] =
                          Reporting([chunk |-> worker[w].chunk, ok |-> ok])]
          /\ uploaded' = IF stored THEN uploaded \cup {worker[w].chunk} ELSE uploaded
    /\ UNCHANGED <<kind, queues, stopCh, remaining, failed, save, queued, err, object>>

Report(w) ==
    /\ worker[w].at = "report" /\ Len(resCh) < NoOfChunks
    /\ resCh' = Append(resCh, worker[w].result)
    /\ worker' = [worker EXCEPT ![w] = Idle]
    /\ UNCHANGED <<kind, chunkUploadCh, attempt, timers, checked, stopCh, remaining, failed, save,
                   queued, err, remote>>

Uploader(w) == Select(w) \/ Upload(w) \/ Report(w)

-----------------------------------------------------------------------------
(* collectChunkUploadError *)

\* Mutant: the collector stops one chunk early.
CollectSuccessEarly ==
    /\ save = "collect" /\ resCh # <<>> /\ Head(resCh).ok
    /\ resCh' = Tail(resCh) /\ remaining' = remaining - 1
    /\ IF remaining <= 2 THEN stopCh' = TRUE /\ save' = "wait" ELSE UNCHANGED <<stopCh, save>>
    /\ UNCHANGED <<kind, chunkUploadCh, attempt, timers, checked, worker, failed, queued, err,
                   remote>>

CollectSuccess ==
    /\ save = "collect" /\ resCh # <<>> /\ Head(resCh).ok
    /\ resCh' = Tail(resCh) /\ remaining' = remaining - 1
    /\ IF remaining = 1 THEN stopCh' = TRUE /\ save' = "wait" ELSE UNCHANGED <<stopCh, save>>
    /\ UNCHANGED <<kind, chunkUploadCh, attempt, timers, checked, worker, failed, queued, err,
                   remote>>

\* Mutant: a failed chunk is also put back into the queue at once.
CollectFailureTwice ==
    /\ save = "collect" /\ resCh # <<>> /\ ~Head(resCh).ok
    /\ LET c == Head(resCh).chunk
       IN IF attempt[c] = MaxAttempts
          THEN /\ stopCh' = TRUE /\ failed' = TRUE /\ save' = "wait"
               /\ UNCHANGED <<attempt, timers, chunkUploadCh>>
          ELSE /\ attempt' = [attempt EXCEPT ![c] = @ + 1] /\ timers' = timers \cup {c}
               /\ chunkUploadCh' = Append(chunkUploadCh, c)
               /\ UNCHANGED <<stopCh, failed, save>>
    /\ resCh' = Tail(resCh)
    /\ UNCHANGED <<kind, checked, worker, remaining, queued, err, remote>>

\* A failed chunk gets a timer, unless this was its last attempt.
CollectFailure ==
    /\ save = "collect" /\ resCh # <<>> /\ ~Head(resCh).ok
    /\ LET c == Head(resCh).chunk
       IN IF attempt[c] = MaxAttempts
          THEN stopCh' = TRUE /\ failed' = TRUE /\ save' = "wait" /\ UNCHANGED <<attempt, timers>>
          ELSE /\ attempt' = [attempt EXCEPT ![c] = @ + 1] /\ timers' = timers \cup {c}
               /\ UNCHANGED <<stopCh, failed, save>>
    /\ resCh' = Tail(resCh)
    /\ UNCHANGED <<kind, chunkUploadCh, checked, worker, remaining, queued, err, remote>>

\* Mutant: the retry is dropped when the queue is not empty.
TimerChecksBusy(c) ==
    /\ c \in timers
    /\ timers' = timers \ {c}
    /\ checked' = IF stopCh \/ chunkUploadCh # <<>> THEN checked ELSE checked \cup {c}
    /\ UNCHANGED <<kind, chunkUploadCh, resCh, attempt, worker, stopCh, remaining, failed, save,
                   queued, err, remote>>

\* The AfterFunc of a chunk looks at stopCh, and then sends.
TimerChecks(c) ==
    /\ c \in timers
    /\ timers' = timers \ {c}
    /\ checked' = IF stopCh THEN checked ELSE checked \cup {c}
    /\ UNCHANGED <<kind, chunkUploadCh, resCh, attempt, worker, stopCh, remaining, failed, save,
                   queued, err, remote>>

TimerSends(c) ==
    /\ c \in checked /\ Len(chunkUploadCh) < NoOfChunks
    /\ checked' = checked \ {c}
    /\ chunkUploadCh' = Append(chunkUploadCh, c)
    /\ UNCHANGED <<kind, resCh, attempt, timers, worker, stopCh, remaining, failed, save,
                   queued, err, remote>>

-----------------------------------------------------------------------------
(* The rest of Save *)

\* The snapshot is written to the temporary file, S3 and OSS initiate the upload, and the
\* workers are started; or one of the calls fails.
Start ==
    /\ save = "start"
    /\ \/ save' = "queue" /\ worker' = [w \in Workers |-> Idle] /\ UNCHANGED err
       \/ save' = "returned" /\ err' = TRUE /\ UNCHANGED worker
    /\ UNCHANGED <<kind, queues, stopCh, remaining, failed, queued, remote>>

Queue ==
    /\ save = "queue" /\ Len(chunkUploadCh) < NoOfChunks
    /\ queued' = queued + 1
    /\ chunkUploadCh' = Append(chunkUploadCh, queued')
    /\ save' = IF queued' = NoOfChunks THEN "collect" ELSE "queue"
    /\ UNCHANGED <<kind, resCh, attempt, timers, checked, worker, stopCh, remaining, failed, err,
                   remote>>

Wait ==
    /\ save = "wait" /\ \A w \in Workers : worker[w] = Ended
    /\ save' = "finish"
    /\ UNCHANGED <<kind, queues, worker, stopCh, remaining, failed, queued, err, remote>>

\* The upload is completed, or aborted if a chunk failed, and the temporary file is removed.
\* The store refuses to complete a snapshot from chunks it does not have, but Swift's
\* manifest does not name them.  A completion that fails may have had its effect.
\* OSS reports a failed chunk only if it cannot abort the upload.
Finish ==
    /\ save = "finish" /\ save' = "returned"
    /\ \E ok, stored, removed \in BOOLEAN :
          /\ err' = (~removed \/ ~ok \/ (failed /\ kind # "OSS"))
          /\ object' = (~failed /\ (ok \/ stored))
          /\ object' => kind = "Swift" \/ uploaded = Chunks
    /\ UNCHANGED <<kind, queues, worker, stopCh, remaining, failed, queued, uploaded>>

Save == Start \/ Queue \/ CollectSuccess \/ CollectFailure \/ Wait \/ Finish

Next ==
    \/ \E w \in Workers : Uploader(w)
    \/ \E c \in Chunks : TimerChecks(c) \/ TimerSends(c)
    \/ Save

Spec == Init /\ [][Next]_vars

\* Goroutines that can run do, timers expire and calls to the store end.
FairSpec ==
    /\ Spec /\ WF_vars(Save)
    /\ \A w \in Workers : WF_vars(Uploader(w))
    /\ \A c \in Chunks : WF_vars(TimerChecks(c)) /\ WF_vars(TimerSends(c))

-----------------------------------------------------------------------------
\* When Save returns without an error, the snapshot is in the store, with all its chunks.
SaveIsDurable == save = "returned" /\ ~err => object /\ uploaded = Chunks

\* A worker never waits to report, and Save or a timer to queue a chunk, also after Save has
\* returned and nobody receives: retries never fill the channels, whose capacity is the
\* number of chunks.
NeverBlocked ==
    /\ (\E w \in Workers : worker[w].at = "report") => Len(resCh) < NoOfChunks
    /\ checked # {} \/ save = "queue" => Len(chunkUploadCh) < NoOfChunks

\* Save returns, whatever fails and however the retries interleave with the stop.
SaveReturns == <>(save = "returned")
=============================================================================
