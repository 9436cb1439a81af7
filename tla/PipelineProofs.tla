---------------------------- MODULE PipelineProofs ----------------------------
(***************************************************************************)
(* Two pools of goroutines.  The chunked upload: a Save that returns no    *)
(* error has stored the whole snapshot, for every store but OSS, and none  *)
(* of its goroutines ever waits on a full channel, for every number of     *)
(* chunks, workers and attempts.  The restoration: success means that      *)
(* everything was applied, and no fetcher sends on the channel that        *)
(* cleanup closes, for every number of snapshots, fetchers and failures.   *)
(***************************************************************************)
EXTENDS ChunkUpload, Restorer, SequenceTheorems, FiniteSetTheorems, TLAPS

-----------------------------------------------------------------------------
(* The chunked upload *)

Stages == {"new", "queue", "work", "report", "timer", "checked", "done"}

Steps == {Idle, Ended} \cup {Uploading(c) : c \in Chunks} \cup {Reporting(r) : r \in Result}

UTypes ==
    /\ kind \in Stores /\ queued \in Nat /\ remaining \in Int
    /\ chunkUploadCh \in Seq(Chunks) /\ resCh \in Seq(Result)
    /\ worker \in [Workers -> Steps]
    /\ timers \subseteq Chunks /\ checked \subseteq Chunks /\ uploaded \subseteq Chunks

\* Save queues every chunk once, and collects until the last chunk or a failure for good.
Collected ==
    /\ save \in {"start", "queue"} => queued < NoOfChunks
    /\ save \in {"wait", "finish"} => failed \/ remaining = 0

\* The chunks in the two channels, in the hands of the workers and with a timer: each is in
\* one place only, and only once there.  stage says where.
Queued(stage) ==
    /\ \A c \in Chunks : c > queued => stage[c] = "new"
    /\ \A i \in 1 .. Len(chunkUploadCh) : stage[chunkUploadCh[i]] = "queue"
    /\ \A i, j \in 1 .. Len(chunkUploadCh) : chunkUploadCh[i] = chunkUploadCh[j] => i = j

Holds(w, c) ==
    \/ worker[w].at = "upload" /\ worker[w].chunk = c
    \/ worker[w].at = "report" /\ worker[w].result.chunk = c

Held(stage) ==
    /\ \A w \in Workers, c \in Chunks : Holds(w, c) => stage[c] = "work"
    /\ \A v, w \in Workers, c \in Chunks : Holds(v, c) /\ Holds(w, c) => v = w
    /\ \A w \in Workers :
         worker[w].at = "report" /\ worker[w].result.ok => worker[w].result.chunk \in uploaded

Reported(stage) ==
    /\ \A i \in 1 .. Len(resCh) :
         stage[resCh[i].chunk] = "report" /\ (resCh[i].ok => resCh[i].chunk \in uploaded)
    /\ \A i, j \in 1 .. Len(resCh) : resCh[i].chunk = resCh[j].chunk => i = j

Timed(stage) ==
    /\ \A c \in timers : stage[c] = "timer"
    /\ \A c \in checked : stage[c] = "checked"

DoneIn(stage) == {c \in Chunks : stage[c] = "done"}

\* remaining counts the chunks that are not done, and those that are done are in the store.
Counted(stage) ==
    /\ DoneIn(stage) \subseteq uploaded
    /\ Cardinality(DoneIn(stage)) = NoOfChunks - remaining

Durable == "OSS" \notin Stores => SaveIsDurable

StageInv(stage) == Queued(stage) /\ Held(stage) /\ Reported(stage) /\ Timed(stage) /\ Counted(stage)

UInv ==
    /\ UTypes /\ Collected /\ Durable
    /\ \E stage \in [Chunks -> Stages] : StageInv(stage)

\* What a worker does, by its fields.
LEMMA StepFields ==
    /\ Idle \in Steps /\ Idle.at = "select" /\ Ended \in Steps /\ Ended.at = "ended"
    /\ \A c \in Chunks :
         Uploading(c) \in Steps /\ Uploading(c).at = "upload" /\ Uploading(c).chunk = c
    /\ \A r \in Result :
         Reporting(r) \in Steps /\ Reporting(r).at = "report" /\ Reporting(r).result = r
    /\ \A s \in Steps :
         (s.at = "upload" => s.chunk \in Chunks) /\ (s.at = "report" => s.result \in Result)
<1>1. Idle.at = "select" /\ Ended.at = "ended"
  BY DEF Idle, Ended
<1>2. \A c : Uploading(c).at = "upload" /\ Uploading(c).chunk = c
  BY DEF Uploading
<1>3. \A r : Reporting(r).at = "report" /\ Reporting(r).result = r
  BY DEF Reporting
<1> QED
  BY <1>1, <1>2, <1>3 DEF Steps

\* Receiving from a channel.
LEMMA TailFacts ==
    ASSUME NEW S, NEW s \in Seq(S), s # <<>>
    PROVE  /\ Tail(s) \in Seq(S) /\ Len(s) \in Nat /\ Len(s) > 0 /\ Len(Tail(s)) = Len(s) - 1
           /\ Head(s) = s[1] /\ s[1] \in S
           /\ \A i \in 1 .. Len(Tail(s)) : Tail(s)[i] = s[i + 1] /\ i + 1 \in 1 .. Len(s)
BY HeadTailProperties, LenProperties

\* Sending on a channel.
LEMMA AppendFacts ==
    ASSUME NEW S, NEW s \in Seq(S), NEW e \in S
    PROVE  /\ Append(s, e) \in Seq(S) /\ Len(s) \in Nat /\ Len(Append(s, e)) = Len(s) + 1
           /\ \A i \in 1 .. Len(Append(s, e)) :
                (i \in 1 .. Len(s) /\ Append(s, e)[i] = s[i]) \/ (i = Len(s) + 1 /\ Append(s, e)[i] = e)
BY AppendProperties, LenProperties

\* A chunk that becomes done adds one to the count.
LEMMA OneMoreDone ==
    ASSUME NEW stage \in [Chunks -> Stages], NEW c \in Chunks, stage[c] # "done"
    PROVE  LET moved == [stage EXCEPT ![c] = "done"]
           IN /\ DoneIn(moved) = DoneIn(stage) \cup {c}
              /\ Cardinality(DoneIn(moved)) = Cardinality(DoneIn(stage)) + 1
<1>1. IsFiniteSet(Chunks) /\ DoneIn(stage) \subseteq Chunks
  BY FS_Interval, UploadAssumption DEF Chunks, DoneIn
<1>2. IsFiniteSet(DoneIn(stage))
  BY <1>1, FS_Subset
<1>3. DoneIn([stage EXCEPT ![c] = "done"]) = DoneIn(stage) \cup {c} /\ c \notin DoneIn(stage)
  BY DEF DoneIn
<1> QED
  BY <1>2, <1>3, FS_AddElement

\* The chunks of the results in the channel.
LEMMA ResultFields ==
    ASSUME UTypes
    PROVE  \A i \in 1 .. Len(resCh) : resCh[i] \in Result /\ resCh[i].chunk \in Chunks
<1>1. \A i \in 1 .. Len(resCh) : resCh[i] \in Result
  BY DEF UTypes
<1>2. \A r \in Result : r.chunk \in Chunks
  BY DEF Result
<1> QED
  BY <1>1, <1>2

\* When one worker goes on, the others hold what they held.
LEMMA OthersHold ==
    ASSUME UTypes, NEW w \in Workers, NEW x, worker' = [worker EXCEPT ![w] = x]
    PROVE  /\ worker'[w] = x
           /\ \A v \in Workers \ {w} : worker'[v] = worker[v]
           /\ \A v \in Workers \ {w}, c \in Chunks : Holds(v, c)' => Holds(v, c)
<1>1. worker'[w] = x /\ \A v \in Workers \ {w} : worker'[v] = worker[v]
  BY DEF UTypes
<1> QED
  BY <1>1 DEF Holds

\* A worker that holds no chunk any more.
LEMMA HoldsNone ==
    ASSUME UTypes, NEW w \in Workers, NEW x, worker' = [worker EXCEPT ![w] = x],
           x.at \notin {"upload", "report"}
    PROVE  /\ \A v \in Workers, c \in Chunks : Holds(v, c)' => v # w /\ Holds(v, c)
           /\ \A v \in Workers : worker'[v].at = "report" => worker'[v] = worker[v]
<1>1. /\ worker'[w] = x
      /\ \A v \in Workers \ {w} : worker'[v] = worker[v]
      /\ \A v \in Workers \ {w}, c \in Chunks : Holds(v, c)' => Holds(v, c)
  BY OthersHold
<1>2. \A c \in Chunks : ~Holds(w, c)'
  BY <1>1 DEF Holds
<1> QED
  BY <1>1, <1>2

\* Where nothing moves.
LEMMA StageUnchanged ==
    ASSUME NEW stage \in [Chunks -> Stages], StageInv(stage),
           UNCHANGED <<queued, chunkUploadCh, resCh, worker, timers, checked, uploaded, remaining>>
    PROVE  StageInv(stage)'
<1>1. Queued(stage)' /\ Reported(stage)'
  BY DEF StageInv, Queued, Reported
<1>2. Held(stage)'
  BY DEF StageInv, Held, Holds
<1>3. Timed(stage)' /\ Counted(stage)'
  BY DEF StageInv, Timed, Counted
<1> QED
  BY <1>1, <1>2, <1>3 DEF StageInv

\* A chunk that moves leaves a place alone where it neither was nor comes to.
LEMMA HeldElsewhere ==
    ASSUME UTypes, NEW stage \in [Chunks -> Stages], Held(stage), UNCHANGED <<worker, uploaded>>,
           NEW c \in Chunks, NEW place \in Stages, stage[c] # "work"
    PROVE  Held([stage EXCEPT ![c] = place])'
BY DEF Held, Holds

\* As above, for the channel of results.
LEMMA ReportedElsewhere ==
    ASSUME UTypes, NEW stage \in [Chunks -> Stages], Reported(stage),
           UNCHANGED <<resCh, uploaded>>,
           NEW c \in Chunks, NEW place \in Stages, stage[c] # "report"
    PROVE  Reported([stage EXCEPT ![c] = place])'
<1>1. \A i \in 1 .. Len(resCh) : resCh[i].chunk \in Chunks
  BY ResultFields DEF UTypes
<1> QED
  BY <1>1 DEF Reported

\* The first result is received.
LEMMA ReportedTail ==
    ASSUME UTypes, NEW stage \in [Chunks -> Stages], Reported(stage), UNCHANGED uploaded,
           resCh # <<>>, resCh' = Tail(resCh),
           NEW c \in Chunks, c = resCh[1].chunk, NEW place \in Stages
    PROVE  Reported([stage EXCEPT ![c] = place])'
<1>1. /\ Len(resCh) \in Nat /\ Len(resCh) > 0 /\ Len(resCh') = Len(resCh) - 1
      /\ \A i \in 1 .. Len(resCh') : resCh'[i] = resCh[i + 1] /\ i + 1 \in 1 .. Len(resCh)
  BY TailFacts DEF UTypes
<1>2. \A i \in 1 .. Len(resCh) : i # 1 => resCh[i].chunk \in Chunks \ {c}
  BY <1>1, ResultFields DEF Reported
<1>3. \A i \in 1 .. Len(resCh') : resCh'[i].chunk \in Chunks \ {c}
  BY <1>1, <1>2
<1>4. \A i, j \in 1 .. Len(resCh') : resCh'[i].chunk = resCh'[j].chunk => i = j
  BY <1>1 DEF Reported
<1> QED
  BY <1>1, <1>3, <1>4 DEF Reported

\* As above, for the queue.
LEMMA QueuedElsewhere ==
    ASSUME UTypes, NEW stage \in [Chunks -> Stages], Queued(stage),
           UNCHANGED <<queued, chunkUploadCh>>,
           NEW c \in Chunks, NEW place \in Stages, stage[c] \notin {"new", "queue"}
    PROVE  Queued([stage EXCEPT ![c] = place])'
<1>1. \A i \in 1 .. Len(chunkUploadCh) : chunkUploadCh[i] \in Chunks
  BY DEF UTypes
<1> QED
  BY <1>1 DEF Queued

\* A chunk comes to the end of the queue.
LEMMA QueuedAtEnd ==
    ASSUME NEW stage \in [Chunks -> Stages], Queued(stage), chunkUploadCh \in Seq(Chunks),
           NEW c \in Chunks, chunkUploadCh' = Append(chunkUploadCh, c),
           \A d \in Chunks : d > queued' => d > queued /\ d # c,
           \A i \in 1 .. Len(chunkUploadCh) : chunkUploadCh[i] \in Chunks /\ chunkUploadCh[i] # c
    PROVE  Queued([stage EXCEPT ![c] = "queue"])'
<1>1. /\ Len(chunkUploadCh) \in Nat
      /\ \A i \in 1 .. Len(chunkUploadCh') :
           \/ i \in 1 .. Len(chunkUploadCh) /\ chunkUploadCh'[i] = chunkUploadCh[i]
           \/ i = Len(chunkUploadCh) + 1 /\ chunkUploadCh'[i] = c
  BY AppendFacts
<1> QED
  BY <1>1 DEF Queued

\* As above, for the timers.
LEMMA TimedElsewhere ==
    ASSUME UTypes, NEW stage \in [Chunks -> Stages], Timed(stage), UNCHANGED <<timers, checked>>,
           NEW c \in Chunks, NEW place \in Stages, stage[c] \notin {"timer", "checked"}
    PROVE  Timed([stage EXCEPT ![c] = place])'
BY DEF UTypes, Timed

\* Nothing is queued and nothing is done.
LEMMA InitUInv == Init => UInv
<1> SUFFICES ASSUME Init PROVE UInv
  OBVIOUS
<1>1. UTypes
  BY StepFields, UploadAssumption DEF Init, UTypes
<1>2. Collected /\ Durable
  BY UploadAssumption DEF Init, Collected, Durable, SaveIsDurable
<1> DEFINE none == [c \in Chunks |-> "new"]
<1>3. none \in [Chunks -> Stages]
  BY DEF Stages
<1>4. DoneIn(none) = {}
  BY DEF DoneIn
<1>5. StageInv(none)
  <2>1. Queued(none) /\ Reported(none) /\ Timed(none)
    BY UploadAssumption DEF Init, Queued, Reported, Timed
  <2>2. Held(none)
    BY StepFields DEF Init, Held, Holds
  <2>3. Cardinality(DoneIn(none)) = NoOfChunks - remaining
    <3>1. Cardinality({}) = 0 /\ NoOfChunks - remaining = 0
      BY FS_EmptySet, UploadAssumption DEF Init
    <3> QED
      BY <1>4, <3>1, Zenon
  <2> QED
    BY <1>4, <2>1, <2>2, <2>3 DEF StageInv, Counted
<1> QED
  BY <1>1, <1>2, <1>3, <1>5 DEF UInv

\* A worker takes a chunk from the queue, or ends.
LEMMA SelectKeeps ==
    ASSUME UInv, NEW w \in Workers, Select(w)
    PROVE  UInv'
<1> USE DEF remote
<1>1. PICK stage \in [Chunks -> Stages] : StageInv(stage)
  BY DEF UInv
<1>2. Collected' /\ Durable'
  BY DEF UInv, Select, Collected, Durable, SaveIsDurable
<1>3. CASE worker' = [worker EXCEPT ![w] = Ended] /\ UNCHANGED chunkUploadCh
  <2>1. UTypes'
    BY <1>3, StepFields DEF UInv, UTypes, Select
  <2>2. Held(stage)'
    <3>1. Ended.at = "ended"
      BY StepFields
    <3>2. /\ \A v \in Workers, c \in Chunks : Holds(v, c)' => v # w /\ Holds(v, c)
          /\ \A v \in Workers : worker'[v].at = "report" => worker'[v] = worker[v]
      BY <1>3, <3>1, HoldsNone DEF UInv
    <3>3. Held(stage) /\ UNCHANGED uploaded
      BY <1>1 DEF StageInv, Select
    <3> QED
      BY <3>2, <3>3 DEF Held
  <2>3. StageInv(stage)'
    <3>1. UNCHANGED <<queued, chunkUploadCh, resCh, timers, checked, uploaded, remaining>>
      BY <1>3 DEF Select
    <3>2. Queued(stage)' /\ Reported(stage)'
      BY <1>1, <3>1 DEF StageInv, Queued, Reported
    <3>3. Timed(stage)' /\ Counted(stage)'
      BY <1>1, <3>1 DEF StageInv, Timed, Counted
    <3> QED
      BY <2>2, <3>2, <3>3 DEF StageInv
  <2> QED
    BY <1>2, <2>1, <2>3 DEF UInv
<1>4. CASE /\ chunkUploadCh # <<>> /\ chunkUploadCh' = Tail(chunkUploadCh)
           /\ worker' = [worker EXCEPT ![w] = Uploading(Head(chunkUploadCh))]
  <2>1. PICK c \in Chunks : c = Head(chunkUploadCh)
    BY <1>4, TailFacts DEF UInv, UTypes
  <2> DEFINE moved == [stage EXCEPT ![c] = "work"]
  <2>2. moved \in [Chunks -> Stages] /\ stage[c] = "queue" /\ DoneIn(moved) = DoneIn(stage)
    BY <1>1, <1>4, <2>1, TailFacts DEF UInv, UTypes, StageInv, Queued, Stages, DoneIn
  <2>3. UTypes'
    BY <1>4, <2>1, StepFields, TailFacts DEF UInv, UTypes, Select
  <2>4. Queued(moved)'
    BY <1>1, <1>4, <2>1, <2>2, TailFacts DEF UInv, UTypes, StageInv, Queued, Select
  <2>5. Held(moved)'
    <3>1. /\ UTypes /\ worker' = [worker EXCEPT ![w] = Uploading(c)]
          /\ Uploading(c).at = "upload" /\ Uploading(c).chunk = c
      BY <1>4, <2>1, StepFields DEF UInv
    <3>2. /\ worker'[w] = Uploading(c)
          /\ \A v \in Workers \ {w} : worker'[v] = worker[v]
          /\ \A v \in Workers \ {w}, d \in Chunks : Holds(v, d)' => Holds(v, d)
      BY <3>1, OthersHold
    <3>3. \A d \in Chunks : Holds(w, d)' => d = c
      BY <3>1, <3>2 DEF Holds
    <3>4. Held(stage) /\ UNCHANGED uploaded /\ \A v \in Workers : ~Holds(v, c)
      BY <1>1, <2>2 DEF StageInv, Held, Select
    <3> QED
      BY <2>2, <3>1, <3>2, <3>3, <3>4 DEF Held
  <2>6. Reported(moved)' /\ Timed(moved)'
    BY <1>1, <2>2, ReportedElsewhere, TimedElsewhere DEF UInv, StageInv, Stages, Select
  <2>7. Counted(moved)'
    BY <1>1, <2>2 DEF StageInv, Counted, Select
  <2> QED
    BY <1>2, <2>2, <2>3, <2>4, <2>5, <2>6, <2>7 DEF UInv, StageInv
<1> QED
  BY <1>3, <1>4 DEF Select

\* A chunk that was uploaded, or may have been, is reported.
LEMMA UploadKeeps ==
    ASSUME UInv, NEW w \in Workers, Upload(w)
    PROVE  UInv'
<1> USE DEF remote, queues
<1>1. PICK stage \in [Chunks -> Stages] : StageInv(stage)
  BY DEF UInv
<1>2. PICK c \in Chunks : c = worker[w].chunk /\ worker[w].at = "upload"
  BY StepFields DEF UInv, UTypes, Upload
<1>3. PICK ok \in BOOLEAN : /\ worker' = [worker EXCEPT ![w] = Reporting([chunk |-> c, ok |-> ok])]
                            /\ uploaded' \in {uploaded, uploaded \cup {c}} /\ (ok => c \in uploaded')
  BY <1>2 DEF Upload
<1>4. PICK r \in Result : r = [chunk |-> c, ok |-> ok] /\ r.chunk = c /\ (r.ok <=> ok)
  <2>1. [chunk |-> c, ok |-> ok] \in Result
    BY DEF Result
  <2>2. [chunk |-> c, ok |-> ok].chunk = c /\ [chunk |-> c, ok |-> ok].ok = ok
    OBVIOUS
  <2> QED
    BY <2>1, <2>2, Zenon
<1>5. UTypes'
  BY <1>3, <1>4, StepFields DEF UInv, UTypes, Upload
<1>6. Collected' /\ Durable'
  BY <1>3 DEF UInv, UTypes, Upload, Collected, Durable, SaveIsDurable
<1>7. Held(stage)'
  <2>1. /\ UTypes /\ worker' = [worker EXCEPT ![w] = Reporting(r)]
        /\ Reporting(r).at = "report" /\ Reporting(r).result = r /\ r.chunk = c
    BY <1>3, <1>4, StepFields DEF UInv
  <2>2. /\ worker'[w] = Reporting(r)
        /\ \A v \in Workers \ {w} : worker'[v] = worker[v]
        /\ \A v \in Workers \ {w}, d \in Chunks : Holds(v, d)' => Holds(v, d)
    BY <2>1, OthersHold
  <2>3. \A d \in Chunks : Holds(w, d)' => d = c
    BY <2>1, <2>2 DEF Holds
  <2>4. Held(stage) /\ Holds(w, c) /\ uploaded \subseteq uploaded'
    BY <1>1, <1>2, <1>3 DEF StageInv, Holds
  <2>5. \A v \in Workers :
           worker'[v].at = "report" /\ worker'[v].result.ok => worker'[v].result.chunk \in uploaded'
    <3>1. r.ok => r.chunk \in uploaded'
      BY <1>3, <1>4
    <3> QED
      BY <2>1, <2>2, <2>4, <3>1 DEF Held
  <2>6. \A v \in Workers, d \in Chunks : Holds(v, d)' => Holds(v, d)
    BY <2>2, <2>3, <2>4
  <2> QED
    BY <2>4, <2>5, <2>6 DEF Held
<1>8. Queued(stage)' /\ Reported(stage)' /\ Timed(stage)' /\ Counted(stage)'
  <2>1. /\ UNCHANGED <<queued, chunkUploadCh, resCh, timers, checked, remaining>>
        /\ uploaded \subseteq uploaded'
    BY <1>3 DEF Upload
  <2>2. Queued(stage)' /\ Timed(stage)' /\ Counted(stage)'
    BY <1>1, <2>1 DEF StageInv, Queued, Timed, Counted
  <2>3. Reported(stage)'
    BY <1>1, <2>1 DEF StageInv, Reported
  <2> QED
    BY <2>2, <2>3
<1> QED
  BY <1>5, <1>6, <1>7, <1>8 DEF UInv, StageInv

\* The report goes from the worker to the collector.
LEMMA ReportKeeps ==
    ASSUME UInv, NEW w \in Workers, Report(w)
    PROVE  UInv'
<1> USE DEF remote
<1>1. PICK stage \in [Chunks -> Stages] : StageInv(stage)
  BY DEF UInv
<1>2. PICK r \in Result : r = worker[w].result /\ worker[w].at = "report"
  BY StepFields DEF UInv, UTypes, Report
<1>3. r.chunk \in Chunks /\ resCh' = Append(resCh, r) /\ worker' = [worker EXCEPT ![w] = Idle]
  BY <1>2 DEF Report, Result
<1> DEFINE moved == [stage EXCEPT ![r.chunk] = "report"]
<1>4. Holds(w, r.chunk) /\ stage[r.chunk] = "work" /\ (r.ok => r.chunk \in uploaded)
  BY <1>1, <1>2, <1>3 DEF StageInv, Held, Holds
<1>5. moved \in [Chunks -> Stages] /\ DoneIn(moved) = DoneIn(stage)
  BY <1>3, <1>4 DEF Stages, DoneIn
<1>6. UTypes'
  <2>1. resCh' \in Seq(Result)
    BY <1>3, AppendFacts DEF UInv, UTypes
  <2>2. worker' \in [Workers -> Steps]
    BY <1>3, StepFields DEF UInv, UTypes
  <2> QED
    BY <2>1, <2>2 DEF UInv, UTypes, Report
<1>7. Collected' /\ Durable'
  BY DEF UInv, Report, Collected, Durable, SaveIsDurable
<1>8. Held(moved)'
  <2>1. Idle.at = "select"
    BY StepFields
  <2>2. /\ \A v \in Workers, d \in Chunks : Holds(v, d)' => v # w /\ Holds(v, d)
        /\ \A v \in Workers : worker'[v].at = "report" => worker'[v] = worker[v]
    BY <1>3, <2>1, HoldsNone DEF UInv
  <2>3. Held(stage) /\ UNCHANGED uploaded
    BY <1>1 DEF StageInv, Report
  <2>4. \A v \in Workers, d \in Chunks : Holds(v, d)' => d # r.chunk
    <3>1. \A v \in Workers : Holds(v, r.chunk) => v = w
      BY <1>3, <1>4, <2>3 DEF Held
    <3> QED
      BY <2>2, <3>1
  <2> QED
    BY <1>3, <2>2, <2>3, <2>4 DEF Held
<1>9. Reported(moved)'
  <2>1. Reported(stage) /\ UNCHANGED uploaded
    BY <1>1 DEF StageInv, Report
  <2>2. \A i \in 1 .. Len(resCh) : resCh[i] \in Result /\ resCh[i].chunk \in Chunks \ {r.chunk}
    BY <1>4, <2>1, ResultFields DEF UInv, Reported
  <2>3. /\ Len(resCh) \in Nat
        /\ \A i \in 1 .. Len(resCh') :
             (i \in 1 .. Len(resCh) /\ resCh'[i] = resCh[i]) \/ (i = Len(resCh) + 1 /\ resCh'[i] = r)
    BY <1>3, AppendFacts DEF UInv, UTypes
  <2>4. \A i \in 1 .. Len(resCh') : moved[resCh'[i].chunk] = "report"
                                    /\ (resCh'[i].ok => resCh'[i].chunk \in uploaded)
    BY <1>3, <1>4, <2>1, <2>2, <2>3 DEF Reported
  <2>5. \A i, j \in 1 .. Len(resCh') : resCh'[i].chunk = resCh'[j].chunk => i = j
    BY <2>1, <2>2, <2>3 DEF Reported
  <2> QED
    BY <2>1, <2>4, <2>5 DEF Reported
<1>10. Queued(moved)' /\ Timed(moved)'
  BY <1>1, <1>3, <1>4, QueuedElsewhere, TimedElsewhere DEF UInv, StageInv, Stages, Report
<1>11. Counted(moved)'
  BY <1>1, <1>5 DEF StageInv, Counted, Report
<1> QED
  BY <1>5, <1>6, <1>7, <1>8, <1>9, <1>10, <1>11 DEF UInv, StageInv

\* A success is counted; the last one ends the collection.
LEMMA CollectSuccessKeeps ==
    ASSUME UInv, CollectSuccess
    PROVE  UInv'
<1> USE DEF remote
<1>1. PICK stage \in [Chunks -> Stages] : StageInv(stage)
  BY DEF UInv
<1>2. PICK c \in Chunks : /\ c = resCh[1].chunk /\ stage[c] = "report" /\ c \in uploaded
                          /\ resCh # <<>> /\ resCh' = Tail(resCh)
  <2>1. resCh # <<>> /\ Head(resCh).ok /\ Head(resCh) = resCh[1] /\ resCh[1] \in Result
        /\ 1 \in 1 .. Len(resCh)
    BY TailFacts DEF CollectSuccess, UInv, UTypes
  <2> QED
    BY <1>1, <2>1 DEF CollectSuccess, StageInv, Reported, Result
<1> DEFINE moved == [stage EXCEPT ![c] = "done"]
<1>3. /\ moved \in [Chunks -> Stages] /\ DoneIn(moved) = DoneIn(stage) \cup {c}
      /\ Cardinality(DoneIn(moved)) = Cardinality(DoneIn(stage)) + 1
  BY <1>2, OneMoreDone DEF Stages
<1>4. UTypes'
  BY <1>2, TailFacts DEF UInv, UTypes, CollectSuccess
<1>5. Collected' /\ Durable'
  BY DEF UInv, UTypes, Collected, Durable, SaveIsDurable, CollectSuccess
<1>6. Reported(moved)'
  BY <1>1, <1>2, ReportedTail DEF UInv, StageInv, Stages, CollectSuccess
<1>7. Queued(moved)' /\ Held(moved)' /\ Timed(moved)'
  BY <1>1, <1>2, QueuedElsewhere, HeldElsewhere, TimedElsewhere
  DEF UInv, StageInv, Stages, CollectSuccess
<1>8. Counted(moved)'
  <2>1. remaining' = remaining - 1 /\ uploaded' = uploaded /\ remaining \in Int /\ NoOfChunks \in Int
    BY UploadAssumption DEF UInv, UTypes, CollectSuccess
  <2>2. DoneIn(stage) \subseteq uploaded /\ Cardinality(DoneIn(stage)) = NoOfChunks - remaining
    BY <1>1 DEF StageInv, Counted
  <2> HIDE DEF moved
  <2>3. DoneIn(moved) \subseteq uploaded' /\ Cardinality(DoneIn(moved)) = NoOfChunks - remaining'
    BY <1>2, <1>3, <2>1, <2>2
  <2> QED
    BY <2>3 DEF Counted
<1> QED
  BY <1>3, <1>4, <1>5, <1>6, <1>7, <1>8 DEF UInv, StageInv

\* A failure starts a timer, or is one for good.
LEMMA CollectFailureKeeps ==
    ASSUME UInv, CollectFailure
    PROVE  UInv'
<1> USE DEF remote
<1>1. PICK stage \in [Chunks -> Stages] : StageInv(stage)
  BY DEF UInv
<1>2. PICK c \in Chunks : /\ c = resCh[1].chunk /\ stage[c] = "report"
                          /\ resCh # <<>> /\ resCh' = Tail(resCh)
                          /\ timers' \in {timers, timers \cup {c}}
  <2>1. resCh # <<>> /\ Head(resCh) = resCh[1] /\ resCh[1] \in Result /\ 1 \in 1 .. Len(resCh)
    BY TailFacts DEF CollectFailure, UInv, UTypes
  <2> QED
    BY <1>1, <2>1 DEF CollectFailure, StageInv, Reported, Result
<1> DEFINE moved == [stage EXCEPT ![c] = "timer"]
<1>3. moved \in [Chunks -> Stages] /\ DoneIn(moved) = DoneIn(stage)
  BY <1>2 DEF Stages, DoneIn
<1>4. UTypes'
  BY <1>2, TailFacts DEF UInv, UTypes, CollectFailure
<1>5. Collected' /\ Durable'
  BY DEF UInv, Collected, Durable, SaveIsDurable, CollectFailure
<1>6. Reported(moved)'
  BY <1>1, <1>2, ReportedTail DEF UInv, StageInv, Stages, CollectFailure
<1>7. Queued(moved)' /\ Held(moved)'
  BY <1>1, <1>2, QueuedElsewhere, HeldElsewhere DEF UInv, StageInv, Stages, CollectFailure
<1>8. Timed(moved)'
  BY <1>1, <1>2 DEF UInv, UTypes, StageInv, Timed, CollectFailure
<1>9. Counted(moved)'
  BY <1>1, <1>3 DEF StageInv, Counted, CollectFailure
<1> QED
  BY <1>3, <1>4, <1>5, <1>6, <1>7, <1>8, <1>9 DEF UInv, StageInv

\* A timer expires, and its function queues the chunk if it saw stopCh open.
LEMMA TimerKeeps ==
    ASSUME UInv, NEW c \in Chunks, TimerChecks(c) \/ TimerSends(c)
    PROVE  UInv'
<1> USE DEF remote
<1>1. PICK stage \in [Chunks -> Stages] : StageInv(stage)
  BY DEF UInv
<1>2. Collected' /\ Durable'
  BY DEF UInv, Collected, Durable, SaveIsDurable, TimerChecks, TimerSends
<1>3. CASE TimerChecks(c)
  <2> DEFINE moved == [stage EXCEPT ![c] = "checked"]
  <2>1. stage[c] = "timer"
    BY <1>1, <1>3 DEF StageInv, Timed, TimerChecks
  <2>2. moved \in [Chunks -> Stages] /\ DoneIn(moved) = DoneIn(stage)
    BY <2>1 DEF Stages, DoneIn
  <2>3. UTypes'
    BY <1>3 DEF UInv, UTypes, TimerChecks
  <2>4. Queued(moved)' /\ Held(moved)' /\ Reported(moved)'
    BY <1>1, <1>3, <2>1, QueuedElsewhere, HeldElsewhere, ReportedElsewhere
    DEF UInv, StageInv, Stages, TimerChecks
  <2>5. Timed(moved)' /\ Counted(moved)'
    BY <1>1, <1>3, <2>2 DEF UInv, UTypes, StageInv, Timed, Counted, TimerChecks
  <2> QED
    BY <1>2, <2>2, <2>3, <2>4, <2>5 DEF UInv, StageInv
<1>4. CASE TimerSends(c)
  <2> DEFINE moved == [stage EXCEPT ![c] = "queue"]
  <2>1. stage[c] = "checked"
    BY <1>1, <1>4 DEF StageInv, Timed, TimerSends
  <2>2. moved \in [Chunks -> Stages] /\ DoneIn(moved) = DoneIn(stage)
    BY <2>1 DEF Stages, DoneIn
  <2>3. UTypes'
    BY <1>4, AppendFacts DEF UInv, UTypes, TimerSends
  <2>4. Queued(moved)'
    <3>1. /\ chunkUploadCh' = Append(chunkUploadCh, c)
          /\ \A d \in Chunks : d > queued' => d > queued /\ d # c
      BY <1>1, <1>4, <2>1 DEF TimerSends, StageInv, Queued
    <3>2. \A i \in 1 .. Len(chunkUploadCh) : chunkUploadCh[i] \in Chunks /\ chunkUploadCh[i] # c
      BY <1>1, <2>1 DEF UInv, UTypes, StageInv, Queued
    <3>3. Queued(stage) /\ queued \in Nat /\ chunkUploadCh \in Seq(Chunks)
      BY <1>1 DEF StageInv, UInv, UTypes
    <3> QED
      BY <2>1, <3>1, <3>2, <3>3, QueuedAtEnd
  <2>5. Held(moved)' /\ Reported(moved)'
    BY <1>1, <1>4, <2>1, HeldElsewhere, ReportedElsewhere DEF UInv, StageInv, Stages, TimerSends
  <2>6. Timed(moved)' /\ Counted(moved)'
    BY <1>1, <1>4, <2>2 DEF UInv, UTypes, StageInv, Timed, Counted, TimerSends
  <2> QED
    BY <1>2, <2>2, <2>3, <2>4, <2>5, <2>6 DEF UInv, StageInv
<1> QED
  BY <1>3, <1>4

\* The workers start, and Save waits for them.
LEMMA StartWaitKeeps ==
    ASSUME UInv, Start \/ Wait
    PROVE  UInv'
<1> USE DEF remote, queues
<1>1. PICK stage \in [Chunks -> Stages] : StageInv(stage)
  BY DEF UInv
<1>2. UTypes'
  BY StepFields DEF UInv, UTypes, Start, Wait
<1>3. Collected' /\ Durable'
  BY DEF UInv, Collected, Durable, SaveIsDurable, Start, Wait
<1>4. Held(stage)'
  <2>1. CASE worker' = [w \in Workers |-> Idle]
    <3>1. \A v \in Workers : worker'[v].at = "select"
      BY <2>1, StepFields
    <3> QED
      BY <3>1 DEF Held, Holds
  <2>2. CASE UNCHANGED <<worker, uploaded>>
    <3>1. Held(stage)
      BY <1>1 DEF StageInv
    <3>2. \A v \in Workers, c \in Chunks : Holds(v, c)' => Holds(v, c)
      BY <2>2 DEF Holds
    <3> QED
      BY <2>2, <3>1, <3>2 DEF Held
  <2> QED
    BY <2>1, <2>2 DEF Start, Wait
<1>5. Queued(stage)' /\ Reported(stage)' /\ Timed(stage)' /\ Counted(stage)'
  <2>1. UNCHANGED <<queued, chunkUploadCh, resCh, timers, checked, uploaded, remaining>>
    BY DEF Start, Wait
  <2>2. Queued(stage)' /\ Timed(stage)' /\ Counted(stage)'
    BY <1>1, <2>1 DEF StageInv, Queued, Timed, Counted
  <2>3. Reported(stage)'
    BY <1>1, <2>1 DEF StageInv, Reported
  <2> QED
    BY <2>2, <2>3
<1> QED
  BY <1>2, <1>3, <1>4, <1>5 DEF UInv, StageInv

\* Save queues the next chunk.
LEMMA QueueKeeps ==
    ASSUME UInv, Queue
    PROVE  UInv'
<1> USE DEF remote
<1>1. PICK stage \in [Chunks -> Stages] : StageInv(stage)
  BY DEF UInv
<1>2. queued + 1 \in Chunks /\ Chunks \subseteq Nat /\ queued \in Nat
  BY UploadAssumption DEF UInv, UTypes, Collected, Queue, Chunks
<1> QED
  <2>1. PICK c \in Chunks : c = queued + 1 /\ queued' = c /\ chunkUploadCh' = Append(chunkUploadCh, c)
    BY <1>2 DEF Queue
  <2> DEFINE moved == [stage EXCEPT ![c] = "queue"]
  <2>2. stage[c] = "new"
    BY <1>1, <2>1 DEF UInv, UTypes, StageInv, Queued
  <2>3. moved \in [Chunks -> Stages] /\ DoneIn(moved) = DoneIn(stage)
    BY <2>2 DEF Stages, DoneIn
  <2>4. UTypes'
    <3>1. chunkUploadCh' \in Seq(Chunks)
      BY <2>1, AppendFacts DEF UInv, UTypes
    <3>2. queued' \in Nat
      BY <1>2 DEF Queue
    <3>3. UNCHANGED <<kind, remaining, resCh, worker, timers, checked, uploaded>>
      BY DEF Queue
    <3> QED
      BY <3>1, <3>2, <3>3 DEF UInv, UTypes
  <2>5. Collected' /\ Durable'
    BY <1>2, UploadAssumption DEF UInv, Chunks, Collected, Durable, SaveIsDurable, Queue
  <2>6. Queued(moved)'
    <3>1. \A d \in Chunks : d > queued' => d > queued /\ d # c
      BY <1>2, <2>1
    <3>2. \A i \in 1 .. Len(chunkUploadCh) : chunkUploadCh[i] \in Chunks /\ chunkUploadCh[i] # c
      BY <1>1, <2>2 DEF UInv, UTypes, StageInv, Queued
    <3>3. Queued(stage) /\ queued \in Nat /\ chunkUploadCh \in Seq(Chunks)
      BY <1>1 DEF StageInv, UInv, UTypes
    <3> QED
      BY <2>1, <3>1, <3>2, <3>3, QueuedAtEnd
  <2>7. Held(moved)' /\ Reported(moved)' /\ Timed(moved)'
    BY <1>1, <2>2, HeldElsewhere, ReportedElsewhere, TimedElsewhere
    DEF UInv, StageInv, Stages, Queue
  <2>8. Counted(moved)'
    BY <1>1, <2>3 DEF StageInv, Counted, Queue
  <2> QED
    BY <2>3, <2>4, <2>5, <2>6, <2>7, <2>8 DEF UInv, StageInv

\* Nil is returned only when no chunk failed for good, so that all are done.
LEMMA FinishKeeps ==
    ASSUME UInv, Finish
    PROVE  UInv'
<1> USE DEF queues
<1>1. PICK stage \in [Chunks -> Stages] : StageInv(stage)
  BY DEF UInv
<1>2. UTypes' /\ Collected'
  BY DEF UInv, UTypes, Collected, Finish
<1>3. StageInv(stage)'
  BY <1>1, StageUnchanged DEF Finish
<1>4. ASSUME ~failed PROVE uploaded = Chunks
  <2>1. IsFiniteSet(Chunks) /\ Cardinality(Chunks) = NoOfChunks /\ DoneIn(stage) \subseteq Chunks
    BY FS_Interval, UploadAssumption DEF Chunks, DoneIn
  <2>2. Cardinality(DoneIn(stage)) = NoOfChunks /\ DoneIn(stage) \subseteq uploaded
    BY <1>1, <1>4, UploadAssumption DEF UInv, Collected, Finish, StageInv, Counted
  <2>3. DoneIn(stage) = Chunks
    BY <2>1, <2>2, FS_Subset
  <2> QED
    BY <2>2, <2>3 DEF UInv, UTypes
<1>5. Durable'
  <2>1. SUFFICES ASSUME "OSS" \notin Stores, err' = FALSE PROVE object' /\ uploaded' = Chunks
    BY Zenon DEF Durable, SaveIsDurable, Finish
  <2>2. kind # "OSS"
    BY <2>1 DEF UInv, UTypes
  <2>3. ~failed /\ object' /\ uploaded' = uploaded
    BY <2>1, <2>2, Zenon DEF Finish
  <2> QED
    BY <1>4, <2>3
<1> QED
  BY <1>1, <1>2, <1>3, <1>5 DEF UInv

\* Every step keeps the invariant.
LEMMA NextUInv == UInv /\ [Next]_vars => UInv'
<1> SUFFICES ASSUME UInv, [Next]_vars PROVE UInv'
  OBVIOUS
<1>1. CASE \E w \in Workers : Uploader(w)
  BY <1>1, SelectKeeps, UploadKeeps, ReportKeeps DEF Uploader
<1>2. CASE \E c \in Chunks : TimerChecks(c) \/ TimerSends(c)
  BY <1>2, TimerKeeps
<1>3. CASE Save
  BY <1>3, StartWaitKeeps, QueueKeeps, CollectSuccessKeeps, CollectFailureKeeps, FinishKeeps
  DEF Save
<1>4. CASE UNCHANGED vars
  <2>1. PICK stage \in [Chunks -> Stages] : StageInv(stage)
    BY DEF UInv
  <2>2. UTypes' /\ Collected' /\ Durable'
    BY <1>4 DEF vars, queues, remote, UInv, UTypes, Collected, Durable, SaveIsDurable
  <2>3. StageInv(stage)'
    BY <1>4, <2>1, StageUnchanged DEF vars, queues, remote
  <2> QED
    BY <2>1, <2>2, <2>3 DEF UInv
<1> QED
  BY <1>1, <1>2, <1>3, <1>4 DEF Next

\* When Save returns without an error, the snapshot is in the store with all its chunks:
\* S3, ABS, GCS and Swift.
THEOREM SavedMeansStored == ASSUME "OSS" \notin Stores PROVE Spec => []SaveIsDurable
<1>1. UInv => SaveIsDurable
  BY DEF UInv, Durable
<1> QED
  BY <1>1, InitUInv, NextUInv, PTL DEF Spec

\* A channel that holds each chunk at most once, and not all of them, is not full.
LEMMA RoomLeft ==
    ASSUME NEW n \in Nat, NEW c \in Chunks, NEW f \in [1 .. n -> Chunks \ {c}],
           \A i, j \in 1 .. n : f[i] = f[j] => i = j
    PROVE  n < NoOfChunks
<1>1. IsFiniteSet(Chunks) /\ Cardinality(Chunks) = NoOfChunks
  BY FS_Interval, UploadAssumption DEF Chunks
<1>2. IsFiniteSet(Chunks \ {c}) /\ Cardinality(Chunks \ {c}) = NoOfChunks - 1
  BY <1>1, FS_RemoveElement
<1>3. IsFiniteSet(1 .. n) /\ Cardinality(1 .. n) = n
  BY FS_Interval
<1>4. SUFFICES ASSUME n >= NoOfChunks PROVE FALSE
  BY UploadAssumption
<1>5. Cardinality(Chunks \ {c}) < Cardinality(1 .. n)
  BY <1>2, <1>3, <1>4, UploadAssumption
<1>6. \E i, j \in 1 .. n : i # j /\ f[i] = f[j]
  BY <1>2, <1>3, <1>5, FS_PigeonHole
<1> QED
  BY <1>6

\* No send on the two channels ever waits, as a chunk that is about to be sent is not in
\* the channel and no other is there twice.
THEOREM ChannelsHaveRoom == Spec => []NeverBlocked
<1>1. UInv => NeverBlocked
  <2> SUFFICES ASSUME UInv PROVE NeverBlocked
    OBVIOUS
  <2>1. PICK stage \in [Chunks -> Stages] : StageInv(stage)
    BY DEF UInv
  <2>2. ASSUME NEW w \in Workers, worker[w].at = "report" PROVE Len(resCh) < NoOfChunks
    <3>1. PICK c \in Chunks : Holds(w, c)
      BY <2>2, StepFields DEF UInv, UTypes, Result, Holds
    <3>2. stage[c] = "work" /\ Len(resCh) \in Nat
      BY <2>1, <3>1, LenProperties DEF UInv, UTypes, StageInv, Held
    <3> DEFINE f == [i \in 1 .. Len(resCh) |-> resCh[i].chunk]
    <3>3. f \in [1 .. Len(resCh) -> Chunks \ {c}]
      <4>1. \A i \in 1 .. Len(resCh) : resCh[i] \in Result
        BY ElementOfSeq DEF UInv, UTypes
      <4>2. \A i \in 1 .. Len(resCh) : resCh[i].chunk \in Chunks \ {c}
        BY <2>1, <3>2, <4>1 DEF Result, StageInv, Reported
      <4> QED
        BY <4>2
    <3>4. \A i, j \in 1 .. Len(resCh) : f[i] = f[j] => i = j
      BY <2>1 DEF StageInv, Reported
    <3> QED
      BY <3>2, <3>3, <3>4, RoomLeft
  <2>3. ASSUME NEW c \in Chunks, stage[c] # "queue" PROVE Len(chunkUploadCh) < NoOfChunks
    <3>1. Len(chunkUploadCh) \in Nat /\ chunkUploadCh \in [1 .. Len(chunkUploadCh) -> Chunks]
      BY LenProperties DEF UInv, UTypes
    <3>2. chunkUploadCh \in [1 .. Len(chunkUploadCh) -> Chunks \ {c}]
      BY <2>1, <2>3, <3>1 DEF StageInv, Queued
    <3> QED
      BY <2>1, <3>1, <3>2, RoomLeft DEF StageInv, Queued
  <2>4. checked # {} => \E c \in Chunks : stage[c] = "checked"
    BY <2>1 DEF UInv, UTypes, StageInv, Timed
  <2>5. save = "queue" => \E c \in Chunks : stage[c] = "new"
    <3>1. save = "queue" => queued + 1 \in Chunks /\ queued + 1 > queued
      BY UploadAssumption DEF UInv, UTypes, Collected, Chunks
    <3> QED
      BY <2>1, <3>1 DEF StageInv, Queued
  <2> QED
    BY <2>2, <2>3, <2>4, <2>5 DEF NeverBlocked
<1> QED
  BY <1>1, InitUInv, NextUInv, PTL DEF Spec

-----------------------------------------------------------------------------
(* The restorer *)

Errors == {"none", "nil", "err"}
Messages == {"err", "minus", "loc", "info"}

PTypes ==
    /\ result \in Errors /\ stopClosed \in BOOLEAN /\ locsClosed \in BOOLEAN
    /\ fetcherInfoCh \in Nat
    /\ fetcher \in [Fetchers -> {"new", "range", "fetch", "send", "ended"}]
    /\ idx \in [Fetchers -> Nat] /\ sends \in [Fetchers -> Seq(Messages)]
    /\ errCh \in Seq(Errors) /\ applierErr \in Errors /\ fetchFailed \in BOOLEAN
    /\ applied \in Seq(Nat) /\ curr \in Nat /\ files \subseteq Nat
    /\ applierInfoCh \in Seq(Nat)

\* A fetcher has pending sends only where it sends them, and from the time stopCh is
\* closed and cleanup has waited none begins to fetch.
Closing ==
    /\ main = "wgWait" => stopClosed
    /\ locsClosed => stopClosed /\ \A f \in Fetchers : fetcher[f] \in {"new", "range", "ended"}
    /\ \A f \in Fetchers : (fetcher[f] = "send") <=> (sends[f] # <<>>)

\* The applier has applied a prefix of the list and goes on right after it.
InOrder ==
    /\ \A i \in 1 .. Len(applied) : applied[i] = i
    /\ applier \in {"apply", "lean", "alarm", "disarm"} => curr = next
    /\ applier \notin {"send", "ended"} => Len(applied) < NumSnaps
    /\ Len(applied) <= NumSnaps

\* nil comes from the applier alone, after the last snapshot.
Reports ==
    \/ Len(applied) = NumSnaps
    \/ /\ result # "nil" /\ applierErr # "nil"
       /\ \A i \in 1 .. Len(errCh) : errCh[i] # "nil"

\* An index that no fetcher has or will have, and whose file is not there.
Lost(i) ==
    /\ Len(applied) < i /\ i <= NumSnaps /\ i < fetcherInfoCh /\ i \notin files
    /\ \A f \in Fetchers : fetcher[f] = "fetch" /\ idx[f] = i => main = "panicked"

\* Indexes are handed out in order, and applied only after that.
HandedOut ==
    /\ fetcherInfoCh <= NumSnaps + 1 /\ Len(applied) < fetcherInfoCh
    /\ \A i \in files : i < fetcherInfoCh

\* Every index is fetched by one fetcher, before it is applied.
FetchedOnce ==
    \A f \in Fetchers : fetcher[f] = "fetch" =>
        /\ Len(applied) < idx[f] /\ idx[f] < fetcherInfoCh /\ idx[f] \notin files
        /\ \A g \in Fetchers : fetcher[g] = "fetch" /\ idx[g] = idx[f] => g = f

FailureLoses == fetchFailed => \E i \in Nat : Lost(i)

Fetched == HandedOut /\ FetchedOnce /\ FailureLoses

PInv == PTypes /\ Closing /\ InOrder /\ Reports /\ Fetched

\* Before the pipeline starts there is nothing in it.
LEMMA InitPInv == RestoreInit => PInv
<1> SUFFICES ASSUME RestoreInit PROVE PInv
  OBVIOUS
<1>1. PTypes
  <2>1. <<>> \in Seq(Messages) /\ <<>> \in Seq(Errors) /\ <<>> \in Seq(Nat)
    OBVIOUS
  <2>2. sends \in [Fetchers -> Seq(Messages)] /\ idx \in [Fetchers -> Nat]
    BY <2>1 DEF RestoreInit
  <2> QED
    BY <2>1, <2>2 DEF RestoreInit, PTypes, Errors
<1>2. Closing
  BY DEF RestoreInit, Closing
<1>3. InOrder /\ Reports /\ Fetched
  BY RestorerAssumption DEF RestoreInit, InOrder, Reports, Fetched, HandedOut, FetchedOnce, FailureLoses, next
<1> QED
  BY <1>1, <1>2, <1>3 DEF PInv

\* Steps of Restore itself.
LEMMA MainKeeps ==
    ASSUME PInv, Main
    PROVE  PInv'
<1> USE DEF chans, fetching, applying
<1>1. CASE RestoreBase \/ ApplyFirst
  <2>1. /\ UNCHANGED <<chans, fetching, applying>> /\ main' \in {"first", "wait", "returned"}
        /\ result' = result \/ result' = "err"
        /\ main # "panicked"
    BY <1>1 DEF RestoreBase, ApplyFirst
  <2>2. PTypes' /\ Closing'
    BY <2>1 DEF PInv, PTypes, Closing, Errors
  <2>3. InOrder' /\ Reports'
    BY <2>1 DEF PInv, InOrder, Reports, next
  <2>4. Fetched'
    BY <2>1 DEF PInv, Fetched, HandedOut, FetchedOnce, FailureLoses, Lost
  <2> QED
    BY <2>2, <2>3, <2>4 DEF PInv
<1>2. CASE ReceiveErr
  <2>1. /\ errCh \in Seq(Errors) /\ errCh # <<>> /\ result' = Head(errCh) /\ errCh' = Tail(errCh)
        /\ stopClosed' = TRUE /\ UNCHANGED <<locsClosed, applierInfoCh, fetching, applying>>
        /\ main # "panicked"
    BY <1>2 DEF ReceiveErr, PInv, PTypes
  <2>2. PTypes'
    BY <2>1 DEF PInv, PTypes
  <2>3. Closing'
    BY <2>1 DEF PInv, Closing
  <2>4. InOrder'
    BY <2>1 DEF PInv, InOrder, next
  <2>5. Reports'
    <3>1. CASE Len(applied) = NumSnaps
      BY <2>1, <3>1 DEF Reports
    <3>2. CASE \A i \in 1 .. Len(errCh) : errCh[i] # "nil"
      BY <2>1, <3>2 DEF PInv, Reports
    <3> QED
      BY <3>1, <3>2 DEF PInv, Reports
  <2>6. Fetched'
    BY <2>1 DEF PInv, Fetched, HandedOut, FetchedOnce, FailureLoses, Lost
  <2> QED
    BY <2>2, <2>3, <2>4, <2>5, <2>6 DEF PInv
<1>3. CASE Cleanup
  <2>1. /\ main' = "returned" /\ locsClosed' = TRUE /\ files' = {} /\ stopClosed
        /\ \A f \in Fetchers : fetcher[f] \in {"new", "ended"}
        /\ UNCHANGED <<result, stopClosed, applierInfoCh, errCh, fetcherInfoCh, fetcher, idx, sends,
                       fetchFailed, applier, applierErr, curr, applied>>
    BY <1>3 DEF Cleanup, Waited, PInv, Closing
  <2>2. PTypes' /\ Closing'
    BY <2>1 DEF PInv, PTypes, Closing
  <2>3. InOrder' /\ Reports'
    BY <2>1 DEF PInv, InOrder, Reports, next
  <2>4. Fetched'
    BY <2>1 DEF PInv, Fetched, HandedOut, FetchedOnce, FailureLoses, Lost
  <2> QED
    BY <2>2, <2>3, <2>4 DEF PInv
<1> QED
  BY <1>1, <1>2, <1>3 DEF Main

\* Steps of a fetcher.
LEMMA FetcherKeeps ==
    ASSUME PInv, NEW f \in Fetchers, Fetcher(f), main # "panicked"
    PROVE  PInv'
<1> USE DEF chans, applying
<1>0. UNCHANGED <<result, stopClosed, locsClosed, applier, applierErr, curr, applied>>
  BY DEF Fetcher, FetcherStarts, NextSnap, Fetch, FetchFails, FetchPanics, Send
<1>1. InOrder'
  BY <1>0 DEF PInv, InOrder, next
<1>2. CASE FetcherStarts(f)
  <2>1. PTypes' /\ Closing'
    BY <1>2 DEF FetcherStarts, PInv, PTypes, Closing
  <2>2. Reports'
    BY <1>2 DEF FetcherStarts, PInv, Reports
  <2>3. Fetched'
    BY <1>2 DEF FetcherStarts, PInv, PTypes, Fetched, HandedOut, FetchedOnce, FailureLoses, Lost
  <2> QED
    BY <1>1, <2>1, <2>2, <2>3 DEF PInv
<1>3. CASE NextSnap(f)
  <2>1. PTypes'
    <3>1. fetcher' \in [Fetchers -> {"new", "range", "fetch", "send", "ended"}]
      BY <1>3 DEF NextSnap, PInv, PTypes
    <3>2. fetcherInfoCh' \in Nat /\ idx' \in [Fetchers -> Nat]
      BY <1>3 DEF NextSnap, PInv, PTypes
    <3> QED
      BY <1>3, <3>1, <3>2 DEF NextSnap, PInv, PTypes
  <2>2. Closing'
    BY <1>3 DEF NextSnap, PInv, PTypes, Closing
  <2>3. Reports'
    BY <1>3 DEF NextSnap, PInv, Reports
  <2>4. CASE fetcherInfoCh > NumSnaps
    <3>1. fetcher' = [fetcher EXCEPT ![f] = "ended"]
          /\ UNCHANGED <<main, fetcherInfoCh, idx, files, applied, fetchFailed>>
      BY <1>3, <2>4 DEF NextSnap
    <3>2. \A g \in Fetchers : fetcher'[g] = "fetch" => fetcher[g] = "fetch"
      BY <3>1 DEF PInv, PTypes
    <3>3. ASSUME NEW i \in Nat, Lost(i) PROVE Lost(i)'
      BY <3>1, <3>2, <3>3 DEF Lost
    <3> QED
      <4>1. FailureLoses'
        BY <3>1, <3>3 DEF PInv, Fetched, FailureLoses
      <4>2. HandedOut' /\ FetchedOnce'
        BY <3>1, <3>2 DEF PInv, Fetched, HandedOut, FetchedOnce
      <4> QED
        BY <1>1, <2>1, <2>2, <2>3, <4>1, <4>2 DEF PInv, Fetched
  <2>5. CASE ~(fetcherInfoCh > NumSnaps)
    <3>1. /\ fetcher' = [fetcher EXCEPT ![f] = IF stopClosed THEN "ended" ELSE "fetch"]
          /\ idx' = [idx EXCEPT ![f] = fetcherInfoCh] /\ fetcherInfoCh' = fetcherInfoCh + 1
          /\ UNCHANGED <<main, files, applied, fetchFailed>> /\ fetcher[f] = "range"
      BY <1>3, <2>5 DEF NextSnap
    <3>2. ASSUME NEW i \in Nat, Lost(i) PROVE Lost(i)'
      BY <3>1, <3>2 DEF PInv, PTypes, Lost
    <3>3. ASSUME NEW g \in Fetchers, fetcher'[g] = "fetch"
          PROVE  Len(applied) < idx'[g] /\ idx'[g] < fetcherInfoCh' /\ idx'[g] \notin files
      BY <3>1, <3>3 DEF PInv, PTypes, Fetched, HandedOut, FetchedOnce, FailureLoses
    <3>4. ASSUME NEW g \in Fetchers, NEW h \in Fetchers, fetcher'[g] = "fetch",
                 fetcher'[h] = "fetch", idx'[h] = idx'[g]
          PROVE  h = g
      BY <3>1, <3>4 DEF PInv, PTypes, Fetched, HandedOut, FetchedOnce, FailureLoses
    <3>5. fetcherInfoCh' <= NumSnaps + 1 /\ Len(applied) < fetcherInfoCh'
          /\ \A i \in files : i < fetcherInfoCh'
      BY <2>5, <3>1, RestorerAssumption DEF PInv, PTypes, Fetched, HandedOut, FetchedOnce, FailureLoses
    <3> QED
      <4>1. FailureLoses'
        BY <3>1, <3>2 DEF PInv, Fetched, FailureLoses
      <4>2. HandedOut' /\ FetchedOnce'
        BY <3>1, <3>3, <3>4, <3>5 DEF HandedOut, FetchedOnce
      <4> QED
        BY <1>1, <2>1, <2>2, <2>3, <4>1, <4>2 DEF PInv, Fetched
  <2> QED
    BY <1>1, <2>1, <2>2, <2>3, <2>4, <2>5 DEF PInv
<1>4. CASE Fetch(f)
  <2>0. /\ fetcher[f] = "fetch" /\ fetcher' = [fetcher EXCEPT ![f] = "send"]
        /\ sends' = [sends EXCEPT ![f] = <<"loc", "info">>] /\ files' = files \cup {idx[f]}
        /\ UNCHANGED <<main, result, chans, fetcherInfoCh, idx, fetchFailed, applying>>
    BY <1>4 DEF Fetch, WillSend
  <2>1. PTypes'
    <3>1. <<"loc", "info">> \in Seq(Messages)
      BY DEF Messages
    <3> QED
      BY <2>0, <3>1 DEF PInv, PTypes
  <2>2. Closing'
    BY <2>0 DEF PInv, PTypes, Closing
  <2>3. Reports'
    BY <1>4 DEF Fetch, PInv, Reports
  <2>4. Fetched'
    <3>1. ASSUME NEW i \in Nat, Lost(i) PROVE Lost(i)'
      BY <2>0, <3>1 DEF PInv, PTypes, Lost
    <3> QED
      BY <2>0, <3>1 DEF PInv, PTypes, Fetched, HandedOut, FetchedOnce, FailureLoses
  <2> QED
    BY <1>1, <2>1, <2>2, <2>3, <2>4 DEF PInv
<1>5. CASE FetchFails(f)
  <2>0. /\ fetcher[f] = "fetch" /\ fetcher' = [fetcher EXCEPT ![f] = "send"]
        /\ \/ sends' = [sends EXCEPT ![f] = <<"err", "minus", "err", "minus", "loc", "info">>]
           \/ sends' = [sends EXCEPT ![f] = <<"err", "minus", "loc", "info">>]
        /\ fetchFailed' = TRUE
        /\ UNCHANGED <<main, result, chans, fetcherInfoCh, idx, files, applying>>
    BY <1>5 DEF FetchFails, WillSend
  <2>1. PTypes'
    <3>1. /\ <<"err", "minus", "err", "minus", "loc", "info">> \in Seq(Messages)
          /\ <<"err", "minus", "loc", "info">> \in Seq(Messages)
      BY DEF Messages
    <3> QED
      BY <2>0, <3>1 DEF PInv, PTypes
  <2>2. Closing'
    <3>1. PICK m \in Seq(Messages) : m # <<>> /\ sends' = [sends EXCEPT ![f] = m]
      <4>1. Len(<<"err", "minus", "err", "minus", "loc", "info">>) = 6
            /\ Len(<<"err", "minus", "loc", "info">>) = 4
        OBVIOUS
      <4> QED
        <5>1. /\ <<"err", "minus", "err", "minus", "loc", "info">> \in Seq(Messages)
              /\ <<"err", "minus", "loc", "info">> \in Seq(Messages)
          BY DEF Messages
        <5>2. /\ <<"err", "minus", "err", "minus", "loc", "info">> # <<>>
              /\ <<"err", "minus", "loc", "info">> # <<>>
          BY <4>1, EmptySeq
        <5> QED
          BY <2>0, <5>1, <5>2
    <3> QED
      BY <2>0, <3>1 DEF PInv, PTypes, Closing
  <2>3. Reports'
    BY <2>0 DEF PInv, Reports
  <2>4. Lost(idx[f])' /\ idx[f] \in Nat
    <3>1. idx[f] \in Nat /\ Len(applied) < idx[f] /\ idx[f] < fetcherInfoCh /\ idx[f] \notin files
          /\ fetcherInfoCh <= NumSnaps + 1 /\ fetcherInfoCh \in Nat
      BY <2>0 DEF PInv, PTypes, Fetched, HandedOut, FetchedOnce
    <3>2. idx[f] <= NumSnaps
      BY <3>1, RestorerAssumption
    <3>3. \A g \in Fetchers : fetcher'[g] = "fetch" /\ idx'[g] = idx[f] => main' = "panicked"
      BY <2>0 DEF PInv, PTypes, Fetched, FetchedOnce
    <3> QED
      BY <2>0, <3>1, <3>2, <3>3 DEF Lost, applying
  <2>5. Fetched'
    BY <2>0, <2>4 DEF PInv, PTypes, Fetched, HandedOut, FetchedOnce, FailureLoses
  <2> QED
    BY <1>1, <2>1, <2>2, <2>3, <2>5 DEF PInv
<1>6. CASE FetchPanics(f)
  <2>0. /\ fetcher[f] = "fetch" /\ main' = "panicked" /\ fetchFailed' = TRUE
        /\ UNCHANGED <<result, chans, fetcherInfoCh, fetcher, idx, sends, files, applying>>
    BY <1>6 DEF FetchPanics
  <2>1. PTypes' /\ Closing' /\ Reports'
    BY <2>0 DEF PInv, PTypes, Closing, Reports
  <2>2. Lost(idx[f])' /\ idx[f] \in Nat
    <3>1. idx[f] \in Nat /\ Len(applied) < idx[f] /\ idx[f] < fetcherInfoCh /\ idx[f] \notin files
          /\ fetcherInfoCh <= NumSnaps + 1 /\ fetcherInfoCh \in Nat
      BY <2>0 DEF PInv, PTypes, Fetched, HandedOut, FetchedOnce
    <3>2. idx[f] <= NumSnaps
      BY <3>1, RestorerAssumption
    <3>3. \A g \in Fetchers : fetcher'[g] = "fetch" /\ idx'[g] = idx[f] => main' = "panicked"
      BY <2>0 DEF PInv, PTypes, Fetched, FetchedOnce
    <3> QED
      BY <2>0, <3>1, <3>2, <3>3 DEF Lost, applying
  <2>3. Fetched'
    BY <2>0, <2>2 DEF PInv, PTypes, Fetched, HandedOut, FetchedOnce, FailureLoses
  <2> QED
    BY <1>1, <2>1, <2>3 DEF PInv
<1>7. CASE Send(f)
  <2>0. /\ fetcher[f] = "send" /\ sends[f] # <<>>
        /\ sends' = [sends EXCEPT ![f] = Tail(sends[f])]
        /\ fetcher' = [fetcher EXCEPT ![f] = IF Len(sends[f]) = 1 THEN "range" ELSE "send"]
        /\ errCh' = errCh \/ errCh' = Append(errCh, "err")
        /\ applierInfoCh' = applierInfoCh \/ \E i \in Nat : applierInfoCh' = Append(applierInfoCh, i)
        /\ UNCHANGED <<main, fetcherInfoCh, idx, files, fetchFailed>>
    BY <1>7 DEF Send, PInv, PTypes, Closing
  <2>1. sends[f] \in Seq(Messages) /\ Tail(sends[f]) \in Seq(Messages)
        /\ (Len(sends[f]) = 1 <=> Tail(sends[f]) = <<>>)
    <3>1. sends[f] \in Seq(Messages)
      BY DEF PInv, PTypes
    <3>2. Tail(sends[f]) \in Seq(Messages) /\ Len(Tail(sends[f])) = Len(sends[f]) - 1
          /\ Len(sends[f]) \in Nat
      BY <2>0, <3>1, HeadTailProperties, EmptySeq
    <3>3. Len(Tail(sends[f])) = 0 <=> Tail(sends[f]) = <<>>
      BY <3>2, EmptySeq
    <3> QED
      BY <3>1, <3>2, <3>3
  <2>2. PTypes'
    <3>1. errCh' \in Seq(Errors) /\ applierInfoCh' \in Seq(Nat)
      <4>1. errCh \in Seq(Errors) /\ applierInfoCh \in Seq(Nat) /\ "err" \in Errors
        BY DEF PInv, PTypes, Errors
      <4> QED
        <5>1. Append(errCh, "err") \in Seq(Errors)
          BY <4>1, AppendProperties
        <5>2. \A i \in Nat : Append(applierInfoCh, i) \in Seq(Nat)
          BY <4>1, AppendProperties
        <5> QED
          BY <2>0, <4>1, <5>1, <5>2
    <3>2. sends' \in [Fetchers -> Seq(Messages)]
      BY <2>0, <2>1 DEF PInv, PTypes
    <3> QED
      BY <1>0, <2>0, <3>1, <3>2 DEF PInv, PTypes
  <2>3. Closing'
    BY <1>0, <2>0, <2>1 DEF PInv, PTypes, Closing
  <2>4. Reports'
    <3>1. CASE errCh' = errCh
      BY <1>0, <3>1 DEF PInv, Reports
    <3>2. CASE errCh' = Append(errCh, "err")
      <4>1. errCh \in Seq(Errors) /\ "err" \in Errors
        BY DEF PInv, PTypes, Errors
      <4>2. \A i \in 1 .. Len(errCh') : errCh'[i] = "err" \/ (i \in 1 .. Len(errCh) /\ errCh'[i] = errCh[i])
        BY <3>2, <4>1
      <4> QED
        BY <1>0, <4>2 DEF PInv, Reports
    <3> QED
      BY <2>0, <3>1, <3>2
  <2>5. \A g \in Fetchers : fetcher'[g] = "fetch" => fetcher[g] = "fetch"
    BY <2>0 DEF PInv, PTypes
  <2>6. ASSUME NEW i \in Nat, Lost(i) PROVE Lost(i)'
    BY <1>0, <2>0, <2>5, <2>6 DEF Lost
  <2>7. Fetched'
    BY <1>0, <2>0, <2>5, <2>6 DEF PInv, Fetched, HandedOut, FetchedOnce, FailureLoses
  <2> QED
    BY <1>1, <2>2, <2>3, <2>4, <2>7 DEF PInv
<1> QED
  BY <1>2, <1>3, <1>4, <1>5, <1>6, <1>7 DEF Fetcher

\* A snapshot that was fetched is applied.
LEMMA ApplyKeeps ==
    ASSUME PInv, Apply
    PROVE  PInv'
<1>0. /\ applier = "apply" /\ curr = next /\ curr \in files /\ files' = files \ {curr}
      /\ applied' = Append(applied, curr) /\ curr' = curr + 1
      /\ IF next = NumSnaps THEN applier' = "send" /\ applierErr' = "nil"
         ELSE applier' \in {"lean", "apply", "select"} /\ applierErr' = applierErr
      /\ UNCHANGED <<main, result, chans, fetcherInfoCh, fetcher, idx, sends, fetchFailed>>
  BY DEF Apply, Continue, PInv, InOrder
<1>1. applied \in Seq(Nat) /\ curr \in Nat /\ next = Len(applied) + 1 /\ NumSnaps \in Nat
  BY RestorerAssumption DEF PInv, PTypes, next
<1>2. applied' \in Seq(Nat) /\ Len(applied') = curr
      /\ \A i \in 1 .. curr : applied'[i] = IF i = curr THEN curr ELSE applied[i]
  BY <1>0, <1>1
<1>3. PTypes'
  <2>1. curr' \in Nat /\ files' \subseteq Nat /\ applierErr' \in Errors
    <3>1. applierErr' = applierErr \/ applierErr' = "nil"
      BY <1>0
    <3>2. applierErr \in Errors /\ files \subseteq Nat
      BY DEF PInv, PTypes
    <3> QED
      <4>1. applierErr' \in Errors
        BY <3>1, <3>2 DEF Errors
      <4>2. curr' \in Nat
        BY <1>0, <1>1
      <4>3. files' \subseteq Nat
        BY <1>0, <3>2
      <4> QED
        BY <4>1, <4>2, <4>3
  <2> QED
    BY <1>0, <1>2, <2>1 DEF PInv, PTypes, chans
<1>4. Closing'
  BY <1>0 DEF PInv, Closing, chans
<1>5. InOrder'
  BY <1>0, <1>1, <1>2 DEF PInv, InOrder, next
<1>6. Reports'
  BY <1>0, <1>1, <1>2 DEF PInv, InOrder, Reports, chans
<1>7. Fetched'
  <2>1. ASSUME NEW i \in Nat, Lost(i) PROVE Lost(i)'
    <3>1. Len(applied) < i /\ i \notin files /\ i # curr
      BY <1>0, <2>1 DEF Lost
    <3>2. Len(applied') < i /\ i \notin files'
      BY <1>0, <1>1, <1>2, <3>1
    <3> QED
      BY <1>0, <2>1, <3>2 DEF Lost
  <2>2. HandedOut'
    BY <1>0, <1>1, <1>2 DEF PInv, PTypes, Fetched, HandedOut
  <2>3. FetchedOnce'
    BY <1>0, <1>1, <1>2 DEF PInv, PTypes, Fetched, FetchedOnce
  <2>4. FailureLoses'
    BY <1>0, <2>1 DEF PInv, Fetched, FailureLoses
  <2> QED
    BY <2>2, <2>3, <2>4 DEF Fetched
<1> QED
  BY <1>3, <1>4, <1>5, <1>6, <1>7 DEF PInv

\* The other steps of the applier, and the alarm handler.
LEMMA ApplierKeeps ==
    ASSUME PInv, Applier \/ HandleAlarm
    PROVE  PInv'
<1>1. CASE Apply
  BY <1>1, ApplyKeeps
<1>2. CASE ApplierReturns
  <2>0. /\ applier = "send" /\ errCh' = Append(errCh, applierErr) /\ applier' = "ended"
        /\ UNCHANGED <<main, result, stopClosed, locsClosed, applierInfoCh, fetching, applierErr, curr,
                       applied>>
    BY <1>2 DEF ApplierReturns
  <2>1. PTypes'
    BY <2>0 DEF PInv, PTypes, fetching
  <2>2. Closing' /\ InOrder'
    BY <2>0 DEF PInv, Closing, InOrder, next, fetching
  <2>3. Reports'
    BY <2>0 DEF PInv, PTypes, Reports
  <2>4. Fetched'
    BY <2>0 DEF PInv, Fetched, HandedOut, FetchedOnce, FailureLoses, Lost, fetching
  <2> QED
    BY <2>1, <2>2, <2>3, <2>4 DEF PInv
<1>3. CASE ReceiveInfo
  <2>0. /\ applierInfoCh \in Seq(Nat) /\ applierInfoCh # <<>> /\ applierInfoCh' = Tail(applierInfoCh)
        /\ applier = "select" /\ applier' \in {"ended", "apply", "select", "send"}
        /\ applierErr' = applierErr \/ applierErr' = "err"
        /\ curr' \in Nat /\ (applier' = "apply" => curr' = next)
        /\ UNCHANGED <<main, result, stopClosed, locsClosed, errCh, fetching, applied>>
    BY <1>3 DEF ReceiveInfo, PInv, PTypes, next
  <2>1. PTypes'
    BY <2>0 DEF PInv, PTypes, Errors, fetching
  <2>2. Closing' /\ InOrder'
    BY <2>0 DEF PInv, Closing, InOrder, next, fetching
  <2>3. Reports'
    BY <2>0 DEF PInv, Reports
  <2>4. Fetched'
    BY <2>0 DEF PInv, Fetched, HandedOut, FetchedOnce, FailureLoses, Lost, fetching
  <2> QED
    BY <2>1, <2>2, <2>3, <2>4 DEF PInv
<1>4. CASE ApplierStarts \/ ApplierStops \/ ApplyFails \/ MakeEtcdLean \/ RaiseAlarm \/ HandleAlarm
  <2>0. /\ UNCHANGED <<main, result, chans, fetching, curr, applied>>
        /\ applierErr' = applierErr \/ applierErr' = "err"
        /\ applier \notin {"send", "ended"}
        /\ applier' \in {"apply", "lean", "alarm", "disarm"} =>
              applier \in {"apply", "lean", "alarm", "disarm"}
    BY <1>4 DEF ApplierStarts, ApplierStops, ApplyFails, MakeEtcdLean, RaiseAlarm, HandleAlarm, Continue
  <2>1. PTypes'
    BY <2>0 DEF PInv, PTypes, Errors, fetching, chans
  <2>2. Closing' /\ InOrder'
    BY <2>0 DEF PInv, Closing, InOrder, next, fetching, chans
  <2>3. Reports'
    BY <2>0 DEF PInv, Reports, chans
  <2>4. Fetched'
    BY <2>0 DEF PInv, Fetched, HandedOut, FetchedOnce, FailureLoses, Lost, fetching
  <2> QED
    BY <2>1, <2>2, <2>3, <2>4 DEF PInv
<1> QED
  BY <1>1, <1>2, <1>3, <1>4 DEF Applier

\* The invariant is inductive.
LEMMA NextPInv == PInv /\ [RestoreNext]_restoreVars => PInv'
<1>1. CASE RestoreNext
  BY <1>1, MainKeeps, FetcherKeeps, ApplierKeeps DEF RestoreNext
<1>2. ASSUME PInv, UNCHANGED restoreVars PROVE PInv'
  BY <1>2 DEF PInv, PTypes, Closing, InOrder, Reports, Fetched, HandedOut, FetchedOnce,
              FailureLoses, Lost, next, restoreVars, chans, fetching, applying
<1> QED
  BY <1>1, <1>2

\* In whatever order the fetchers deliver and whoever writes to errCh first, Restore reports
\* success only when every delta snapshot was applied, in order, and no fetch failed.
THEOREM SuccessMeansComplete == RestoreSpec => []SuccessIsComplete
<1>1. PInv => SuccessIsComplete
  BY DEF PInv, InOrder, Reports, Fetched, FailureLoses, Lost, PTypes, SuccessIsComplete
<1> QED
  BY <1>1, InitPInv, NextPInv, PTL DEF RestoreSpec

\* Although wg.Add is called inside the goroutines, no fetcher sends on snapLocationsCh after
\* cleanup has closed it.
THEOREM ClosedIsUnused == RestoreSpec => []NoSendAfterClose
<1>1. PInv => NoSendAfterClose
  BY DEF PInv, Closing, NoSendAfterClose
<1> QED
  BY <1>1, InitPInv, NextPInv, PTL DEF RestoreSpec
=============================================================================
