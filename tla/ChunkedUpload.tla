--------------------------- MODULE ChunkedUpload ---------------------------
(***************************************************************************)
(* One file upload (zboxcore/sdk/chunked_upload.go, chunked_upload_        *)
(* process.go, chunked_upload_blobber.go) with its saved progress          *)
(* (chunked_upload_progress_storer.go).  process reads the file in batches *)
(* of chunks and puts them into uploadChan; a pool of workers sends each   *)
(* batch to the blobbers of the mask; the last request of the file, which  *)
(* carries its hashes, is sent by process itself when the workers are      *)
(* done.  The index of the last batch of an unbroken row of uploaded ones  *)
(* is saved every two seconds, and a later upload of the same file skips   *)
(* what the saved index covers.                                            *)
(*                                                                         *)
(* The blobber is outside the repository: it keeps what it was sent under  *)
(* a connection, and refuses a last request whose hashes do not fit what   *)
(* it has.                                                                 *)
(***************************************************************************)
EXTENDS Integers, FiniteSets, Sequences, FiniteSetsExt

CONSTANTS
  Blobbers,      \* su.blobbers
  ParityShards,  \* allocationObj.ParityShards
  Thresh,        \* su.consensus.consensusThresh
  Workers,       \* su.uploadWorkers goroutines of uploadProcessor
  Main,          \* the goroutine of process
  Capacity,      \* of uploadChan
  Chunks,        \* bound: full chunks of the file
  ChunkNumber,   \* su.chunkNumber, chunks in a batch
  MaxBlocks,     \* MAX_BLOCKS, chunks in a request
  Kinds,         \* {TRUE}: a stream of unknown size, {FALSE}: a file, or both
  Faults,        \* what may go wrong; see FaultKinds
  MaxFaults,     \* bound: how many times something goes wrong
  MaxAttempts    \* bound: how many times the file is uploaded

\* A chunk cannot be read, a request cannot be built or is refused, its answer
\* is lost, a blobber has the file, answers 429 three times, two requests race
\* for one error variable, the user cancels, the program dies, the saved
\* progress gets too old.
FaultKinds == {"read", "build", "send", "lost", "duplicate", "throttle", "race",
               "cancel", "crash", "expire"}

ASSUME UploadersAssumption == Main \notin Workers
ASSUME SizesAssumption ==
  /\ IsFiniteSet(Blobbers) /\ IsFiniteSet(Workers)
  /\ ParityShards \in Nat /\ Thresh \in Nat /\ Capacity \in Nat \ {0}
  /\ Chunks \in Nat \ {0} /\ ChunkNumber \in Nat \ {0} /\ MaxBlocks \in Nat \ {0}
  /\ Kinds \subseteq BOOLEAN
ASSUME BoundsAssumption ==
  Faults \subseteq FaultKinds /\ MaxFaults \in Nat /\ MaxAttempts \in Nat \ {0}

VARIABLES
  stream,    \* the size of the file is not known beforehand
  pc,        \* where process is
  result,    \* what it returned
  attempt,   \* how many times the upload was started
  batch,     \* the batch it reads or puts into the channel
  built,     \* blobbers the requests of that batch were built for
  mask,      \* su.uploadMask
  dup,       \* su.addConsensus
  uploadChan, closed,
  uploadWG,
  worker,    \* the upload goroutines
  job,       \* the batch each goroutine uploads, as a sequence of 0 or 1
  sends,     \* its requests that are not answered
  consensus, \* how many blobbers it counts
  errCount,  \* its errors
  wgErrors,  \* one of them is reported
  ctxDone,   \* su.ctx is done
  progress,  \* su.progress.ChunkIndex, as loaded
  updates,   \* updateProgress goroutines not run
  queue,     \* fs.queue
  next,      \* fs.next
  saved,     \* the ChunkIndex on disk
  stored,    \* external: what each blobber has under the connection
  budget     \* how many faults may still happen

\* readChunks.  The reader of a stream learns that the file has ended from an
\* empty chunk, which has an index but no data.
LastIndex == IF stream THEN Chunks ELSE Chunks - 1
Batches == 0 .. LastIndex \div ChunkNumber
Final == LastIndex \div ChunkNumber
ChunkEndIndex(n) == IF n = Final THEN LastIndex ELSE (n + 1) * ChunkNumber - 1
Blocks(n) == IF n < Final THEN ChunkNumber ELSE Chunks - n * ChunkNumber

\* formBuilder.Build cuts a batch into requests of MaxBlocks chunks.  The last
\* request of the file is kept back; when it is the only one of its batch,
\* nothing of that batch goes to the workers.
LastBufferOnly(n) == n = Final /\ Blocks(n) <= MaxBlocks
Parts == {<<n, "body">> : n \in {k \in Batches : ~LastBufferOnly(k) /\ Blocks(k) > 0}}
           \cup {<<Final, "last">>}
NumBodies(n) == (Blocks(n) + MaxBlocks - 1) \div MaxBlocks
Requests(part) == IF part[2] = "last" THEN 1
                  ELSE NumBodies(part[1]) - (IF part[1] = Final THEN 1 ELSE 0)

Uploaders == Workers \cup {Main}
NoProgress == -2
Indices == -1 .. LastIndex
Jobs == [part : Parts, built : SUBSET Blobbers]

mainVars == <<pc, result, batch, built>>
poolVars == <<worker, job, sends, consensus, errCount, wgErrors>>
chanVars == <<uploadChan, closed, uploadWG>>
storerVars == <<updates, queue, next, saved>>
vars == <<stream, mainVars, attempt, mask, dup, chanVars, poolVars, ctxDone, progress,
          storerVars, stored, budget>>

TypeOK ==
  /\ stream \in Kinds
  /\ pc \in {"read", "send", "wait", "last", "done", "dead"}
  /\ result \in {"none", "nil", "error"}
  /\ attempt \in 1 .. MaxAttempts
  /\ batch \in Batches
  /\ built \subseteq Blobbers /\ mask \subseteq Blobbers
  /\ dup \in 0 .. MaxFaults
  /\ uploadChan \in Seq(Jobs) /\ Len(uploadChan) <= Capacity
  /\ closed \in BOOLEAN
  /\ uploadWG \in 0 .. Cardinality(Batches)
  /\ worker \in [Uploaders -> {"idle", "busy", "exited"}]
  /\ \A u \in Uploaders : job[u] \in {<<>>} \cup {<<j>> : j \in Jobs}
  /\ sends \in [Uploaders -> SUBSET Blobbers]
  /\ consensus \in [Uploaders -> 0 .. 2 * Cardinality(Blobbers)]
  /\ errCount \in [Uploaders -> 0 .. Cardinality(Blobbers)]
  /\ wgErrors \in [Uploaders -> BOOLEAN]
  /\ ctxDone \in BOOLEAN
  /\ progress \in Indices
  /\ updates \subseteq Indices /\ queue \subseteq Indices
  /\ next \in 0 .. LastIndex + 2 * ChunkNumber
  /\ saved \in Indices \cup {NoProgress}
  /\ stored \in [Blobbers -> SUBSET Parts]
  /\ budget \in 0 .. MaxFaults

\* CreateChunkedUpload without saved progress, which saves a new one.
Init ==
  /\ stream \in Kinds
  /\ pc = "read" /\ result = "none" /\ attempt = 1
  /\ batch = 0 /\ built = {} /\ mask = Blobbers /\ dup = 0
  /\ uploadChan = <<>> /\ closed = FALSE /\ uploadWG = 0
  /\ worker = [u \in Uploaders |-> "idle"] /\ job = [u \in Uploaders |-> <<>>]
  /\ sends = [u \in Uploaders |-> {}] /\ consensus = [u \in Uploaders |-> 0]
  /\ errCount = [u \in Uploaders |-> 0] /\ wgErrors = [u \in Uploaders |-> FALSE]
  /\ ctxDone = FALSE /\ progress = -1
  /\ updates = {} /\ queue = {} /\ next = ChunkNumber - 1 /\ saved = -1
  /\ stored = [b \in Blobbers |-> {}]
  /\ budget = MaxFaults

\* The environment spends one of its faults.
Fault(kind) ==
  /\ kind \in Faults
  /\ budget > 0
  /\ budget' = budget - 1

-----------------------------------------------------------------------------
(* process and processUpload.                                              *)

\* process returns: its deferred ctxCncl ends the context.
Return(r) ==
  /\ pc' = "done"
  /\ result' = r
  /\ ctxDone' = TRUE

ReadFailed ==
  /\ pc = "read"
  /\ Fault("read")
  /\ Return("error")
  /\ UNCHANGED <<stream, attempt, batch, built, mask, dup, chanVars, poolVars,
                 progress,
                 storerVars, stored>>

\* The saved progress covers the batch: it is only hashed.
SkipBatch ==
  /\ pc = "read"
  /\ ChunkEndIndex(batch) <= progress
  /\ \/ batch = Final /\ Return("nil") /\ UNCHANGED batch
     \/ batch < Final /\ batch' = batch + 1 /\ UNCHANGED <<pc, result, ctxDone>>
  /\ UNCHANGED <<stream, attempt, built, mask, dup, chanVars, poolVars, progress,
                 storerVars, stored, budget>>

\* The requests of the batch are built for the blobbers of the mask.  Errors of
\* fewer than ParityShards blobbers are dropped, and so are those requests.
BuildBatch ==
  /\ pc = "read"
  /\ ChunkEndIndex(batch) > progress
  /\ \/ /\ Blocks(batch) = 0
        /\ Return("error")
        /\ UNCHANGED <<built, saved, budget>>
     \/ /\ Blocks(batch) > 0
        /\ built' = mask /\ pc' = "send"
        /\ UNCHANGED <<result, ctxDone, saved, budget>>
     \/ /\ Blocks(batch) > 0
        /\ Fault("build")
        /\ \E failed \in SUBSET mask \ {{}} :
             \/ /\ Cardinality(failed) > ParityShards - 1
                /\ saved' = NoProgress
                /\ Return("error")
                /\ UNCHANGED built
             \/ /\ Cardinality(failed) <= ParityShards - 1
                /\ built' = mask \ failed /\ pc' = "send"
                /\ UNCHANGED <<saved, result, ctxDone>>
  /\ UNCHANGED <<stream, attempt, batch, mask, dup, chanVars, poolVars, progress,
                 updates, queue, next, stored>>

\* Where process goes with the batch in the channel.
AfterSend ==
  IF batch = Final
    THEN pc' = "wait" /\ closed' = TRUE /\ UNCHANGED batch
    ELSE pc' = "read" /\ batch' = batch + 1 /\ UNCHANGED closed

\* The select on the context and the channel; when both are ready, either.
SendBatch ==
  /\ pc = "send"
  /\ \/ /\ LastBufferOnly(batch)
        /\ AfterSend
        /\ UNCHANGED <<uploadWG, uploadChan, result, ctxDone>>
     \/ /\ ~LastBufferOnly(batch)
        /\ ctxDone
        /\ uploadWG' = uploadWG + 1
        /\ Return("error")
        /\ UNCHANGED <<uploadChan, closed, batch>>
     \/ /\ ~LastBufferOnly(batch)
        /\ Len(uploadChan) < Capacity
        /\ uploadWG' = uploadWG + 1
        /\ uploadChan' = Append(uploadChan, [part |-> <<batch, "body">>, built |-> built])
        /\ AfterSend
        /\ UNCHANGED <<result, ctxDone>>
  /\ UNCHANGED <<stream, attempt, built, mask, dup, poolVars, progress, storerVars,
                 stored, budget>>

\* uploadToBlobbers with a job: one request for each blobber of the mask.
StartUpload(u, j) ==
  /\ worker' = [worker EXCEPT ![u] = "busy"]
  /\ job' = [job EXCEPT ![u] = <<j>>]
  /\ sends' = [sends EXCEPT ![u] = mask]
  /\ consensus' = [consensus EXCEPT ![u] = 0]
  /\ errCount' = [errCount EXCEPT ![u] = 0]
  /\ wgErrors' = [wgErrors EXCEPT ![u] = FALSE]

\* A variant that does not wait for the workers.
NoWait ==
  /\ pc = "wait"
  /\ \/ ctxDone /\ Return("error") /\ UNCHANGED poolVars
     \/ /\ ~ctxDone
        /\ pc' = "last"
        /\ StartUpload(Main, [part |-> <<Final, "last">>, built |-> built])
        /\ UNCHANGED <<result, ctxDone>>
  /\ UNCHANGED <<stream, attempt, batch, built, mask, dup, chanVars, progress,
                 storerVars, stored, budget>>

\* uploadWG.Wait returns: the last request.
WaitDone ==
  /\ pc = "wait"
  /\ uploadWG = 0
  /\ \/ /\ ctxDone
        /\ Return("error")
        /\ UNCHANGED poolVars
     \/ /\ ~ctxDone
        /\ pc' = "last"
        /\ StartUpload(Main, [part |-> <<Final, "last">>, built |-> built])
        /\ UNCHANGED <<result, ctxDone>>
  /\ UNCHANGED <<stream, attempt, batch, built, mask, dup, chanVars, progress,
                 storerVars, stored, budget>>

-----------------------------------------------------------------------------
(* uploadProcessor and uploadToBlobbers.                                   *)

\* A worker takes a batch; with the context done it only counts it as done.
TakeBatch(w) ==
  /\ worker[w] = "idle"
  /\ uploadChan # <<>>
  /\ uploadChan' = Tail(uploadChan)
  /\ IF ctxDone
       THEN uploadWG' = uploadWG - 1 /\ UNCHANGED poolVars
       ELSE StartUpload(w, Head(uploadChan)) /\ UNCHANGED uploadWG
  /\ UNCHANGED <<stream, mainVars, attempt, mask, dup, closed, ctxDone, progress,
                 storerVars, stored, budget>>

\* A worker ends with the context, also when there are batches in the channel,
\* or with the closed channel.
WorkerExits(w) ==
  /\ worker[w] = "idle"
  /\ ctxDone \/ (closed /\ uploadChan = <<>>)
  /\ worker' = [worker EXCEPT ![w] = "exited"]
  /\ UNCHANGED <<stream, mainVars, attempt, mask, dup, chanVars, job, sends,
                 consensus,
                 errCount, wgErrors, ctxDone, progress, storerVars, stored, budget>>

\* External: the blobber keeps a request, and checks the hashes of the last one.
Accepts(b, part) == part[2] = "last" => Parts \ {part} \subseteq stored[b]

\* consensus.Done: a blobber no request was built for is counted at once, in the
\* last batch twice.
Votes(b, j) == IF b \notin j.built /\ j.part[1] = Final THEN 2 ELSE 1

CountDone(u, n) ==
  /\ consensus' = [consensus EXCEPT ![u] = @ + n]
  /\ UNCHANGED <<mask, errCount, wgErrors, dup>>

\* An error drops the blobber from the mask; it is reported from the
\* ParityShards-th on.
CountError(u, b) ==
  /\ mask' = mask \ {b}
  /\ errCount' = [errCount EXCEPT ![u] = @ + 1]
  /\ wgErrors' = [wgErrors EXCEPT ![u] = @ \/ errCount[u] + 1 > ParityShards - 1]
  /\ UNCHANGED <<consensus, dup>>

CountDuplicate(u, b) ==
  /\ mask' = mask \ {b}
  /\ dup' = dup + 1
  /\ wgErrors' = [wgErrors EXCEPT ![u] = @ \/ dup + 1 >= Thresh]
  /\ UNCHANGED <<consensus, errCount>>

\* sendUploadRequest at one blobber.  Three answers 429 leave no error behind,
\* and the error of one of several requests may be overwritten by another.
SendUploadRequest(u, b) ==
  /\ b \in sends[u]
  /\ sends' = [sends EXCEPT ![u] = @ \ {b}]
  /\ LET j == job[u][1]
         keep == stored' = [stored EXCEPT ![b] = @ \cup {j.part}]
     IN  \/ /\ b \notin j.built
            /\ CountDone(u, Votes(b, j)) /\ UNCHANGED <<stored, budget>>
         \/ /\ b \in j.built /\ Accepts(b, j.part)
            /\ keep
            /\ \/ CountDone(u, Votes(b, j)) /\ UNCHANGED budget
               \/ CountError(u, b) /\ Fault("lost")
         \/ /\ b \in j.built
            /\ UNCHANGED stored
            /\ \/ CountError(u, b) /\ ~Accepts(b, j.part) /\ UNCHANGED budget
               \/ CountError(u, b) /\ Fault("send")
               \/ CountDuplicate(u, b) /\ Fault("duplicate")
               \/ CountDone(u, Votes(b, j)) /\ Fault("throttle")
               \/ CountDone(u, Votes(b, j)) /\ Requests(j.part) > 1 /\ Fault("race")
  /\ UNCHANGED <<stream, mainVars, attempt, chanVars, worker, job, ctxDone,
                 progress, storerVars>>

\* wg.Wait in uploadToBlobbers: a reported error or too few blobbers end the
\* context; otherwise the progress is updated.
UploadFailed(u) == wgErrors[u] \/ consensus[u] < Thresh

FreeUploader(u) ==
  /\ worker' = [worker EXCEPT ![u] = "idle"]
  /\ job' = [job EXCEPT ![u] = <<>>]
  /\ consensus' = [consensus EXCEPT ![u] = 0]
  /\ errCount' = [errCount EXCEPT ![u] = 0]
  /\ wgErrors' = [wgErrors EXCEPT ![u] = FALSE]
  /\ UNCHANGED sends

NoteProgress(u) ==
  updates' = IF UploadFailed(u) THEN updates
             ELSE updates \cup {ChunkEndIndex(job[u][1].part[1])}

\* A variant whose failed upload counts itself as done, too.
DoneTwice(w) ==
  /\ w \in Workers
  /\ worker[w] = "busy" /\ sends[w] = {}
  /\ FreeUploader(w)
  /\ NoteProgress(w)
  /\ ctxDone' = (ctxDone \/ UploadFailed(w))
  /\ uploadWG' = uploadWG - (IF UploadFailed(w) THEN 2 ELSE 1)
  /\ UNCHANGED <<stream, mainVars, attempt, mask, dup, uploadChan, closed, progress,
                 queue, next, saved, stored, budget>>

\* A variant that forgets Done where a blobber had an error.
DoneWithoutErrors(w) ==
  /\ w \in Workers
  /\ worker[w] = "busy" /\ sends[w] = {}
  /\ FreeUploader(w)
  /\ NoteProgress(w)
  /\ ctxDone' = (ctxDone \/ UploadFailed(w))
  /\ uploadWG' = IF errCount[w] = 0 THEN uploadWG - 1 ELSE uploadWG
  /\ UNCHANGED <<stream, mainVars, attempt, mask, dup, uploadChan, closed, progress,
                 queue, next, saved, stored, budget>>

\* A worker is done with a batch.
BatchUploaded(w) ==
  /\ w \in Workers
  /\ worker[w] = "busy" /\ sends[w] = {}
  /\ FreeUploader(w)
  /\ NoteProgress(w)
  /\ ctxDone' = (ctxDone \/ UploadFailed(w))
  /\ uploadWG' = uploadWG - 1
  /\ UNCHANGED <<stream, mainVars, attempt, mask, dup, uploadChan, closed, progress,
                 queue, next, saved, stored, budget>>

\* A variant that drops the error of the last request.
LastIgnored ==
  /\ pc = "last"
  /\ sends[Main] = {}
  /\ FreeUploader(Main)
  /\ NoteProgress(Main)
  /\ Return("nil")
  /\ UNCHANGED <<stream, attempt, batch, built, mask, dup, chanVars, progress,
                 queue,
                 next, saved, stored, budget>>

\* process returns what the upload of the last request returned.
LastUploaded ==
  /\ pc = "last"
  /\ sends[Main] = {}
  /\ FreeUploader(Main)
  /\ NoteProgress(Main)
  /\ Return(IF UploadFailed(Main) THEN "error" ELSE "nil")
  /\ UNCHANGED <<stream, attempt, batch, built, mask, dup, chanVars, progress,
                 queue,
                 next, saved, stored, budget>>

-----------------------------------------------------------------------------
(* The progress storer.                                                    *)

UpdateProgress(i) ==
  /\ i \in updates
  /\ pc # "dead"
  /\ updates' = updates \ {i}
  /\ queue' = IF saved = NoProgress THEN queue ELSE queue \cup {i}
  /\ UNCHANGED <<stream, mainVars, attempt, mask, dup, chanVars, poolVars, ctxDone,
                 progress, next, saved, stored, budget>>

\* The batches from next on that are in the queue without a gap.
Row == {i \in queue : /\ i >= next /\ (i - next) % ChunkNumber = 0
                      /\ \A k \in next .. i : (k - next) % ChunkNumber = 0 => k \in queue}

\* A variant that saves the highest index whatever is missing below it.
SaveHighest ==
  /\ pc # "dead"
  /\ saved # NoProgress
  /\ queue # {}
  /\ saved' = Max(queue)
  /\ queue' = {}
  /\ next' = Max(queue) + ChunkNumber
  /\ UNCHANGED <<stream, mainVars, attempt, mask, dup, chanVars, poolVars, ctxDone,
                 progress, updates, stored, budget>>

\* The ticker pops them when next is the least of the queue.
SaveTick ==
  /\ pc # "dead"
  /\ saved # NoProgress
  /\ next \in queue /\ \A i \in queue : next <= i
  /\ saved' = Max(Row)
  /\ queue' = queue \ Row
  /\ next' = Max(Row) + ChunkNumber
  /\ UNCHANGED <<stream, mainVars, attempt, mask, dup, chanVars, poolVars, ctxDone,
                 progress, updates, stored, budget>>

-----------------------------------------------------------------------------
(* The user and the environment.                                           *)

\* CancelUpload, PauseUpload, or another operation of the batch failing.
Cancel ==
  /\ pc \notin {"done", "dead"}
  /\ ~ctxDone
  /\ Fault("cancel")
  /\ ctxDone' = TRUE
  /\ UNCHANGED <<stream, mainVars, attempt, mask, dup, chanVars, poolVars, progress,
                 storerVars, stored>>

Crash ==
  /\ pc \notin {"done", "dead"}
  /\ Fault("crash")
  /\ pc' = "dead"
  /\ sends' = [u \in Uploaders |-> {}]
  /\ worker' = [u \in Uploaders |-> "exited"]
  /\ UNCHANGED <<stream, result, attempt, batch, built, mask, dup, chanVars,
                 job, consensus,
                 errCount, wgErrors, ctxDone, progress, storerVars, stored>>

\* The saved progress is older than 25 minutes.
Expire ==
  /\ pc \in {"done", "dead"}
  /\ saved # NoProgress
  /\ Fault("expire")
  /\ saved' = NoProgress
  /\ UNCHANGED <<stream, mainVars, attempt, mask, dup, chanVars, poolVars, ctxDone,
                 progress, updates, queue, next, stored>>

\* The user uploads the file again, CreateChunkedUpload with the progress that
\* was loaded: under the same connection, or, without one, under a new one.
Resume ==
  /\ pc = "dead" \/ (pc = "done" /\ result = "error")
  /\ \A u \in Uploaders : worker[u] # "busy"
  /\ attempt < MaxAttempts
  /\ attempt' = attempt + 1
  /\ \/ saved # NoProgress /\ progress' = saved /\ UNCHANGED stored
     \/ saved = NoProgress /\ progress' = -1 /\ stored' = [b \in Blobbers |-> {}]
  /\ pc' = "read" /\ result' = "none"
  /\ batch' = 0 /\ built' = {} /\ mask' = Blobbers /\ dup' = 0
  /\ uploadChan' = <<>> /\ closed' = FALSE /\ uploadWG' = 0
  /\ worker' = [u \in Uploaders |-> "idle"] /\ job' = [u \in Uploaders |-> <<>>]
  /\ sends' = [u \in Uploaders |-> {}] /\ consensus' = [u \in Uploaders |-> 0]
  /\ errCount' = [u \in Uploaders |-> 0] /\ wgErrors' = [u \in Uploaders |-> FALSE]
  /\ ctxDone' = FALSE
  /\ updates' = {} /\ queue' = {} /\ next' = progress' + ChunkNumber /\ saved' = progress'
  /\ UNCHANGED <<stream, budget>>

ProcessSteps == SkipBatch \/ BuildBatch \/ SendBatch \/ WaitDone \/ LastUploaded

UploaderSteps(u) ==
  \/ u \in Workers /\ (TakeBatch(u) \/ WorkerExits(u))
  \/ BatchUploaded(u)
  \/ \E b \in Blobbers : SendUploadRequest(u, b)

Next ==
  \/ ProcessSteps \/ ReadFailed
  \/ \E u \in Uploaders : UploaderSteps(u)
  \/ \E i \in Indices : UpdateProgress(i)
  \/ SaveTick \/ Cancel \/ Crash \/ Expire \/ Resume

Spec == Init /\ [][Next]_vars

\* The goroutines run and requests are answered or time out.
Fairness ==
  /\ WF_vars(ProcessSteps)
  /\ \A u \in Uploaders : WF_vars(UploaderSteps(u))

FairSpec == Spec /\ Fairness

-----------------------------------------------------------------------------
(* What an upload promises.                                                *)

\* The blobbers of the mask that have the whole file.
Complete == {b \in mask : stored[b] = Parts}

\* An upload that returns without an error has left the whole file on a
\* threshold of the blobbers it goes on with, whichever batches were skipped,
\* dropped for single blobbers or uploaded out of order.
UploadComplete == result = "nil" => Cardinality(Complete) >= Thresh

\* Whatever the order the workers finish in, the progress on disk covers only
\* batches that a threshold of blobbers has.
SavedUploaded ==
  \A p \in Parts : ChunkEndIndex(p[1]) <= saved =>
    Cardinality({b \in Blobbers : p \in stored[b]}) >= Thresh

\* process fails only when something went wrong: the order in which workers,
\* channel and last request run is never a reason.
FailsOnlyOnFault == result = "error" => budget < MaxFaults

\* The context has ended, by a cancel or by a batch that failed, with a batch
\* still in the channel when process waits for uploadWG: a worker that sees the
\* context first ends, and nobody calls Done for that batch.
Stranded == pc = "wait" /\ ctxDone /\ uploadChan # <<>>

\* process returns, also when requests fail or the upload is cancelled: it gets
\* past the full uploadChan, and past uploadWG.Wait unless it is stranded there.
UploadReturns ==
  [](pc \in {"read", "send", "wait", "last"} => <>(pc \in {"done", "dead"} \/ Stranded))
=============================================================================
