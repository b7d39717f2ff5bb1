------------------------------ MODULE Download ------------------------------
(***************************************************************************)
(* One file download (zboxcore/sdk/downloadworker.go,                      *)
(* blockdownloadworker.go, allocation.go) with its buffers                 *)
(* (zboxutil/download_buffer.go) and its saved progress                    *)
(* (download_progress_storer.go).  The blobbers that agree on the file     *)
(* make a queue; read markers are sent; the first request goes to all of   *)
(* them and orders the queue by speed; later requests run in parallel,     *)
(* each to as many blobbers as the data needs, and turn to the rest of the *)
(* queue when one fails.  A block is written at its place, or, when the    *)
(* destination is a stream, handed to a goroutine that writes in order.    *)
(*                                                                         *)
(* A block here is what one request asks for (numBlocks chunks).  Blobbers *)
(* are external: they answer or fail.                                      *)
(***************************************************************************)
EXTENDS Integers, FiniteSets, Sequences, SequencesExt, FiniteSetsExt

CONSTANTS
  Blobbers,
  Thresh,       \* consensusThresh = DataShards
  NumBlocks,    \* bound: requests of the whole file, n when it is not resumed
  PartialLast,  \* the last request is for fewer chunks than the others
  Limit,        \* downloadWorkerCount + extraCount
  Modes,        \* {TRUE}: the file takes WriteAt, {FALSE}: a stream, or both
  Faults,       \* what may go wrong; see FaultKinds
  MaxFaults,    \* bound: how often
  MaxAttempts   \* bound: how many times the file is downloaded

\* A blobber does not know the file, refuses the read marker, its bit of the
\* mask is lost to a race, a block request fails, a write fails, the user
\* cancels, the program dies.
FaultKinds == {"meta", "marker", "race", "block", "write", "cancel", "crash"}

ASSUME SizesAssumption ==
  /\ IsFiniteSet(Blobbers)
  /\ Thresh \in 1 .. Cardinality(Blobbers)
  /\ NumBlocks \in Nat \ {0} /\ Limit \in Nat \ {0}
  /\ PartialLast \in BOOLEAN /\ Modes \subseteq BOOLEAN
ASSUME BoundsAssumption ==
  Faults \subseteq FaultKinds /\ MaxFaults \in Nat /\ MaxAttempts \in Nat \ {0}

VARIABLES
  writerAt,     \* the destination takes WriteAt
  pc, result,   \* where the download is and what it reported
  attempt,
  skip,         \* blobbers with SetSkip
  queue,        \* req.downloadQueue: the blobbers that have the file, in order
  mask,         \* req.downloadMask: first blobbers, then positions of the queue
  buffers,      \* blobbers that have a buffer in req.bufferMap
  start,        \* req.startBlock
  i,            \* the next request of the loop
  state,        \* per block: the goroutine of its request
  waiting,      \* its positions that wait for a chunk of the buffer
  asked,        \* its positions that were sent a request
  unasked,      \* its positions whose answer is awaited without a request
  rest,         \* its remainingMask
  failed,       \* failures in this round
  got,          \* blobbers whose shard it has
  egErr,        \* a request returned an error
  ctxDone,      \* the download was cancelled
  busy,         \* per blobber: chunks in use, as the buffer sees it
  holds,        \* per blobber: blocks whose data is in the buffer
  ready,        \* blocks given to the ordered writer
  order,        \* what it writes next
  stream,       \* what it wrote
  file,         \* the blocks of the file, by WriteAt
  bad,          \* blocks whose data was overwritten in a buffer
  updates, heap, next,  \* the progress storer
  saved,        \* LastWrittenBlock on disk
  faulty,       \* blobbers that failed in this attempt, "disk" if a write did, and
                \* "slow" if a stream waited too long for a chunk
  budget        \* how many faults may still happen

Blocks == 0 .. NumBlocks - 1
NoProgress == -1
Positions == 1 .. Cardinality(Blobbers)

reqVars == <<state, waiting, asked, unasked, rest, failed, got>>
bufVars == <<busy, holds, bad>>
outVars == <<ready, order, stream, file>>
storerVars == <<updates, heap, next, saved>>
queueVars == <<skip, queue, mask, buffers, start>>
vars == <<writerAt, pc, result, attempt, queueVars, i, reqVars, egErr, ctxDone, bufVars,
          outVars, storerVars, faulty, budget>>

TypeOK ==
  /\ writerAt \in Modes
  /\ pc \in {"meta", "markers", "loop", "closing", "done", "dead"}
  /\ result \in {"none", "completed", "error"}
  /\ attempt \in 1 .. MaxAttempts
  /\ skip \subseteq Blobbers /\ faulty \subseteq Blobbers \cup {"disk", "slow"} /\ buffers \subseteq Blobbers
  /\ queue \in Seq(Blobbers) /\ mask \subseteq Positions
  /\ start \in 0 .. NumBlocks /\ i \in 0 .. NumBlocks
  /\ state \in [Blocks -> {"none", "running", "returned"}]
  /\ \A j \in Blocks : /\ waiting[j] \cup asked[j] \cup unasked[j] \cup rest[j] \subseteq Positions
                       /\ got[j] \subseteq Blobbers
                       /\ failed[j] \in 0 .. Cardinality(Blobbers)
  /\ egErr \in BOOLEAN /\ ctxDone \in BOOLEAN
  /\ \A b \in Blobbers : busy[b] \subseteq Blocks /\ holds[b] \subseteq Blocks
  /\ ready \subseteq Blocks /\ order \in 0 .. NumBlocks /\ stream \in Seq(Blocks)
  /\ file \subseteq Blocks /\ bad \subseteq Blocks
  /\ updates \subseteq 1 .. NumBlocks /\ heap \subseteq 1 .. NumBlocks
  /\ next \in 0 .. NumBlocks + 1 /\ saved \in {NoProgress} \cup 0 .. NumBlocks
  /\ budget \in 0 .. MaxFaults

Fresh(x) == [j \in Blocks |-> x]

Init ==
  /\ writerAt \in Modes
  /\ pc = "meta" /\ result = "none" /\ attempt = 1
  /\ skip = {} /\ queue = <<>> /\ mask = {} /\ buffers = {} /\ start = 0 /\ i = 0
  /\ state = Fresh("none") /\ waiting = Fresh({}) /\ asked = Fresh({}) /\ unasked = Fresh({})
  /\ rest = Fresh({}) /\ failed = Fresh(0) /\ got = Fresh({})
  /\ egErr = FALSE /\ ctxDone = FALSE
  /\ busy = [b \in Blobbers |-> {}] /\ holds = [b \in Blobbers |-> {}] /\ bad = {}
  /\ ready = {} /\ order = 0 /\ stream = <<>> /\ file = {}
  /\ updates = {} /\ heap = {} /\ next = 0 /\ saved = NoProgress
  /\ faulty = {} /\ budget = MaxFaults

Spend(kind, n) ==
  /\ n > 0 => kind \in Faults
  /\ budget >= n
  /\ budget' = budget - n

-----------------------------------------------------------------------------
(* The file, its blobbers and the read markers.                            *)

\* errorCB: the progress is removed, once it is loaded (a cancelled download says that
\* it was aborted, not "context canceled").
ErrorCB(loaded) ==
  /\ pc' = "done" /\ result' = "error"
  /\ saved' = IF loaded THEN NoProgress ELSE saved

\* The blobbers used: one more than needed, or what there is.
CountThreshold == IF Thresh + 1 > Cardinality(Blobbers) THEN Thresh ELSE Thresh + 1

\* Every order of the blobbers of s: sort.Slice on equal times.
Orders(s) == {q \in [1 .. Cardinality(s) -> s] : ToSet(q) = s}

\* The queues that getFileMetaConsensus may make of the blobbers that know the file.
GetFileMetaConsensus(known) ==
  UNION {Orders(found) :
           found \in {s \in SUBSET known : Cardinality(s) = Min({Cardinality(known), CountThreshold})}}

\* processDownloadRequest: getFileMetaConsensus and calculateShardsParams, which
\* loads the saved progress.
GetFileRef ==
  /\ pc = "meta"
  /\ \E missing \in SUBSET Blobbers :
       /\ Spend("meta", Cardinality(missing))
       /\ faulty' = missing
       /\ LET known == Blobbers \ missing
              from == IF writerAt /\ saved # NoProgress /\ file # {} THEN saved ELSE 0
          IN  \/ /\ Cardinality(known) < Thresh \/ from >= NumBlocks
                 /\ ErrorCB(Cardinality(known) >= Thresh)
                 /\ UNCHANGED <<queueVars, next>>
              \/ /\ Cardinality(known) >= Thresh /\ from < NumBlocks
                 /\ queue' \in GetFileMetaConsensus(known)
                 /\ start' = from
                 /\ next' = from
                 /\ saved' = IF writerAt THEN from ELSE NoProgress
                 /\ pc' = "markers"
                 /\ UNCHANGED <<result, skip, mask, buffers>>
  /\ UNCHANGED <<writerAt, attempt, i, reqVars, egErr, ctxDone, bufVars, outVars,
                 updates, heap>>

\* submitReadMarker: a blobber that fails after the retries, or says that the read is not
\* paid for or not shared, is skipped from now on; one that is locked or busy is asked
\* again.  (The read counters, which a retry corrects, are not modelled.)
SubmitReadMarker(refused) == skip' = skip \cup refused

\* processReadMarker: submitReadMarker at the blobbers of the queue.  The goroutines
\* write successMask without a lock.
SubmitReadMarkers ==
  /\ pc = "markers"
  /\ \E refused, lost \in SUBSET ToSet(queue) :
       /\ refused \cap lost = {}
       /\ refused # {} => "marker" \in Faults
       /\ lost # {} => "race" \in Faults
       /\ budget' = budget - Cardinality(refused \cup lost) /\ budget' >= 0
       /\ SubmitReadMarker(refused)
       /\ LET active == ToSet(queue) \ (refused \cup lost)
          IN  \/ /\ Cardinality(active) < Thresh
                 /\ ErrorCB(TRUE)
                 /\ UNCHANGED <<mask, buffers, next, i>>
              \/ /\ Cardinality(active) >= Thresh
                 /\ mask' = 1 .. Cardinality(active)
                 /\ buffers' = active
                 /\ next' = next + 1
                 /\ i' = start
                 /\ pc' = "loop"
                 /\ UNCHANGED <<result, saved>>
  /\ UNCHANGED <<writerAt, attempt, queue, start, reqVars, egErr, ctxDone, bufVars, outVars,
                 updates, heap, faulty>>

-----------------------------------------------------------------------------
(* The buffers of a blobber: a channel of chunks for WriteAt, a bit mask    *)
(* indexed by the block number for a stream.                                *)

Size == Min({Limit, NumBlocks - start})
Key(j) == IF writerAt THEN j ELSE j % Size
ChunkFree(b, j) == IF writerAt THEN Cardinality(busy[b]) < Size ELSE Key(j) \notin busy[b]

\* ReleaseChunk(j) of the buffers of bs.
Release(bs, j) == busy' = [b \in Blobbers |-> IF b \in bs THEN busy[b] \ {Key(j)} ELSE busy[b]]

\* RequestChunk for position p of block j; after 45 seconds, or for a blobber
\* without a buffer, memory of its own is used.  A stream is slow then: when the
\* block is written, it releases the chunk of the block that it waited for.
Send(j, p) ==
  /\ p \in waiting[j]
  /\ waiting' = [waiting EXCEPT ![j] = @ \ {p}]
  /\ asked' = [asked EXCEPT ![j] = @ \cup {p}]
  /\ LET b == queue[p]
     IN  \/ /\ b \in buffers /\ ChunkFree(b, j)
            /\ busy' = [busy EXCEPT ![b] = @ \cup {Key(j)}]
            /\ holds' = [holds EXCEPT ![b] = @ \cup {j}]
            /\ UNCHANGED faulty
         \/ /\ b \notin buffers \/ ~ChunkFree(b, j)
            /\ faulty' = IF b \in buffers /\ ~writerAt THEN faulty \cup {"slow"} ELSE faulty
            /\ UNCHANGED <<busy, holds>>
  /\ UNCHANGED <<writerAt, pc, result, attempt, queueVars, i, state, unasked, rest, failed, got,
                 egErr, ctxDone, bad, outVars, storerVars, budget>>

-----------------------------------------------------------------------------
(* getBlocksDataFromBlobbers: the rounds of a request.                     *)

FirstOf(m, k) == {p \in m : Cardinality({q \in m : q < p}) < k}

\* downloadBlock for block j, at required positions of m, or at all of them when
\* it is the first request.  A skipped blobber fails at once, and no blobber
\* after it is sent a request, although its answer is awaited.  Its failure
\* carries position 0 of the queue.
Round(j, q, m, required) ==
  LET time == j = start
      chosen == IF time THEN m ELSE FirstOf(m, required)
      skipped == {p \in chosen : q[p] \in skip}
      sent == {p \in chosen : \A k \in skipped : p < k}
  IN  /\ waiting' = [waiting EXCEPT ![j] = sent]
      /\ unasked' = [unasked EXCEPT ![j] = chosen \ (sent \cup skipped)]
      /\ rest' = [rest EXCEPT ![j] = m \ chosen]
      /\ failed' = [failed EXCEPT ![j] = Cardinality(skipped)]
      /\ mask' = IF time THEN FirstOf(mask, Cardinality(mask) - Cardinality(skipped))
                 ELSE IF skipped # {} THEN mask \ {1} ELSE mask

\* The goroutine of block j returns an error.
RequestFails(j) ==
  /\ state' = [state EXCEPT ![j] = "returned"]
  /\ egErr' = TRUE

\* sort.Slice after the first request: those that answered are faster than the
\* preset time of the others.
Sorted == {q \in Orders(ToSet(queue)) :
             \A k, l \in DOMAIN q : k < l /\ q[l] \in got[start] => q[k] \in got[start]}

\* The loop of processDownload starts the request of block i, or passes over it
\* when the group's context is done.
StartRequest ==
  /\ pc = "loop"
  /\ i < NumBlocks
  /\ i = start + 1 => state[start] = "returned"
  /\ i' = i + 1
  /\ \E q \in IF i = start + 1 THEN Sorted ELSE {queue} :
       /\ queue' = q
       /\ \/ /\ egErr \/ ctxDone
             /\ UNCHANGED <<mask, reqVars, egErr>>
          \/ /\ ~egErr /\ ~ctxDone
             /\ Cardinality({j \in Blocks : state[j] = "running"}) < Limit
             /\ IF Cardinality(mask) < Thresh
                  THEN RequestFails(i) /\ UNCHANGED <<mask, waiting, unasked, rest, failed>>
                  ELSE /\ Round(i, q, mask, Thresh)
                       /\ state' = [state EXCEPT ![i] = "running"]
                       /\ UNCHANGED egErr
             /\ UNCHANGED <<asked, got>>
  /\ UNCHANGED <<writerAt, pc, result, attempt, skip, buffers, start, ctxDone, bufVars, outVars,
                 storerVars, faulty, budget>>

\* A blobber answers: its chunk of the buffer has the data of block j now, and no
\* longer that of a block that used the same chunk.  That block is spoilt, unless the
\* shard was one of parity that it does without.
Answer(j, p) ==
  /\ p \in asked[j]
  /\ asked' = [asked EXCEPT ![j] = @ \ {p}]
  /\ got' = [got EXCEPT ![j] = @ \cup {queue[p]}]
  /\ LET b == queue[p]
         over == {k \in holds[b] \ {j} : /\ ~writerAt /\ j \in holds[b]
                                         /\ Key(k) = Key(j) /\ b \in got[k]}
     IN  \E spoilt \in SUBSET over : bad' = bad \cup spoilt
  /\ UNCHANGED <<writerAt, pc, result, attempt, queueVars, i, state, waiting, unasked, rest,
                 failed, egErr, ctxDone, busy, holds, outVars, storerVars, faulty, budget>>

\* A variant whose failure is taken for an answer.
CountedAsAnswer(j, p) ==
  /\ p \in asked[j]
  /\ Spend("block", 1)
  /\ asked' = [asked EXCEPT ![j] = @ \ {p}]
  /\ UNCHANGED <<writerAt, pc, result, attempt, queueVars, i, state, waiting, unasked, rest, got,
                 failed, egErr, ctxDone, bufVars, outVars, storerVars, faulty>>

\* A variant that gives up without a result.
NoResult(j, p) ==
  /\ p \in asked[j]
  /\ Spend("block", 1)
  /\ asked' = [asked EXCEPT ![j] = @ \ {p}]
  /\ unasked' = [unasked EXCEPT ![j] = @ \cup {p}]
  /\ UNCHANGED <<writerAt, pc, result, attempt, queueVars, i, state, waiting, rest, got,
                 failed, egErr, ctxDone, bufVars, outVars, storerVars, faulty>>

\* The request fails after its retries: the blobber leaves the mask (in the first
\* request the last position does, as the sort will put it there), and the chunk
\* of the first block is released, whatever block failed.
AnswerFails(j, p) ==
  /\ p \in asked[j]
  /\ Spend("block", 1)
  /\ asked' = [asked EXCEPT ![j] = @ \ {p}]
  /\ failed' = [failed EXCEPT ![j] = @ + 1]
  /\ faulty' = faulty \cup {queue[p]}
  /\ mask' = mask \ {IF j = start THEN Max(mask) ELSE p}
  /\ Release({queue[p]} \cap buffers, start)
  /\ UNCHANGED <<writerAt, pc, result, attempt, skip, queue, buffers, start, i, state, waiting,
                 unasked, rest, got, egErr, ctxDone, holds, bad, outVars, storerVars>>

Answered(j) == state[j] = "running" /\ waiting[j] \cup asked[j] \cup unasked[j] = {}
Enough(j) == failed[j] = 0 \/ (j = start /\ Cardinality(mask) >= Thresh)

\* The next round, at as many of the remaining blobbers as failed.
NextRound(j) ==
  /\ Answered(j)
  /\ ~Enough(j)
  /\ \/ /\ failed[j] > Cardinality(rest[j])
        /\ RequestFails(j)
        /\ UNCHANGED <<waiting, unasked, rest, failed, mask>>
     \/ /\ failed[j] <= Cardinality(rest[j])
        /\ Round(j, queue, rest[j], failed[j])
        /\ UNCHANGED <<state, egErr>>
  /\ UNCHANGED <<writerAt, pc, result, attempt, skip, queue, buffers, start, i, asked, got,
                 ctxDone, bufVars, outVars, storerVars, faulty, budget>>

\* storer.Update gets the end of the block.
End(j) == IF j = NumBlocks - 1 /\ PartialLast THEN {} ELSE {j + 1}

\* decodeEC needs enough shards.
Decodable(j) == Cardinality(got[j]) >= Thresh

\* The rounds are over.  The block is written at its
\* place, or goes to the writer.
BlockDone(j) ==
  /\ Answered(j)
  /\ Enough(j)
  /\ \/ /\ ctxDone \/ ~Decodable(j)
        /\ RequestFails(j)
        /\ UNCHANGED <<busy, holds, file, ready, updates>>
     \/ /\ ~ctxDone /\ Decodable(j)
        /\ state' = [state EXCEPT ![j] = "returned"]
        /\ IF writerAt
             THEN /\ file' = file \cup {j}
                  /\ Release(buffers, j)
                  /\ holds' = [b \in Blobbers |-> holds[b] \ {j}]
                  /\ updates' = updates \cup End(j)
                  /\ UNCHANGED ready
             ELSE /\ ready' = ready \cup {j}
                  /\ UNCHANGED <<busy, holds, file, updates>>
        /\ UNCHANGED egErr
  /\ UNCHANGED <<writerAt, pc, result, attempt, queueVars, i, waiting, asked, unasked, rest,
                 failed, got, ctxDone, bad, order, stream, heap, next, saved, faulty, budget>>

\* WriteAt fails.
WriteAtFails(j) ==
  /\ Answered(j) /\ Enough(j) /\ writerAt /\ ~ctxDone
  /\ Spend("write", 1)
  /\ faulty' = faulty \cup {"disk"}
  /\ RequestFails(j)
  /\ UNCHANGED <<writerAt, pc, result, attempt, queueVars, i, waiting, asked, unasked, rest,
                 failed, got, ctxDone, bufVars, outVars, storerVars>>

-----------------------------------------------------------------------------
(* The goroutine that writes in order.                                     *)

Writing == ~writerAt /\ pc \in {"loop", "closing"} /\ order < NumBlocks

\* checkHash: the hash of what was written and of the last block is that of the file.
HashRight == bad = {} /\ stream = [k \in 1 .. order |-> k - 1]

\* A variant that never checks the hash.
WriteUnchecked ==
  /\ Writing
  /\ order \in ready
  /\ stream' = Append(stream, order)
  /\ ready' = ready \ {order}
  /\ order' = order + 1
  /\ Release(buffers, order)
  /\ holds' = [b \in Blobbers |-> holds[b] \ {order}]
  /\ UNCHANGED <<writerAt, pc, result, attempt, queueVars, i, reqVars, egErr, ctxDone, bad, file,
                 storerVars, faulty, budget>>

\* The next block is written; the last one only if the hash is right.
WriteNext ==
  /\ Writing
  /\ order \in ready
  /\ order = NumBlocks - 1 => HashRight
  /\ stream' = Append(stream, order)
  /\ ready' = ready \ {order}
  /\ order' = order + 1
  /\ Release(buffers, order)
  /\ holds' = [b \in Blobbers |-> holds[b] \ {order}]
  /\ UNCHANGED <<writerAt, pc, result, attempt, queueVars, i, reqVars, egErr, ctxDone, bad, file,
                 storerVars, faulty, budget>>

\* The hash is wrong: errorCB is called, and the writer returns without the last block.
HashFails ==
  /\ Writing
  /\ order \in ready
  /\ order = NumBlocks - 1 /\ ~HashRight
  /\ result' = "error"
  /\ order' = NumBlocks
  /\ UNCHANGED <<writerAt, pc, attempt, queueVars, i, reqVars, egErr, ctxDone, bufVars, ready,
                 stream, file, storerVars, faulty, budget>>

\* The channel is closed and does not have the block.
PassOver ==
  /\ Writing
  /\ pc = "closing"
  /\ order \notin ready
  /\ order' = order + 1
  /\ UNCHANGED <<writerAt, pc, result, attempt, queueVars, i, reqVars, egErr, ctxDone, bufVars,
                 ready, stream, file, storerVars, faulty, budget>>

\* The writer ends: its context is done, or a write fails, which is reported.
WriterEnds ==
  /\ Writing
  /\ \/ /\ ctxDone
        /\ UNCHANGED <<result, faulty, budget>>
     \/ /\ order \in ready
        /\ Spend("write", 1)
        /\ faulty' = faulty \cup {"disk"}
        /\ result' = "error"
  /\ order' = NumBlocks
  /\ UNCHANGED <<writerAt, pc, attempt, queueVars, i, reqVars, egErr, ctxDone, bufVars, ready,
                 stream, file, storerVars>>

-----------------------------------------------------------------------------
(* The end.                                                                *)

\* eg.Wait.
RequestsDone ==
  /\ pc = "loop"
  /\ i = NumBlocks
  /\ ~\E j \in Blocks : state[j] = "running"
  /\ \/ egErr /\ ErrorCB(TRUE)
     \/ ~egErr /\ pc' = "closing" /\ UNCHANGED <<result, saved>>
  /\ UNCHANGED <<writerAt, attempt, queueVars, i, reqVars, egErr, ctxDone, bufVars, outVars,
                 updates, heap, next, faulty, budget>>

\* The writer has ended too: Completed is called, unless an error was reported,
\* and the progress is removed.
Finish ==
  /\ pc = "closing"
  /\ writerAt \/ order = NumBlocks
  /\ pc' = "done"
  /\ result' = IF result = "error" THEN "error" ELSE "completed"
  /\ saved' = NoProgress
  /\ UNCHANGED <<writerAt, attempt, queueVars, i, reqVars, egErr, ctxDone, bufVars, outVars,
                 updates, heap, next, faulty, budget>>

-----------------------------------------------------------------------------
(* FsDownloadProgressStorer.                                               *)

Update(v) ==
  /\ v \in updates
  /\ pc \in {"loop", "closing"}
  /\ updates' = updates \ {v}
  /\ heap' = heap \cup {v}
  /\ UNCHANGED <<writerAt, pc, result, attempt, queueVars, i, reqVars, egErr, ctxDone, bufVars,
                 outVars, next, saved, faulty, budget>>

\* A variant that saves the highest end in the heap.
SaveHighest ==
  /\ pc \in {"loop", "closing"}
  /\ heap # {}
  /\ saved' = Max(heap)
  /\ next' = Max(heap) + 1
  /\ heap' = {}
  /\ UNCHANGED <<writerAt, pc, result, attempt, queueVars, i, reqVars, egErr, ctxDone, bufVars,
                 outVars, updates, faulty, budget>>

\* The ticker: the unbroken row of ends from next on.
SaveTick ==
  /\ pc \in {"loop", "closing"}
  /\ next \in heap
  /\ LET last == Max({v \in heap : next .. v \subseteq heap})
     IN  /\ saved' = last
         /\ next' = last + 1
         /\ heap' = heap \ (next .. last)
  /\ UNCHANGED <<writerAt, pc, result, attempt, queueVars, i, reqVars, egErr, ctxDone, bufVars,
                 outVars, updates, faulty, budget>>

-----------------------------------------------------------------------------
(* The user and the environment.                                           *)

CancelDownload ==
  /\ pc = "loop"
  /\ ~ctxDone
  /\ Spend("cancel", 1)
  /\ ctxDone' = TRUE
  /\ UNCHANGED <<writerAt, pc, result, attempt, queueVars, i, reqVars, egErr, bufVars, outVars,
                 storerVars, faulty>>

NoRequests ==
  /\ state' = Fresh("none") /\ waiting' = Fresh({}) /\ asked' = Fresh({}) /\ unasked' = Fresh({})
  /\ rest' = Fresh({}) /\ failed' = Fresh(0) /\ got' = Fresh({})

\* The goroutines end with the program.
Crash ==
  /\ pc \notin {"done", "dead"}
  /\ Spend("crash", 1)
  /\ pc' = "dead"
  /\ skip' = {}
  /\ NoRequests
  /\ UNCHANGED <<writerAt, result, attempt, queue, mask, buffers, start, i, egErr, ctxDone,
                 bufVars, outVars, storerVars, faulty>>

\* The file is downloaded again.  Only the file and the progress on disk are left
\* and, if the program did not die, what it knows of the blobbers.
Retry ==
  /\ pc \in {"done", "dead"}
  /\ result # "completed"
  /\ attempt < MaxAttempts
  /\ attempt' = attempt + 1
  /\ pc' = "meta" /\ result' = "none"
  /\ queue' = <<>> /\ mask' = {} /\ buffers' = {} /\ start' = 0 /\ i' = 0
  /\ NoRequests
  /\ egErr' = FALSE /\ ctxDone' = FALSE
  /\ busy' = [b \in Blobbers |-> {}] /\ holds' = [b \in Blobbers |-> {}] /\ bad' = {}
  /\ ready' = {} /\ order' = 0 /\ stream' = <<>>
  /\ updates' = {} /\ heap' = {} /\ next' = 0 /\ faulty' = {}
  /\ UNCHANGED <<writerAt, skip, file, saved, budget>>

Done ==
  /\ pc \in {"done", "dead"}
  /\ result = "completed" \/ attempt = MaxAttempts
  /\ UNCHANGED vars

-----------------------------------------------------------------------------
Step ==
  \/ GetFileRef \/ SubmitReadMarkers \/ StartRequest
  \/ \E j \in Blocks : \/ NextRound(j) \/ BlockDone(j)
                       \/ \E p \in Positions : Send(j, p) \/ Answer(j, p)
  \/ WriteNext \/ HashFails \/ PassOver
  \/ RequestsDone \/ Finish

Next ==
  \/ Step
  \/ \E j \in Blocks : WriteAtFails(j) \/ \E p \in Positions : AnswerFails(j, p)
  \/ WriterEnds
  \/ (\E v \in 1 .. NumBlocks : Update(v)) \/ SaveTick
  \/ CancelDownload \/ Crash \/ Retry
  \/ Done

Spec == Init /\ [][Next]_vars

\* Requests have time-outs, so they are answered or fail; the goroutines run.
FairSpec == Spec /\ WF_vars(Step)

-----------------------------------------------------------------------------
(* Properties.                                                             *)

\* A download that reports Completed and was not cancelled has every block at its
\* place, those of an earlier attempt included, and no block has another one's
\* data, whichever blobbers failed or were slow.
Complete ==
  (result = "completed" /\ ~ctxDone) =>
    /\ IF writerAt THEN file = Blocks ELSE stream = [k \in 1 .. NumBlocks |-> k - 1]
    /\ bad = {}

\* A later download starts after the saved block: everything before it is in the
\* file, whatever order the blocks came in and whenever the program died.
SavedWritten == saved > 0 => 0 .. saved - 1 \subseteq file

\* As long as no read marker was refused or lost, a download ends with an error only when
\* it was cancelled or could not write; when fewer than a threshold of blobbers know
\* the file, or an earlier attempt had written everything and saved so; or when
\* fewer than a threshold of the blobbers it reads from did not fail.  A stream also
\* fails when a block was spoilt in a buffer, which takes a blobber that failed or a
\* wait that was too long.
FailsBeyondParity ==
  (pc = "done" /\ result = "error" /\ skip = {} /\ buffers = ToSet(queue)) =>
    \/ ctxDone
    \/ "disk" \in faulty
    \/ ~writerAt /\ bad # {} /\ faulty # {}
    \/ IF queue = <<>>
         THEN \/ Cardinality(faulty \cap Blobbers) > Cardinality(Blobbers) - Thresh
              \/ attempt > 1 /\ file = Blocks
         ELSE Cardinality(faulty \cap ToSet(queue)) > Len(queue) - Thresh

\* processDownload returns when nobody cancels it and no blobber is skipped.
DownloadReturns == [](pc = "loop" /\ skip = {} => <>(pc \in {"done", "dead"} \/ ctxDone))
=============================================================================
