------------------------ MODULE ChunkedUploadProofs ------------------------
(***************************************************************************)
(* What an upload promises for every number of blobbers, workers, chunks,  *)
(* faults and attempts: the saved progress covers only what a threshold of *)
(* blobbers has, an upload that succeeds has left the whole file on a      *)
(* threshold of them, and none fails unless something went wrong.          *)
(***************************************************************************)
EXTENDS ChunkedUpload, FiniteSetTheorems, NaturalsInduction, WellFoundedInduction, TLAPS

\* Every request that is counted as done was stored: no blobber is left out when the
\* requests are built, and no answer is taken for another.
CountsAreHonest == Faults \cap {"build", "throttle", "race"} = {}

\* The last batch of the file is one request, whether or not an empty chunk ends it.
\* (Otherwise its other requests are noted as the end of the file before the last one
\* is sent.)
OneRequestEnd ==
  \A last \in {Chunks - 1, Chunks} : Chunks - (last \div ChunkNumber) * ChunkNumber <= MaxBlocks

-----------------------------------------------------------------------------
(* Types.                                                                  *)

\* TypeOK by parts: process, the channel, the pool, the storer and the blobbers.
MainType ==
  /\ stream \in Kinds
  /\ pc \in {"read", "send", "wait", "last", "done", "dead"}
  /\ result \in {"none", "nil", "error"}
  /\ attempt \in 1 .. MaxAttempts
  /\ batch \in Batches
  /\ built \subseteq Blobbers /\ mask \subseteq Blobbers
  /\ closed \in BOOLEAN /\ ctxDone \in BOOLEAN

ChanType ==
  /\ uploadChan \in Seq(Jobs) /\ Len(uploadChan) <= Capacity
  /\ uploadWG \in 0 .. Cardinality(Batches)

PoolType ==
  /\ worker \in [Uploaders -> {"idle", "busy", "exited"}]
  /\ \A u \in Uploaders : job[u] \in {<<>>} \cup {<<j>> : j \in Jobs}
  /\ DOMAIN job = Uploaders
  /\ sends \in [Uploaders -> SUBSET Blobbers]
  /\ consensus \in [Uploaders -> 0 .. 2 * Cardinality(Blobbers)]
  /\ errCount \in [Uploaders -> 0 .. Cardinality(Blobbers)]
  /\ wgErrors \in [Uploaders -> BOOLEAN]

StoreType ==
  /\ progress \in Indices
  /\ updates \subseteq Indices /\ queue \subseteq Indices
  /\ next \in 0 .. LastIndex + 2 * ChunkNumber
  /\ saved \in Indices \cup {NoProgress}
  /\ stored \in [Blobbers -> SUBSET Parts]

Busy == {w \in Workers : worker[w] = "busy"}

\* Add was called for every batch in the channel and with a worker, and at most once
\* for each batch.
GroupInv ==
  /\ Len(uploadChan) + Cardinality(Busy) <= uploadWG
  /\ uploadWG <= batch + (IF pc \in {"read", "send"} THEN 0 ELSE 1)

\* A request is counted once, as done or as an error, and one that is out belongs to
\* an uploader that is busy with a batch.
CountedOnce(u) ==
  /\ sends[u] # {} => worker[u] = "busy"
  /\ worker[u] = "busy" => \E j \in Jobs : job[u] = <<j>>
  /\ consensus[u] + 2 * Cardinality(sends[u]) <= 2 * Cardinality(Blobbers)
  /\ errCount[u] + Cardinality(sends[u]) <= Cardinality(Blobbers)

PoolInv == PoolType /\ (\A u \in Uploaders : CountedOnce(u)) /\ (pc = "last" => worker[Main] = "busy")

\* The faults that are left; each one makes at most one duplicate.
BudgetType == budget \in 0 .. MaxFaults /\ dup \in 0 .. MaxFaults /\ dup + budget <= MaxFaults

Typed == MainType /\ ChanType /\ GroupInv /\ BudgetType /\ PoolInv /\ StoreType

-----------------------------------------------------------------------------
(* What the blobbers have.                                                 *)

Last == <<Final, "last">>
Held(p) == Cardinality({b \in Blobbers : p \in stored[b]}) >= Thresh

\* A blobber that was sent the last request accepted it with all others.
StoredInv == \A b \in Blobbers : Last \in stored[b] => stored[b] = Parts

\* Requests are built for the blobbers that are still in the mask.
ChanBuilt == \A k \in 1 .. Len(uploadChan) : mask \subseteq uploadChan[k].built
PoolBuilt == \A u \in Uploaders : worker[u] = "busy" => sends[u] \subseteq job[u][1].built

BuiltInv ==
  /\ pc \in {"send", "wait", "last"} => mask \subseteq built
  /\ ChanBuilt /\ PoolBuilt

\* The blobbers that answered an uploader and have its part.
Answered(u) == {b \in Blobbers \ sends[u] : job[u][1].part \in stored[b]}

\* An uploader counts only blobbers that have its requests.
CountInv == \A u \in Uploaders : worker[u] = "busy" => consensus[u] <= Cardinality(Answered(u))

\* The progress lies on the ends of full batches, and what it covers is uploaded.
OnGrid(v) == \E m \in Int : v = m * ChunkNumber - 1

ProgressInv ==
  /\ saved # NoProgress => OnGrid(saved) /\ next = saved + ChunkNumber
  /\ \A v \in updates \cup queue : \A p \in Parts : ChunkEndIndex(p[1]) = v => Held(p)
  /\ \A p \in Parts : ChunkEndIndex(p[1]) <= progress => Held(p)

\* The last request is sent when everything else is done, by an uploader that counts
\* the blobbers of the mask.
MainBusy == worker[Main] = "busy" => pc = "last"
LastSent ==
  /\ job[Main][1].part = Last /\ sends[Main] \subseteq mask
  /\ consensus[Main] <= Cardinality({b \in mask \ sends[Main] : Last \in stored[b]})

LastInv == MainBusy /\ (pc = "last" => uploadChan = <<>> /\ Busy = {} /\ LastSent)

\* With everything covered by the progress nothing is sent.
CoveredInv ==
  progress >= LastIndex =>
    /\ pc \notin {"send", "wait", "last"} /\ uploadChan = <<>> /\ Busy = {} /\ mask = Blobbers

DoneInv ==
  result = "nil" => pc = "done" /\ uploadChan = <<>> /\ Busy = {} /\ UploadComplete

UploadInv ==
  /\ StoredInv /\ BuiltInv /\ CountInv /\ ProgressInv /\ SavedUploaded
  /\ LastInv /\ CoveredInv /\ DoneInv

-----------------------------------------------------------------------------
(* Batches and their ends.                                                 *)

\* A product grows with its first factor.
LEMMA TimesMonotone ==
  ASSUME NEW a \in Int, NEW b \in Int, NEW c \in Nat, a <= b
  PROVE  a * c \in Int /\ b * c \in Int /\ a * c <= b * c
<1>1. PICK d \in Nat : b = a + d
  <2>1. b - a \in Nat /\ b = a + (b - a)
    OBVIOUS
  <2> QED
    BY <2>1
<1>2. b * c = a * c + d * c
  BY <1>1
<1>3. d * c \in Nat /\ a * c \in Int /\ b * c \in Int
  BY <1>1
<1> QED
  BY <1>2, <1>3

\* Quotient of a division, as the number of full batches below an index.
LEMMA Quotient ==
  ASSUME NEW a \in Nat, NEW c \in Nat \ {0}
  PROVE  /\ a \div c \in Nat
         /\ (a \div c) * c <= a /\ a < (a \div c + 1) * c
OBVIOUS

\* The numbers of the batches and of their last chunks: they grow together, and
\* every batch but the last ends with a full one.
LEMMA Ends ==
  ASSUME stream \in BOOLEAN
  PROVE  /\ LastIndex \in Nat /\ Final \in Nat /\ Batches = 0 .. Final
         /\ ChunkEndIndex(Final) = LastIndex
         /\ \A n \in Batches :
              /\ ChunkEndIndex(n) \in 0 .. LastIndex
              /\ n # Final => ChunkEndIndex(n) = (n + 1) * ChunkNumber - 1
         /\ \A n, m \in Batches : n < m => ChunkEndIndex(n) < ChunkEndIndex(m)
<1>0. Chunks \in Nat \ {0} /\ ChunkNumber \in Nat \ {0}
  BY SizesAssumption
<1>1. LastIndex \in Nat
  BY <1>0 DEF LastIndex
<1>2. Final \in Nat /\ Final * ChunkNumber <= LastIndex /\ LastIndex < (Final + 1) * ChunkNumber
  BY <1>0, <1>1, Quotient DEF Final
<1>3. Batches = 0 .. Final /\ ChunkEndIndex(Final) = LastIndex
  BY DEF Batches, Final, ChunkEndIndex
<1>4. ASSUME NEW n \in 0 .. Final, n # Final
      PROVE  /\ ChunkEndIndex(n) = (n + 1) * ChunkNumber - 1 /\ ChunkEndIndex(n) \in 0 .. LastIndex
             /\ ChunkEndIndex(n) < LastIndex
  <2>1. ChunkEndIndex(n) = (n + 1) * ChunkNumber - 1
    BY <1>4 DEF ChunkEndIndex
  <2>2. n + 1 \in Int /\ n + 1 <= Final /\ 1 <= n + 1
    BY <1>2, <1>4
  <2>3. (n + 1) * ChunkNumber <= Final * ChunkNumber /\ (n + 1) * ChunkNumber \in Int
    BY <2>2, <1>0, <1>2, TimesMonotone
  <2>4. 1 * ChunkNumber <= (n + 1) * ChunkNumber
    BY <2>2, <1>0, TimesMonotone
  <2> QED
    BY <2>1, <2>3, <2>4, <1>0, <1>1, <1>2
<1>5. ASSUME NEW n \in 0 .. Final, NEW m \in 0 .. Final, n < m
      PROVE  ChunkEndIndex(n) < ChunkEndIndex(m)
  <2>1. n # Final
    BY <1>2, <1>5
  <2>2. CASE m = Final
    BY <2>1, <2>2, <1>3, <1>4
  <2>3. CASE m # Final
    <3>1. n + 2 \in Int /\ m + 1 \in Int /\ n + 2 <= m + 1 /\ n \in Int
      BY <1>2, <1>5
    <3>2. (n + 2) * ChunkNumber <= (m + 1) * ChunkNumber /\ (m + 1) * ChunkNumber \in Int
      BY <3>1, <1>0, TimesMonotone
    <3>3. (n + 2) * ChunkNumber = (n + 1) * ChunkNumber + ChunkNumber /\ (n + 1) * ChunkNumber \in Int
      BY <3>1, <1>0
    <3> QED
      BY <3>2, <3>3, <2>1, <2>3, <1>0, <1>4
  <2> QED
    BY <2>2, <2>3
<1>6. LastIndex \in 0 .. LastIndex
  BY <1>1
<1> QED
  BY <1>1, <1>2, <1>3, <1>4, <1>5, <1>6

\* Sets of blobbers are finite, and taking a blobber out makes them smaller by one.
LEMMA BlobberSets ==
  ASSUME NEW S \in SUBSET Blobbers
  PROVE  /\ IsFiniteSet(S) /\ Cardinality(S) \in Nat /\ Cardinality(Blobbers) \in Nat
         /\ Cardinality(S) <= Cardinality(Blobbers)
         /\ Cardinality({}) = 0
         /\ \A b \in S : Cardinality(S \ {b}) = Cardinality(S) - 1
<1>1. IsFiniteSet(Blobbers)
  BY SizesAssumption
<1>2. IsFiniteSet(S) /\ Cardinality(S) <= Cardinality(Blobbers)
  BY <1>1, FS_Subset
<1>3. Cardinality(S) \in Nat /\ Cardinality(Blobbers) \in Nat
  BY <1>1, <1>2, FS_CardinalityType
<1>4. \A b \in S : Cardinality(S \ {b}) = Cardinality(S) - 1
  BY <1>2, FS_RemoveElement
<1>5. Cardinality({}) = 0
  BY FS_EmptySet
<1> QED
  BY <1>2, <1>3, <1>4, <1>5

\* Whether the size of the file is known does not change, and so neither do its parts.
LEMMA StreamFixed ==
  ASSUME [Next]_vars
  PROVE  /\ stream' = stream /\ LastIndex' = LastIndex /\ Final' = Final /\ Batches' = Batches
         /\ Parts' = Parts /\ Jobs' = Jobs /\ Indices' = Indices /\ Last' = Last
         /\ \A n : ChunkEndIndex(n)' = ChunkEndIndex(n)
<1>1. ASSUME ProcessSteps \/ ReadFailed PROVE stream' = stream
  BY <1>1 DEF ProcessSteps, ReadFailed, SkipBatch, BuildBatch, SendBatch, WaitDone, LastUploaded
<1>2. ASSUME NEW u \in Uploaders, UploaderSteps(u) PROVE stream' = stream
  BY <1>2 DEF UploaderSteps, TakeBatch, WorkerExits, BatchUploaded, SendUploadRequest
<1>3. ASSUME \/ \E i \in Indices : UpdateProgress(i)
             \/ SaveTick \/ Cancel \/ Crash \/ Expire \/ Resume \/ UNCHANGED vars
      PROVE  stream' = stream
  BY <1>3 DEF UpdateProgress, SaveTick, Cancel, Crash, Expire, Resume, vars
<1>4. stream' = stream
  BY <1>1, <1>2, <1>3 DEF Next
<1>5. LastIndex' = LastIndex
  BY <1>4 DEF LastIndex
<1>6. Final' = Final /\ Batches' = Batches /\ Indices' = Indices
  BY <1>5 DEF Final, Batches, Indices
<1>7. \A n : ChunkEndIndex(n)' = ChunkEndIndex(n) /\ Blocks(n)' = Blocks(n)
  BY <1>5, <1>6 DEF ChunkEndIndex, Blocks
<1>8. \A n : LastBufferOnly(n)' = LastBufferOnly(n)
  BY <1>6, <1>7 DEF LastBufferOnly
<1>9. Parts' = Parts
  BY <1>6, <1>7, <1>8 DEF Parts
<1>10. Jobs' = Jobs /\ Last' = Last
  BY <1>6, <1>9 DEF Jobs, Last
<1> QED
  BY <1>4, <1>5, <1>6, <1>7, <1>9, <1>10

-----------------------------------------------------------------------------
(* The types.                                                              *)

\* Every step keeps the types of process.
LEMMA MainStep == MainType /\ [Next]_vars => MainType'
<1> SUFFICES ASSUME MainType, [Next]_vars PROVE MainType'
  OBVIOUS
<1>0. stream' = stream /\ Batches' = Batches
  BY StreamFixed
<1>a. stream \in BOOLEAN
  BY SizesAssumption DEF MainType
<1>b. Final \in Nat /\ Batches = 0 .. Final
  BY <1>a, Ends
<1>c. batch < Final => batch + 1 \in Batches
  BY <1>b DEF MainType
<1>1. CASE ReadFailed \/ SkipBatch
  BY <1>0, <1>1, <1>c DEF ReadFailed, SkipBatch, Return, chanVars, MainType
<1>2. CASE BuildBatch
  BY <1>0, <1>2 DEF BuildBatch, Return, chanVars, MainType
<1>3. CASE SendBatch
  <2>1. batch # Final => batch + 1 \in Batches
    BY <1>b, <1>c DEF MainType
  <2>2. UNCHANGED <<attempt, built, mask>>
    BY <1>3 DEF SendBatch
  <2>3. result' = result \/ result' = "error"
    BY <1>3 DEF SendBatch, Return
  <2>4. pc' \in {"read", "wait", "done"}
    BY <1>3 DEF SendBatch, AfterSend, Return
  <2>5. batch' = batch \/ (batch # Final /\ batch' = batch + 1)
    BY <1>3 DEF SendBatch, AfterSend
  <2>6. (closed' = closed \/ closed' = TRUE) /\ (ctxDone' = ctxDone \/ ctxDone' = TRUE)
    BY <1>3 DEF SendBatch, AfterSend, Return
  <2> QED
    BY <1>0, <2>1, <2>2, <2>3, <2>4, <2>5, <2>6 DEF MainType
<1>4. CASE WaitDone \/ LastUploaded
  BY <1>0, <1>4 DEF WaitDone, LastUploaded, Return, chanVars, MainType
<1>5. ASSUME NEW u \in Uploaders, UploaderSteps(u) PROVE MainType'
  <2>1. CASE TakeBatch(u) \/ WorkerExits(u) \/ BatchUploaded(u)
    BY <1>0, <2>1 DEF TakeBatch, WorkerExits, BatchUploaded, mainVars, chanVars, MainType
  <2>2. ASSUME NEW b \in Blobbers, SendUploadRequest(u, b) PROVE MainType'
    <3>1. UNCHANGED <<pc, result, batch, built, attempt, closed, ctxDone>>
      BY <2>2 DEF SendUploadRequest, mainVars, chanVars
    <3>2. mask' \subseteq mask
      BY <2>2 DEF SendUploadRequest, CountDone, CountError, CountDuplicate
    <3> QED
      BY <1>0, <3>1, <3>2 DEF MainType
  <2> QED
    BY <1>5, <2>1, <2>2 DEF UploaderSteps
<1>6. CASE (\E i \in Indices : UpdateProgress(i)) \/ SaveTick \/ Cancel \/ Expire \/ UNCHANGED vars
  BY <1>0, <1>6 DEF UpdateProgress, SaveTick, Cancel, Expire, vars, mainVars, chanVars, MainType
<1>7. CASE Crash
  BY <1>0, <1>7 DEF Crash, mainVars, chanVars, MainType
<1>8. CASE Resume
  <2>1. attempt' \in 1 .. MaxAttempts
    BY <1>8, BoundsAssumption DEF Resume, MainType
  <2>2. /\ pc' = "read" /\ result' = "none" /\ batch' = 0 /\ built' = {} /\ mask' = Blobbers
        /\ closed' = FALSE /\ ctxDone' = FALSE
    BY <1>8 DEF Resume
  <2>3. 0 \in Batches
    BY <1>b
  <2> QED
    BY <1>0, <2>1, <2>2, <2>3 DEF MainType
<1> QED
  BY <1>1, <1>2, <1>3, <1>4, <1>5, <1>6, <1>7, <1>8 DEF Next, ProcessSteps

\* The set that Busy becomes when one worker changes.
LEMMA BusyStep ==
  ASSUME NEW w \in Workers, NEW new \in {"idle", "busy", "exited"}, PoolType,
         worker' = [worker EXCEPT ![w] = new]
  PROVE  /\ Busy' = IF new = "busy" THEN Busy \cup {w} ELSE Busy \ {w}
         /\ IsFiniteSet(Busy) /\ Cardinality(Busy) \in Nat
         /\ Cardinality(Busy') = IF new = "busy"
              THEN IF w \in Busy THEN Cardinality(Busy) ELSE Cardinality(Busy) + 1
              ELSE IF w \in Busy THEN Cardinality(Busy) - 1 ELSE Cardinality(Busy)
<1>1. \A v \in Workers : worker'[v] = IF v = w THEN new ELSE worker[v]
  BY DEF PoolType, Uploaders
<1>2. Busy' = IF new = "busy" THEN Busy \cup {w} ELSE Busy \ {w}
  BY <1>1 DEF Busy
<1>3. IsFiniteSet(Busy)
  BY SizesAssumption, FS_Subset DEF Busy
<1>4. Cardinality(Busy) \in Nat
  BY <1>3, FS_CardinalityType
<1>5. CASE new = "busy"
  BY <1>2, <1>3, <1>4, <1>5, FS_AddElement
<1>6. CASE new # "busy"
  BY <1>2, <1>3, <1>4, <1>6, FS_RemoveElement
<1> QED
  BY <1>2, <1>3, <1>4, <1>5, <1>6

\* The number of busy workers, when no worker changes.
LEMMA BusySame ==
  ASSUME \A w \in Workers : worker'[w] = worker[w]
  PROVE  Busy' = Busy /\ IsFiniteSet(Busy) /\ Cardinality(Busy) \in Nat
<1>1. Busy' = Busy
  BY DEF Busy
<1>2. IsFiniteSet(Busy)
  BY SizesAssumption, FS_Subset DEF Busy
<1> QED
  BY <1>1, <1>2, FS_CardinalityType

\* Every step keeps the wait group above what the channel and the workers hold.
LEMMA GroupStep ==
  MainType /\ ChanType /\ PoolType /\ GroupInv /\ [Next]_vars => ChanType' /\ GroupInv'
<1> SUFFICES ASSUME MainType, ChanType, PoolType, GroupInv, [Next]_vars PROVE ChanType' /\ GroupInv'
  OBVIOUS
<1>0. stream' = stream /\ Batches' = Batches /\ Jobs' = Jobs
  BY StreamFixed
<1>a. Capacity \in Nat /\ stream \in BOOLEAN
  BY SizesAssumption DEF MainType
<1>b. Final \in Nat /\ Batches = 0 .. Final
  BY <1>a, Ends
<1>c. Cardinality(Batches) = Final + 1
  BY <1>b, FS_Interval
<1>d. batch \in Nat /\ batch <= Final /\ uploadWG \in Nat
  BY <1>b, <1>c DEF MainType, ChanType
<1>e. uploadChan \in Seq(Jobs) /\ Len(uploadChan) \in Nat /\ Len(uploadChan) <= Capacity
  BY DEF ChanType
<1>f. /\ Len(uploadChan) + Cardinality(Busy) <= uploadWG
      /\ uploadWG <= batch + (IF pc \in {"read", "send"} THEN 0 ELSE 1)
  BY DEF GroupInv
<1>g. Cardinality(Busy) \in Nat
  BY SizesAssumption, FS_Subset, FS_CardinalityType DEF Busy
<1>i. ASSUME uploadWG' \in Nat, batch' <= Final, batch' \in Nat,
             uploadWG' <= batch' + (IF pc' \in {"read", "send"} THEN 0 ELSE 1)
      PROVE  uploadWG' \in 0 .. Cardinality(Batches)
  <2>1. PICK d \in {0, 1} : uploadWG' <= batch' + d
    BY <1>i
  <2>a. uploadWG' \in Nat /\ batch' \in Nat /\ batch' <= Final /\ Final \in Nat
    BY <1>i, <1>b
  <2>b. d <= 1 /\ d \in Nat
    BY <2>1
  <2>c. \A x, y, z \in Nat : x <= y + d /\ y <= z => x <= z + 1
    BY <2>b
  <2>2. uploadWG' <= Final + 1
    BY <2>1, <2>a, <2>c
  <2> QED
    BY <2>2, <1>i, <1>b, <1>c
<1>h. SUFFICES /\ uploadChan' \in Seq(Jobs) /\ Len(uploadChan') <= Capacity
               /\ uploadWG' \in Nat /\ batch' <= Final /\ batch' \in Nat
               /\ Len(uploadChan') + Cardinality(Busy') <= uploadWG'
               /\ uploadWG' <= batch' + (IF pc' \in {"read", "send"} THEN 0 ELSE 1)
  BY <1>0, <1>i DEF ChanType, GroupInv
<1>1. ASSUME UNCHANGED <<uploadChan, uploadWG>>, \A w \in Workers : worker'[w] = worker[w],
             \/ UNCHANGED <<batch, pc>>
             \/ batch' = batch /\ pc' \in {"wait", "last", "done", "dead"}
             \/ batch' = batch /\ pc = "read" /\ pc' = "send"
             \/ batch < Final /\ batch' = batch + 1 /\ pc \in {"read", "send"}
      PROVE  /\ uploadChan' \in Seq(Jobs) /\ Len(uploadChan') <= Capacity
             /\ uploadWG' \in Nat /\ batch' <= Final /\ batch' \in Nat
             /\ Len(uploadChan') + Cardinality(Busy') <= uploadWG'
             /\ uploadWG' <= batch' + (IF pc' \in {"read", "send"} THEN 0 ELSE 1)
  <2>1. Busy' = Busy
    BY <1>1, BusySame
  <2>2. batch' \in Nat /\ batch' <= Final
    BY <1>1, <1>b, <1>d
  <2>3. uploadWG <= batch' + (IF pc' \in {"read", "send"} THEN 0 ELSE 1)
    BY <1>1, <1>d, <1>f
  <2> QED
    BY <2>1, <2>2, <2>3, <1>1, <1>d, <1>e, <1>f
<1>2. CASE ReadFailed \/ SkipBatch \/ BuildBatch
  <2>1. UNCHANGED <<uploadChan, uploadWG, worker>>
    BY <1>2 DEF ReadFailed, SkipBatch, BuildBatch, chanVars, poolVars
  <2>2. \/ UNCHANGED <<batch, pc>>
        \/ batch' = batch /\ pc' \in {"wait", "last", "done", "dead"}
        \/ batch' = batch /\ pc = "read" /\ pc' = "send"
        \/ batch < Final /\ batch' = batch + 1 /\ pc \in {"read", "send"}
    BY <1>2 DEF ReadFailed, SkipBatch, BuildBatch, Return
  <2> QED
    BY <2>1, <2>2, <1>1
<1>3. CASE SendBatch
  <2>0. pc = "send" /\ UNCHANGED worker
    BY <1>3 DEF SendBatch, poolVars
  <2>a. Busy' = Busy
    BY <2>0, BusySame
  <2>1. CASE LastBufferOnly(batch) /\ AfterSend /\ UNCHANGED <<uploadWG, uploadChan>>
    <3>1. (batch' = batch /\ pc' = "wait") \/ (batch # Final /\ batch' = batch + 1)
      BY <2>1 DEF AfterSend
    <3>2. \/ batch' = batch /\ pc' \in {"wait", "last", "done", "dead"}
          \/ batch < Final /\ batch' = batch + 1 /\ pc \in {"read", "send"}
      BY <3>1, <2>0, <1>b, <1>d
    <3> QED
      BY <3>2, <2>0, <2>1, <1>1
  <2>2. CASE uploadWG' = uploadWG + 1 /\ pc' = "done" /\ UNCHANGED <<uploadChan, batch>>
    BY <2>0, <2>a, <2>2, <1>d, <1>e, <1>f, <1>g
  <2>3. CASE /\ uploadWG' = uploadWG + 1 /\ Len(uploadChan) < Capacity /\ AfterSend
             /\ uploadChan' = Append(uploadChan, [part |-> <<batch, "body">>, built |-> built])
             /\ ~LastBufferOnly(batch)
    <3>1. [part |-> <<batch, "body">>, built |-> built] \in Jobs
      <4>1. Blocks(batch) > 0
        <5>1. CASE batch = Final
          <6>1. Blocks(batch) \in Int
            BY <5>1, <1>b, <1>d, SizesAssumption DEF Blocks
          <6>2. ~(Blocks(batch) <= MaxBlocks)
            BY <5>1, <2>3 DEF LastBufferOnly
          <6> QED
            BY <6>1, <6>2, SizesAssumption
        <5>2. CASE batch # Final
          BY <5>2, <1>b, <1>d, SizesAssumption DEF Blocks
        <5> QED
          BY <5>1, <5>2
      <4>2. <<batch, "body">> \in Parts
        BY <4>1, <2>3 DEF Parts, MainType
      <4> QED
        BY <4>2 DEF Jobs, MainType
    <3>2. uploadChan' \in Seq(Jobs) /\ Len(uploadChan') = Len(uploadChan) + 1
      BY <3>1, <2>3, <1>e
    <3>3. (batch' = batch /\ pc' = "wait") \/ (batch # Final /\ batch' = batch + 1 /\ pc' = "read")
      BY <2>3 DEF AfterSend
    <3>4. batch' \in Nat /\ batch' <= Final
      BY <3>3, <1>b, <1>d
    <3>5. uploadWG' <= batch' + (IF pc' \in {"read", "send"} THEN 0 ELSE 1)
      BY <3>3, <2>0, <2>3, <1>d, <1>f
    <3>6. uploadWG' \in Nat /\ uploadWG' = uploadWG + 1 /\ Len(uploadChan') <= Capacity
      BY <2>3, <3>2, <1>a, <1>d, <1>e
    <3>7. Len(uploadChan') + Cardinality(Busy') <= uploadWG'
      BY <2>a, <3>2, <3>6, <1>d, <1>e, <1>f, <1>g
    <3> QED
      BY <3>2, <3>4, <3>5, <3>6, <3>7
  <2> QED
    BY <1>3, <2>1, <2>2, <2>3 DEF SendBatch, Return
<1>4. CASE WaitDone \/ LastUploaded
  <2>1. UNCHANGED <<uploadChan, uploadWG, batch>>
    BY <1>4 DEF WaitDone, LastUploaded, chanVars
  <2>2. pc' \in {"last", "done"}
    BY <1>4 DEF WaitDone, LastUploaded, Return
  <2>3. worker' = worker \/ \E new : worker' = [worker EXCEPT ![Main] = new]
    BY <1>4 DEF WaitDone, LastUploaded, StartUpload, FreeUploader, poolVars
  <2>4. \A w \in Workers : worker'[w] = worker[w]
    BY <2>3, UploadersAssumption DEF PoolType, Uploaders
  <2> QED
    BY <2>1, <2>2, <2>4, <1>1
<1>5. ASSUME NEW u \in Workers, TakeBatch(u) \/ WorkerExits(u) \/ BatchUploaded(u)
      PROVE  /\ uploadChan' \in Seq(Jobs) /\ Len(uploadChan') <= Capacity
             /\ uploadWG' \in Nat /\ batch' <= Final /\ batch' \in Nat
             /\ Len(uploadChan') + Cardinality(Busy') <= uploadWG'
             /\ uploadWG' <= batch' + (IF pc' \in {"read", "send"} THEN 0 ELSE 1)
  <2>0. UNCHANGED <<batch, pc>>
    BY <1>5 DEF TakeBatch, WorkerExits, BatchUploaded, mainVars
  <2>1. CASE TakeBatch(u)
    <3>1. uploadChan # <<>> /\ uploadChan' = Tail(uploadChan)
      BY <2>1 DEF TakeBatch
    <3>2. uploadChan' \in Seq(Jobs) /\ Len(uploadChan') = Len(uploadChan) - 1 /\ Len(uploadChan) > 0
      BY <3>1, <1>e
    <3>3. CASE ctxDone
      <4>1. uploadWG' = uploadWG - 1 /\ UNCHANGED worker
        BY <2>1, <3>3 DEF TakeBatch, poolVars
      <4>2. Busy' = Busy
        BY <4>1, BusySame
      <4> QED
        BY <2>0, <3>2, <4>1, <4>2, <1>a, <1>d, <1>e, <1>f, <1>g
    <3>4. CASE ~ctxDone
      <4>1. uploadWG' = uploadWG /\ worker' = [worker EXCEPT ![u] = "busy"]
        BY <2>1, <3>4 DEF TakeBatch, StartUpload
      <4>2. Cardinality(Busy') <= Cardinality(Busy) + 1 /\ Cardinality(Busy') \in Nat
        <5>1. "busy" \in {"idle", "busy", "exited"}
          OBVIOUS
        <5>2. Cardinality(Busy') = IF u \in Busy THEN Cardinality(Busy) ELSE Cardinality(Busy) + 1
          BY <4>1, <5>1, BusyStep
        <5> QED
          BY <5>2, <1>g
      <4> QED
        BY <2>0, <3>2, <4>1, <4>2, <1>a, <1>d, <1>e, <1>f, <1>g
    <3> QED
      BY <3>3, <3>4
  <2>2. CASE WorkerExits(u)
    <3>1. worker[u] = "idle" /\ worker' = [worker EXCEPT ![u] = "exited"] /\ UNCHANGED <<uploadChan, uploadWG>>
      BY <2>2 DEF WorkerExits, chanVars
    <3>2. Cardinality(Busy') = Cardinality(Busy)
      BY <3>1, <1>g, BusyStep DEF Busy
    <3> QED
      BY <2>0, <3>1, <3>2, <1>d, <1>e, <1>f
  <2>3. CASE BatchUploaded(u)
    <3>1. /\ worker[u] = "busy" /\ worker' = [worker EXCEPT ![u] = "idle"]
          /\ uploadChan' = uploadChan /\ uploadWG' = uploadWG - 1
      BY <2>3 DEF BatchUploaded, FreeUploader
    <3>2. Cardinality(Busy') = Cardinality(Busy) - 1 /\ Cardinality(Busy') \in Nat
      <4>1. u \in Busy
        BY <3>1 DEF Busy
      <4>2. Cardinality(Busy') = Cardinality(Busy) - 1
        BY <4>1, <3>1, BusyStep
      <4>3. Cardinality(Busy) # 0
        BY <4>1, FS_EmptySet, SizesAssumption, FS_Subset DEF Busy
      <4> QED
        BY <4>2, <4>3, <1>g
    <3> QED
      BY <2>0, <3>1, <3>2, <1>d, <1>e, <1>f, <1>g
  <2> QED
    BY <1>5, <2>1, <2>2, <2>3
<1>6. ASSUME NEW u \in Uploaders, NEW b \in Blobbers, SendUploadRequest(u, b)
      PROVE  /\ uploadChan' \in Seq(Jobs) /\ Len(uploadChan') <= Capacity
             /\ uploadWG' \in Nat /\ batch' <= Final /\ batch' \in Nat
             /\ Len(uploadChan') + Cardinality(Busy') <= uploadWG'
             /\ uploadWG' <= batch' + (IF pc' \in {"read", "send"} THEN 0 ELSE 1)
  <2>1. UNCHANGED <<uploadChan, uploadWG, worker, batch, pc>>
    BY <1>6 DEF SendUploadRequest, chanVars, mainVars
  <2> QED
    BY <2>1, <1>1
<1>7. CASE (\E i \in Indices : UpdateProgress(i)) \/ SaveTick \/ Cancel \/ Expire \/ UNCHANGED vars
  <2>1. UNCHANGED <<uploadChan, uploadWG, worker, batch, pc>>
    BY <1>7 DEF UpdateProgress, SaveTick, Cancel, Expire, vars, mainVars, chanVars, poolVars
  <2> QED
    BY <2>1, <1>1
<1>8. CASE Crash \/ Resume
  <2>1. \A w \in Workers : worker'[w] # "busy"
    BY <1>8 DEF Crash, Resume, Uploaders
  <2>2. Busy' = {}
    BY <2>1 DEF Busy
  <2>3. Cardinality(Busy') = 0
    BY <2>2, FS_EmptySet
  <2>4. CASE Crash
    <3>1. UNCHANGED <<uploadChan, uploadWG, batch>> /\ pc' = "dead"
      BY <2>4 DEF Crash, chanVars
    <3> QED
      BY <3>1, <2>3, <1>d, <1>e, <1>f, <1>g
  <2>5. CASE Resume
    <3>1. uploadChan' = <<>> /\ uploadWG' = 0 /\ batch' = 0
      BY <2>5 DEF Resume
    <3> QED
      BY <3>1, <2>3, <1>a, <1>b
  <2> QED
    BY <1>8, <2>4, <2>5
<1> QED
  BY <1>2, <1>3, <1>4, <1>5, <1>6, <1>7, <1>8 DEF Next, ProcessSteps, UploaderSteps, BatchUploaded

-----------------------------------------------------------------------------
(* What the steps of the pool change.                                      *)

\* Every uploader but one keeps what it has.
OthersKeep(u) ==
  \A v \in Uploaders \ {u} :
    /\ worker'[v] = worker[v] /\ job'[v] = job[v] /\ sends'[v] = sends[v]
    /\ consensus'[v] = consensus[v] /\ errCount'[v] = errCount[v]

\* An uploader that starts has all its requests out and has counted none.
LEMMA StartEffect ==
  ASSUME PoolType, NEW u \in Uploaders, NEW j \in Jobs, Jobs' = Jobs, mask \subseteq Blobbers,
         StartUpload(u, j)
  PROVE  /\ PoolType' /\ OthersKeep(u)
         /\ worker'[u] = "busy" /\ job'[u] = <<j>> /\ sends'[u] = mask
         /\ consensus'[u] = 0 /\ errCount'[u] = 0
<1>0. Cardinality(Blobbers) \in Nat
  BY BlobberSets
<1>1. /\ worker' = [worker EXCEPT ![u] = "busy"] /\ job' = [job EXCEPT ![u] = <<j>>]
      /\ sends' = [sends EXCEPT ![u] = mask] /\ consensus' = [consensus EXCEPT ![u] = 0]
      /\ errCount' = [errCount EXCEPT ![u] = 0] /\ wgErrors' = [wgErrors EXCEPT ![u] = FALSE]
  BY DEF StartUpload
<1>2. /\ worker'[u] = "busy" /\ \A v \in Uploaders \ {u} : worker'[v] = worker[v]
      /\ worker' \in [Uploaders -> {"idle", "busy", "exited"}]
  BY <1>1 DEF PoolType
<1>3. job'[u] = <<j>> /\ DOMAIN job' = Uploaders /\ \A v \in Uploaders \ {u} : job'[v] = job[v]
  BY <1>1 DEF PoolType
<1>4. /\ sends'[u] = mask /\ sends' \in [Uploaders -> SUBSET Blobbers]
      /\ \A v \in Uploaders \ {u} : sends'[v] = sends[v]
  BY <1>1 DEF PoolType
<1>5. /\ consensus'[u] = 0 /\ consensus' \in [Uploaders -> 0 .. 2 * Cardinality(Blobbers)]
      /\ \A v \in Uploaders \ {u} : consensus'[v] = consensus[v]
  BY <1>0, <1>1 DEF PoolType
<1>6. /\ errCount'[u] = 0 /\ errCount' \in [Uploaders -> 0 .. Cardinality(Blobbers)]
      /\ \A v \in Uploaders \ {u} : errCount'[v] = errCount[v]
  BY <1>0, <1>1 DEF PoolType
<1>7. wgErrors' \in [Uploaders -> BOOLEAN]
  BY <1>1 DEF PoolType
<1>8. \A v \in Uploaders : job'[v] \in {<<>>} \cup {<<i>> : i \in Jobs}
  <2>1. <<j>> \in {<<i>> : i \in Jobs}
    OBVIOUS
  <2>2. \A v \in Uploaders : job[v] \in {<<>>} \cup {<<i>> : i \in Jobs}
    BY DEF PoolType
  <2> QED
    BY <1>3, <2>1, <2>2
<1>9. PoolType'
  BY <1>2, <1>3, <1>4, <1>5, <1>6, <1>7, <1>8 DEF PoolType, Uploaders
<1> QED
  BY <1>2, <1>3, <1>4, <1>5, <1>6, <1>9 DEF OthersKeep

\* An uploader that is done has no job.
LEMMA FreeEffect ==
  ASSUME PoolType, NEW u \in Uploaders, Jobs' = Jobs, FreeUploader(u)
  PROVE  /\ PoolType' /\ OthersKeep(u)
         /\ worker'[u] = "idle" /\ sends' = sends /\ consensus'[u] = 0 /\ errCount'[u] = 0
<1>0. Cardinality(Blobbers) \in Nat
  BY BlobberSets
<1>1. /\ worker' = [worker EXCEPT ![u] = "idle"] /\ job' = [job EXCEPT ![u] = <<>>]
      /\ sends' = sends /\ consensus' = [consensus EXCEPT ![u] = 0]
      /\ errCount' = [errCount EXCEPT ![u] = 0] /\ wgErrors' = [wgErrors EXCEPT ![u] = FALSE]
  BY DEF FreeUploader
<1>2. /\ worker'[u] = "idle" /\ \A v \in Uploaders \ {u} : worker'[v] = worker[v]
      /\ worker' \in [Uploaders -> {"idle", "busy", "exited"}]
  BY <1>1 DEF PoolType
<1>3. job'[u] = <<>> /\ DOMAIN job' = Uploaders /\ \A v \in Uploaders \ {u} : job'[v] = job[v]
  BY <1>1 DEF PoolType
<1>4. sends' \in [Uploaders -> SUBSET Blobbers] /\ \A v \in Uploaders \ {u} : sends'[v] = sends[v]
  BY <1>1 DEF PoolType
<1>5. /\ consensus'[u] = 0 /\ consensus' \in [Uploaders -> 0 .. 2 * Cardinality(Blobbers)]
      /\ \A v \in Uploaders \ {u} : consensus'[v] = consensus[v]
  BY <1>0, <1>1 DEF PoolType
<1>6. /\ errCount'[u] = 0 /\ errCount' \in [Uploaders -> 0 .. Cardinality(Blobbers)]
      /\ \A v \in Uploaders \ {u} : errCount'[v] = errCount[v]
  BY <1>0, <1>1 DEF PoolType
<1>7. wgErrors' \in [Uploaders -> BOOLEAN]
  BY <1>1 DEF PoolType
<1>8. \A v \in Uploaders : job'[v] \in {<<>>} \cup {<<i>> : i \in Jobs}
  <2>1. \A v \in Uploaders : job[v] \in {<<>>} \cup {<<i>> : i \in Jobs}
    BY DEF PoolType
  <2> QED
    BY <1>3, <2>1
<1>9. PoolType'
  BY <1>2, <1>3, <1>4, <1>5, <1>6, <1>7, <1>8 DEF PoolType, Uploaders
<1> QED
  BY <1>1, <1>2, <1>3, <1>4, <1>5, <1>6, <1>9 DEF OthersKeep

\* A request is answered: it is stored and counted as done; it is dropped with its
\* blobber; or, only with requests that were not built or answers that are mistaken,
\* counted as done without being stored.
LEMMA SendEffect ==
  ASSUME PoolType, NEW u \in Uploaders, NEW b \in Blobbers, Jobs' = Jobs,
         \A v \in Uploaders : CountedOnce(v), SendUploadRequest(u, b)
  PROVE  /\ PoolType' /\ OthersKeep(u)
         /\ b \in sends[u] /\ sends'[u] = sends[u] \ {b}
         /\ worker' = worker /\ job' = job
         /\ \/ consensus'[u] = consensus[u] + 1 /\ errCount'[u] = errCount[u]
            \/ consensus'[u] = consensus[u] + 2 /\ errCount'[u] = errCount[u]
            \/ consensus'[u] = consensus[u] /\ errCount'[u] = errCount[u] + 1
            \/ consensus'[u] = consensus[u] /\ errCount'[u] = errCount[u]
<1>0. Cardinality(Blobbers) \in Nat /\ sends[u] \in SUBSET Blobbers
  BY BlobberSets DEF PoolType
<1>1. /\ b \in sends[u] /\ sends' = [sends EXCEPT ![u] = @ \ {b}]
      /\ worker' = worker /\ job' = job
  BY DEF SendUploadRequest
<1>a. Cardinality(sends[u]) \in Nat /\ Cardinality(sends[u]) >= 1
  <2>1. Cardinality(sends[u] \ {b}) = Cardinality(sends[u]) - 1 /\ Cardinality(sends[u]) \in Nat
    BY <1>0, <1>1, BlobberSets
  <2>2. sends[u] \ {b} \in SUBSET Blobbers
    BY <1>0
  <2>3. Cardinality(sends[u] \ {b}) \in Nat
    BY <2>2, BlobberSets
  <2> QED
    BY <2>1, <2>3
<1>b. /\ consensus[u] + 2 * Cardinality(sends[u]) <= 2 * Cardinality(Blobbers)
      /\ errCount[u] + Cardinality(sends[u]) <= Cardinality(Blobbers)
      /\ consensus[u] \in Nat /\ errCount[u] \in Nat
  BY <1>0 DEF CountedOnce, PoolType
<1>2. sends'[u] = sends[u] \ {b} /\ sends' \in [Uploaders -> SUBSET Blobbers]
      /\ \A v \in Uploaders \ {u} : sends'[v] = sends[v]
  BY <1>1 DEF PoolType
<1>3. \/ \E n \in {1, 2} : CountDone(u, n)
      \/ CountError(u, b) \/ CountDuplicate(u, b)
  <2>1. \/ CountDone(u, Votes(b, job[u][1])) \/ CountError(u, b) \/ CountDuplicate(u, b)
    BY DEF SendUploadRequest
  <2>2. Votes(b, job[u][1]) \in {1, 2}
    BY DEF Votes
  <2> QED
    BY <2>1, <2>2
<1>4. ASSUME NEW n \in {1, 2}, CountDone(u, n)
      PROVE  /\ consensus'[u] = consensus[u] + n /\ errCount' = errCount /\ wgErrors' = wgErrors
             /\ \A v \in Uploaders \ {u} : consensus'[v] = consensus[v]
             /\ consensus' \in [Uploaders -> 0 .. 2 * Cardinality(Blobbers)]
  <2>1. consensus' = [consensus EXCEPT ![u] = consensus[u] + n] /\ errCount' = errCount /\ wgErrors' = wgErrors
    BY <1>4 DEF CountDone
  <2>2. consensus[u] + n \in 0 .. 2 * Cardinality(Blobbers)
    BY <1>0, <1>a, <1>b
  <2> QED
    BY <2>1, <2>2 DEF PoolType
<1>5. ASSUME CountError(u, b)
      PROVE  /\ errCount'[u] = errCount[u] + 1 /\ consensus' = consensus
             /\ \A v \in Uploaders \ {u} : errCount'[v] = errCount[v]
             /\ errCount' \in [Uploaders -> 0 .. Cardinality(Blobbers)]
             /\ wgErrors' \in [Uploaders -> BOOLEAN]
  <2>1. errCount' = [errCount EXCEPT ![u] = errCount[u] + 1] /\ consensus' = consensus
    BY <1>5 DEF CountError
  <2>2. errCount[u] + 1 \in 0 .. Cardinality(Blobbers)
    BY <1>0, <1>a, <1>b
  <2>3. wgErrors' = [wgErrors EXCEPT ![u] = wgErrors[u] \/ errCount[u] + 1 > ParityShards - 1]
    BY <1>5 DEF CountError
  <2>4. wgErrors' \in [Uploaders -> BOOLEAN]
    BY <2>3 DEF PoolType
  <2> QED
    BY <2>1, <2>2, <2>4 DEF PoolType
<1>6. ASSUME CountDuplicate(u, b)
      PROVE  consensus' = consensus /\ errCount' = errCount /\ wgErrors' \in [Uploaders -> BOOLEAN]
  <2>3. wgErrors' = [wgErrors EXCEPT ![u] = wgErrors[u] \/ dup + 1 >= Thresh]
    BY <1>6 DEF CountDuplicate
  <2>4. wgErrors' \in [Uploaders -> BOOLEAN]
    BY <2>3 DEF PoolType
  <2> QED
    BY <2>4, <1>6 DEF CountDuplicate
<1>7. /\ worker' \in [Uploaders -> {"idle", "busy", "exited"}] /\ DOMAIN job' = Uploaders
      /\ \A v \in Uploaders : job'[v] \in {<<>>} \cup {<<j>> : j \in Jobs}
  BY <1>1 DEF PoolType
<1>8. CASE \E n \in {1, 2} : CountDone(u, n)
  <2>1. PICK n \in {1, 2} : CountDone(u, n)
    BY <1>8
  <2>2. PoolType' /\ OthersKeep(u)
    BY <1>1, <1>2, <1>7, <2>1, <1>4 DEF PoolType, Uploaders, OthersKeep
  <2> QED
    BY <1>1, <1>2, <2>1, <2>2, <1>4
<1>9. CASE CountError(u, b)
  BY <1>1, <1>2, <1>5, <1>7, <1>9 DEF PoolType, Uploaders, OthersKeep
<1>10. CASE CountDuplicate(u, b)
  BY <1>1, <1>2, <1>6, <1>7, <1>10 DEF PoolType, Uploaders, OthersKeep
<1> QED
  BY <1>3, <1>8, <1>9, <1>10

\* Every step spends at most one fault.
LEMMA BudgetStep == BudgetType /\ [Next]_vars => BudgetType'
<1> SUFFICES ASSUME BudgetType, [Next]_vars PROVE BudgetType'
  OBVIOUS
<1>0. MaxFaults \in Nat
  BY BoundsAssumption
<1>1. ASSUME dup' = dup \/ dup' = 0, budget' = budget \/ (budget > 0 /\ budget' = budget - 1)
      PROVE  BudgetType'
  BY <1>0, <1>1 DEF BudgetType
<1>2. CASE ProcessSteps \/ ReadFailed
  <2>1. dup' = dup
    BY <1>2 DEF ProcessSteps, ReadFailed, SkipBatch, BuildBatch, SendBatch, WaitDone, LastUploaded
  <2>2. budget' = budget \/ (budget > 0 /\ budget' = budget - 1)
    BY <1>2 DEF ProcessSteps, ReadFailed, SkipBatch, BuildBatch, SendBatch, WaitDone, LastUploaded, Fault
  <2> QED
    BY <2>1, <2>2, <1>1
<1>3. ASSUME NEW u \in Uploaders, UploaderSteps(u) PROVE BudgetType'
  <2>1. CASE TakeBatch(u) \/ WorkerExits(u) \/ BatchUploaded(u)
    BY <2>1, <1>1 DEF TakeBatch, WorkerExits, BatchUploaded
  <2>2. ASSUME NEW b \in Blobbers, SendUploadRequest(u, b) PROVE BudgetType'
    <3>1. \/ dup' = dup /\ (budget' = budget \/ (budget > 0 /\ budget' = budget - 1))
          \/ dup' = dup + 1 /\ budget > 0 /\ budget' = budget - 1
      BY <2>2 DEF SendUploadRequest, CountDone, CountError, CountDuplicate, Fault
    <3>2. CASE dup' = dup + 1 /\ budget > 0 /\ budget' = budget - 1
      BY <3>2, <1>0 DEF BudgetType
    <3> QED
      BY <3>1, <3>2, <1>1
  <2> QED
    BY <1>3, <2>1, <2>2 DEF UploaderSteps
<1>4. CASE \/ \E i \in Indices : UpdateProgress(i)
           \/ SaveTick \/ Cancel \/ Crash \/ Expire \/ UNCHANGED vars
  BY <1>1, <1>4 DEF UpdateProgress, SaveTick, Cancel, Crash, Expire, vars, Fault
<1>5. CASE Resume
  BY <1>1, <1>5 DEF Resume
<1> QED
  BY <1>2, <1>3, <1>4, <1>5 DEF Next

\* One uploader changes.
LEMMA PoolOne ==
  ASSUME NEW u \in Uploaders, \A v \in Uploaders : CountedOnce(v), Jobs' = Jobs, PoolType',
         OthersKeep(u), CountedOnce(u)'
  PROVE  \A v \in Uploaders : CountedOnce(v)'
<1> SUFFICES ASSUME NEW v \in Uploaders, v # u PROVE CountedOnce(v)'
  OBVIOUS
<1>1. CountedOnce(v)
  OBVIOUS
<1>2. /\ worker'[v] = worker[v] /\ job'[v] = job[v] /\ sends'[v] = sends[v]
      /\ consensus'[v] = consensus[v] /\ errCount'[v] = errCount[v]
  BY DEF OthersKeep
<1> QED
  BY <1>1, <1>2 DEF CountedOnce

\* Every step keeps the types and the counters of the pool.
LEMMA PoolStep ==
  MainType /\ ChanType /\ PoolInv /\ [Next]_vars => PoolInv'
<1> SUFFICES ASSUME MainType, ChanType, PoolInv, [Next]_vars PROVE PoolInv'
  OBVIOUS
<1>0. Jobs' = Jobs /\ Uploaders' = Uploaders
  BY StreamFixed DEF Uploaders
<1>a. PoolType /\ (\A u \in Uploaders : CountedOnce(u)) /\ (pc = "last" => worker[Main] = "busy")
  BY DEF PoolInv
<1>b. Main \in Uploaders /\ mask \in SUBSET Blobbers /\ mask \subseteq Blobbers
  BY DEF Uploaders, MainType
<1>c. Cardinality(Blobbers) \in Nat /\ Cardinality({}) = 0
  BY BlobberSets
<1>1. ASSUME UNCHANGED poolVars, pc' = pc \/ pc' # "last" PROVE PoolInv'
  <2>1. UNCHANGED <<worker, job, sends, consensus, errCount, wgErrors>>
    BY <1>1 DEF poolVars
  <2>2. PoolType'
    BY <2>1, <1>0, <1>a DEF PoolType
  <2>3. \A u \in Uploaders : CountedOnce(u)'
    BY <2>1, <1>0, <1>a DEF CountedOnce
  <2> QED
    BY <2>1, <2>2, <2>3, <1>0, <1>1, <1>a DEF PoolInv
<1>2. ASSUME NEW u \in Uploaders, NEW j \in Jobs, StartUpload(u, j), pc' = pc \/ u = Main PROVE PoolInv'
  <2>1. /\ PoolType' /\ OthersKeep(u)
        /\ worker'[u] = "busy" /\ job'[u] = <<j>> /\ sends'[u] = mask
        /\ consensus'[u] = 0 /\ errCount'[u] = 0
    BY <1>2, <1>0, <1>a, <1>b, StartEffect
  <2>2. Cardinality(mask) \in Nat /\ Cardinality(mask) <= Cardinality(Blobbers)
    BY <1>b, BlobberSets
  <2>3. CountedOnce(u)'
    BY <2>1, <2>2, <1>0, <1>c DEF CountedOnce
  <2>4. \A v \in Uploaders : CountedOnce(v)'
    BY <2>1, <2>3, <1>0, <1>a, PoolOne
  <2>5. pc' = "last" => worker'[Main] = "busy"
    BY <2>1, <1>a, <1>b, <1>2 DEF OthersKeep
  <2> QED
    BY <2>1, <2>4, <2>5, <1>0 DEF PoolInv
<1>3. ASSUME NEW u \in Uploaders, FreeUploader(u), sends[u] = {},
             (pc' = pc /\ u # Main) \/ pc' # "last" PROVE PoolInv'
  <2>1. /\ PoolType' /\ OthersKeep(u)
        /\ worker'[u] = "idle" /\ sends' = sends /\ consensus'[u] = 0 /\ errCount'[u] = 0
    BY <1>3, <1>0, <1>a, FreeEffect
  <2>3. CountedOnce(u)'
    BY <2>1, <1>0, <1>c, <1>3 DEF CountedOnce
  <2>4. \A v \in Uploaders : CountedOnce(v)'
    BY <2>1, <2>3, <1>0, <1>a, PoolOne
  <2>5. pc' = "last" => worker'[Main] = "busy"
    BY <2>1, <1>a, <1>b, <1>3 DEF OthersKeep
  <2> QED
    BY <2>1, <2>4, <2>5, <1>0 DEF PoolInv
<1>4. CASE ReadFailed \/ SkipBatch \/ BuildBatch \/ SendBatch
  <2>1. UNCHANGED poolVars
    BY <1>4 DEF ReadFailed, SkipBatch, BuildBatch, SendBatch
  <2>2. pc' = pc \/ pc' # "last"
    BY <1>4 DEF ReadFailed, SkipBatch, BuildBatch, SendBatch, Return, AfterSend
  <2> QED
    BY <2>1, <2>2, <1>1
<1>5. CASE WaitDone
  <2>1. CASE UNCHANGED poolVars /\ Return("error")
    BY <2>1, <1>1 DEF Return
  <2>2. CASE StartUpload(Main, [part |-> <<Final, "last">>, built |-> built])
    <3>1. [part |-> <<Final, "last">>, built |-> built] \in Jobs
      BY DEF Jobs, Parts, MainType
    <3> QED
      BY <2>2, <3>1, <1>2, <1>b
  <2> QED
    BY <1>5, <2>1, <2>2 DEF WaitDone
<1>6. CASE LastUploaded
  BY <1>6, <1>3, <1>b DEF LastUploaded, Return
<1>7. ASSUME NEW u \in Workers, TakeBatch(u) PROVE PoolInv'
  <2>1. pc' = pc
    BY <1>7 DEF TakeBatch, mainVars
  <2>2. CASE UNCHANGED poolVars
    BY <2>1, <2>2, <1>1
  <2>3. CASE StartUpload(u, Head(uploadChan))
    <3>1. Head(uploadChan) \in Jobs
      BY <1>7 DEF TakeBatch, ChanType
    <3> QED
      BY <2>1, <2>3, <3>1, <1>2 DEF Uploaders
  <2> QED
    BY <1>7, <2>2, <2>3 DEF TakeBatch
<1>8. ASSUME NEW u \in Workers, WorkerExits(u) PROVE PoolInv'
  <2>1. /\ worker[u] = "idle" /\ worker' = [worker EXCEPT ![u] = "exited"]
        /\ UNCHANGED <<job, sends, consensus, errCount, wgErrors, pc>>
    BY <1>8 DEF WorkerExits, mainVars
  <2>2. u \in Uploaders /\ u # Main
    BY UploadersAssumption DEF Uploaders
  <2>3. PoolType' /\ worker'[u] = "exited" /\ \A v \in Uploaders \ {u} : worker'[v] = worker[v]
    BY <2>1, <2>2, <1>0, <1>a DEF PoolType
  <2>4. sends[u] = {}
    BY <2>1, <2>2, <1>a DEF CountedOnce
  <2>5. \A v \in Uploaders : CountedOnce(v)'
    <3>1. CountedOnce(u)'
      BY <2>1, <2>2, <2>3, <2>4, <1>a DEF CountedOnce
    <3>2. OthersKeep(u)
      BY <2>1, <2>3 DEF OthersKeep
    <3> QED
      BY <3>1, <3>2, <2>2, <2>3, <1>0, <1>a, PoolOne
  <2> QED
    BY <2>1, <2>2, <2>3, <2>5, <1>0, <1>a, <1>b DEF PoolInv
<1>9. ASSUME NEW u \in Uploaders, BatchUploaded(u) PROVE PoolInv'
  <2>1. u \in Workers /\ sends[u] = {} /\ FreeUploader(u) /\ pc' = pc
    BY <1>9 DEF BatchUploaded, mainVars
  <2> QED
    BY <2>1, <1>3, UploadersAssumption
<1>10. ASSUME NEW u \in Uploaders, NEW b \in Blobbers, SendUploadRequest(u, b) PROVE PoolInv'
  <2>1. /\ PoolType' /\ OthersKeep(u)
        /\ b \in sends[u] /\ sends'[u] = sends[u] \ {b}
        /\ worker' = worker /\ job' = job
    BY <1>10, <1>0, <1>a, SendEffect
  <2>2. \/ consensus'[u] = consensus[u] + 1 /\ errCount'[u] = errCount[u]
        \/ consensus'[u] = consensus[u] + 2 /\ errCount'[u] = errCount[u]
        \/ consensus'[u] = consensus[u] /\ errCount'[u] = errCount[u] + 1
        \/ consensus'[u] = consensus[u] /\ errCount'[u] = errCount[u]
    BY <1>10, <1>0, <1>a, SendEffect
  <2>3. pc' = pc
    BY <1>10 DEF SendUploadRequest, mainVars
  <2>4. Cardinality(sends'[u]) = Cardinality(sends[u]) - 1 /\ Cardinality(sends[u]) \in Nat
    BY <2>1, <1>a, BlobberSets DEF PoolType
  <2>5. consensus[u] \in Nat /\ errCount[u] \in Nat /\ CountedOnce(u)
    BY <1>a, <1>c DEF PoolType
  <2>6. /\ consensus'[u] + 2 * Cardinality(sends'[u]) <= 2 * Cardinality(Blobbers)
        /\ errCount'[u] + Cardinality(sends'[u]) <= Cardinality(Blobbers)
    BY <2>2, <2>4, <2>5, <1>c DEF CountedOnce
  <2>7. worker[u] = "busy"
    BY <2>1, <2>5 DEF CountedOnce
  <2>8. CountedOnce(u)'
    BY <2>1, <2>5, <2>6, <2>7, <1>0 DEF CountedOnce
  <2>9. \A v \in Uploaders : CountedOnce(v)'
    BY <2>1, <2>8, <1>0, <1>a, PoolOne
  <2> QED
    BY <2>1, <2>3, <2>9, <1>0, <1>a DEF PoolInv
<1>11. CASE (\E i \in Indices : UpdateProgress(i)) \/ SaveTick \/ Cancel \/ Expire \/ UNCHANGED vars
  <2>1. UNCHANGED poolVars /\ pc' = pc
    BY <1>11 DEF UpdateProgress, SaveTick, Cancel, Expire, vars, mainVars
  <2> QED
    BY <2>1, <1>1
<1>12. CASE Crash
  <2>1. /\ worker' = [u \in Uploaders |-> "exited"] /\ sends' = [u \in Uploaders |-> {}]
        /\ UNCHANGED <<job, consensus, errCount, wgErrors>> /\ pc' = "dead"
    BY <1>12 DEF Crash
  <2>2. PoolType'
    BY <2>1, <1>0, <1>a DEF PoolType
  <2>3. ASSUME NEW u \in Uploaders PROVE CountedOnce(u)'
    <3>1. consensus[u] \in 0 .. 2 * Cardinality(Blobbers) /\ errCount[u] \in 0 .. Cardinality(Blobbers)
      BY <1>a DEF PoolType
    <3>2. worker'[u] = "exited" /\ sends'[u] = {} /\ consensus'[u] = consensus[u] /\ errCount'[u] = errCount[u]
      BY <2>1
    <3> QED
      BY <3>1, <3>2, <1>c DEF CountedOnce
  <2> QED
    BY <2>1, <2>2, <2>3, <1>0 DEF PoolInv
<1>13. CASE Resume
  <2>1. /\ worker' = [u \in Uploaders |-> "idle"] /\ job' = [u \in Uploaders |-> <<>>]
        /\ sends' = [u \in Uploaders |-> {}] /\ consensus' = [u \in Uploaders |-> 0]
        /\ errCount' = [u \in Uploaders |-> 0] /\ wgErrors' = [u \in Uploaders |-> FALSE]
        /\ pc' = "read"
    BY <1>13 DEF Resume
  <2>2. PoolType'
    BY <2>1, <1>0, <1>c DEF PoolType
  <2>3. ASSUME NEW u \in Uploaders PROVE CountedOnce(u)'
    <3>2. worker'[u] = "idle" /\ sends'[u] = {} /\ consensus'[u] = 0 /\ errCount'[u] = 0
      BY <2>1
    <3> QED
      BY <3>2, <1>c DEF CountedOnce
  <2> QED
    BY <2>1, <2>2, <2>3, <1>0 DEF PoolInv
<1> QED
  BY <1>4, <1>5, <1>6, <1>7, <1>8, <1>9, <1>10, <1>11, <1>12, <1>13 DEF Next, ProcessSteps, UploaderSteps

-----------------------------------------------------------------------------
(* The storer and the blobbers.                                            *)

\* A set of indices that is not empty has a largest one.
LEMMA MaxOfIndices ==
  ASSUME NEW n \in Nat, NEW S \in SUBSET (-1 .. n), S # {}
  PROVE  Max(S) \in S /\ \A y \in S : Max(S) >= y
<1> DEFINE below == {m \in Nat : n - m \in S}
<1>1. below # {}
  <2>1. PICK v \in S : v \in -1 .. n
    OBVIOUS
  <2>2. n - v \in Nat /\ n - (n - v) = v
    BY <2>1
  <2> QED
    BY <2>1, <2>2
<1>2. PICK x \in below : \A y \in below : <<y, x>> \notin OpToRel(<, Nat)
  BY <1>1, NatLessThanWellFounded, WFMin
<1>3. \A y \in below : ~(y < x)
  BY <1>2 DEF OpToRel
<1>4. ASSUME NEW y \in S PROVE n - x >= y
  <2>1. n - y \in Nat /\ n - (n - y) = y /\ y \in Int
    OBVIOUS
  <2>2. n - y \in below
    BY <2>1
  <2> QED
    BY <2>1, <2>2, <1>3
<1>5. \E z \in S : \A y \in S : z >= y
  BY <1>4
<1> QED
  BY <1>5 DEF Max

\* What the ticker saves is in the queue, and so is all that is due from next to it.
LEMMA RowMax ==
  ASSUME MainType, StoreType, SaveTick
  PROVE  /\ saved' \in queue /\ saved' >= next /\ saved' \in Indices /\ next \in Nat /\ saved' \in Nat
         /\ (saved' - next) % ChunkNumber = 0
         /\ \A k \in next .. saved' : (k - next) % ChunkNumber = 0 => k \in queue
         /\ next' = saved' + ChunkNumber /\ queue' \subseteq queue
<1>0. ChunkNumber \in Nat \ {0} /\ stream \in BOOLEAN
  BY SizesAssumption DEF MainType
<1>1. LastIndex \in Nat
  BY <1>0, Ends
<1>2. next \in Nat /\ queue \subseteq -1 .. LastIndex
  BY <1>0, <1>1 DEF StoreType, Indices
<1>3. next \in Row
  <2>1. next \in queue
    BY DEF SaveTick
  <2>2. next - next = 0 /\ 0 % ChunkNumber = 0 /\ next >= next
    BY <1>0, <1>2
  <2>3. \A k \in next .. next : k = next
    BY <1>2
  <2> QED
    BY <2>1, <2>2, <2>3 DEF Row
<1>4. Row \in SUBSET (-1 .. LastIndex) /\ Row # {}
  BY <1>2, <1>3 DEF Row
<1>5. Max(Row) \in Row
  BY <1>1, <1>4, MaxOfIndices
<1>6. saved' \in Row /\ next' = saved' + ChunkNumber /\ queue' \subseteq queue
  BY <1>5 DEF SaveTick
<1>7. /\ saved' \in queue /\ saved' >= next /\ (saved' - next) % ChunkNumber = 0
      /\ \A k \in next .. saved' : (k - next) % ChunkNumber = 0 => k \in queue
  BY <1>6 DEF Row
<1>8. saved' \in Indices /\ saved' \in Int
  BY <1>2, <1>7 DEF Indices
<1>9. saved' \in Nat
  BY <1>2, <1>7, <1>8
<1> QED
  BY <1>2, <1>6, <1>7, <1>8, <1>9

\* A job is a part of the file, and its batch one of the file's.
LEMMA JobParts ==
  ASSUME stream \in BOOLEAN
  PROVE  /\ \A p \in Parts : p[1] \in Batches /\ ChunkEndIndex(p[1]) \in 0 .. LastIndex
         /\ \A j \in Jobs : j.part \in Parts /\ j.built \subseteq Blobbers
         /\ Last \in Parts /\ \A p \in Parts : p # Last => p[2] = "body"
<1>1. Final \in Batches /\ \A n \in Batches : ChunkEndIndex(n) \in 0 .. LastIndex
  BY Ends
<1>2. \A p \in Parts : p[1] \in Batches /\ (p # Last => p[2] = "body")
  BY <1>1 DEF Parts, Last
<1>3. Last \in Parts
  BY DEF Parts, Last
<1>4. \A j \in Jobs : j.part \in Parts /\ j.built \subseteq Blobbers
  BY DEF Jobs
<1> QED
  BY <1>1, <1>2, <1>3, <1>4

\* The steps that leave the storer and the blobbers alone.
QuietStep ==
  \/ ReadFailed \/ SkipBatch \/ SendBatch \/ WaitDone \/ Cancel \/ Crash \/ UNCHANGED vars
  \/ \E u \in Workers : TakeBatch(u) \/ WorkerExits(u)

\* What those steps leave alone.
LEMMA QuietEffect ==
  ASSUME QuietStep
  PROVE  UNCHANGED <<progress, updates, queue, next, saved, stored>>
<1>1. ASSUME NEW u \in Workers, TakeBatch(u) \/ WorkerExits(u)
      PROVE  UNCHANGED <<progress, updates, queue, next, saved, stored>>
  BY <1>1 DEF TakeBatch, WorkerExits, storerVars
<1>2. ASSUME ReadFailed \/ SkipBatch \/ SendBatch \/ WaitDone \/ Cancel \/ Crash \/ UNCHANGED vars
      PROVE  UNCHANGED <<progress, updates, queue, next, saved, stored>>
  BY <1>2 DEF ReadFailed, SkipBatch, SendBatch, WaitDone, Cancel, Crash, vars, storerVars
<1> QED
  BY <1>1, <1>2 DEF QuietStep

\* An uploader is done: the end of its batch is noted unless the upload failed.
LEMMA NoteEffect ==
  ASSUME MainType, PoolInv, NEW u \in Uploaders, worker[u] = "busy", NoteProgress(u)
  PROVE  /\ job[u][1] \in Jobs /\ job[u][1].part \in Parts
         /\ \/ updates' = updates
            \/ /\ ~UploadFailed(u)
               /\ updates' = updates \cup {ChunkEndIndex(job[u][1].part[1])}
<1>1. PICK j \in Jobs : job[u] = <<j>>
  BY DEF PoolInv, CountedOnce
<1>2. job[u][1] = j
  BY <1>1
<1>3. stream \in BOOLEAN
  BY SizesAssumption DEF MainType
<1>4. j.part \in Parts
  BY <1>3, JobParts
<1> QED
  BY <1>2, <1>4 DEF NoteProgress

\* Every step keeps the types of the storer and of the blobbers.
LEMMA StoreStep == MainType /\ PoolInv /\ StoreType /\ [Next]_vars => StoreType'
<1> SUFFICES ASSUME MainType, PoolInv, StoreType, [Next]_vars PROVE StoreType'
  OBVIOUS
<1>0. Indices' = Indices /\ LastIndex' = LastIndex /\ Parts' = Parts
  BY StreamFixed
<1>a. ChunkNumber \in Nat \ {0} /\ stream \in BOOLEAN
  BY SizesAssumption DEF MainType
<1>b. LastIndex \in Nat /\ \A p \in Parts : ChunkEndIndex(p[1]) \in Indices
  BY <1>a, Ends, JobParts DEF Indices
<1>c. \A v \in Indices : v + ChunkNumber \in 0 .. LastIndex + 2 * ChunkNumber
  <2>1. \A last \in Nat : \A v \in -1 .. last : v + ChunkNumber \in 0 .. last + 2 * ChunkNumber
    BY <1>a
  <2> QED
    BY <2>1, <1>b DEF Indices
<1>1. CASE QuietStep
  <2>1. UNCHANGED <<progress, updates, queue, next, saved, stored>>
    BY <1>1, QuietEffect
  <2> QED
    BY <2>1, <1>0 DEF StoreType
<1>2. CASE BuildBatch
  <2>1. UNCHANGED <<progress, updates, queue, next, stored>> /\ (saved' = saved \/ saved' = NoProgress)
    BY <1>2 DEF BuildBatch
  <2> QED
    BY <2>1, <1>0 DEF StoreType
<1>3. ASSUME NEW u \in Uploaders, worker[u] = "busy", NoteProgress(u),
             UNCHANGED <<progress, queue, next, saved, stored>>
      PROVE  StoreType'
  <2>1. updates' \subseteq Indices
    BY <1>3, <1>b, NoteEffect DEF StoreType
  <2> QED
    BY <2>1, <1>3, <1>0 DEF StoreType
<1>4. CASE LastUploaded
  <2>1. Main \in Uploaders /\ worker[Main] = "busy"
    BY <1>4 DEF LastUploaded, PoolInv, Uploaders
  <2> QED
    BY <2>1, <1>3, <1>4 DEF LastUploaded
<1>5. ASSUME NEW u \in Uploaders, BatchUploaded(u) PROVE StoreType'
  BY <1>3, <1>5 DEF BatchUploaded
<1>6. ASSUME NEW u \in Uploaders, NEW b \in Blobbers, SendUploadRequest(u, b) PROVE StoreType'
  <2>1. UNCHANGED <<progress, updates, queue, next, saved>>
    BY <1>6 DEF SendUploadRequest, storerVars
  <2>2. stored' = stored \/ stored' = [stored EXCEPT ![b] = stored[b] \cup {job[u][1].part}]
    BY <1>6 DEF SendUploadRequest
  <2>3. job[u][1].part \in Parts
    <3>1. b \in sends[u]
      BY <1>6 DEF SendUploadRequest
    <3>2. PICK j \in Jobs : job[u] = <<j>>
      BY <3>1 DEF PoolInv, CountedOnce
    <3>3. job[u][1] = j
      BY <3>2
    <3> QED
      BY <3>3, <1>a, JobParts
  <2>4. stored' \in [Blobbers -> SUBSET Parts]
    BY <2>2, <2>3 DEF StoreType
  <2> QED
    BY <2>1, <2>4, <1>0 DEF StoreType
<1>7. ASSUME NEW i \in Indices, UpdateProgress(i) PROVE StoreType'
  <2>1. UNCHANGED <<progress, next, saved, stored>> /\ updates' \subseteq updates
    BY <1>7 DEF UpdateProgress
  <2>2. queue' \subseteq Indices
    BY <1>7 DEF UpdateProgress, StoreType
  <2> QED
    BY <2>1, <2>2, <1>0 DEF StoreType
<1>8. CASE SaveTick
  <2>1. UNCHANGED <<progress, updates, stored>>
    BY <1>8 DEF SaveTick
  <2>2. saved' \in Indices /\ saved' \in Nat /\ queue' \subseteq queue /\ next' = saved' + ChunkNumber
    BY <1>8, RowMax
  <2>3. next' \in 0 .. LastIndex + 2 * ChunkNumber
    BY <2>2, <1>c
  <2> QED
    BY <2>1, <2>2, <2>3, <1>0 DEF StoreType
<1>9. CASE Expire
  BY <1>9, <1>0 DEF Expire, StoreType
<1>10. CASE Resume
  <2>1. /\ updates' = {} /\ queue' = {} /\ next' = progress' + ChunkNumber /\ saved' = progress'
        /\ \/ saved # NoProgress /\ progress' = saved /\ stored' = stored
           \/ progress' = -1 /\ stored' = [b \in Blobbers |-> {}]
    BY <1>10 DEF Resume
  <2>2. -1 \in Indices
    BY <1>b DEF Indices
  <2>3. progress' \in Indices
    BY <2>1, <2>2 DEF StoreType
  <2>4. next' \in 0 .. LastIndex + 2 * ChunkNumber
    BY <2>1, <2>3, <1>c
  <2>5. stored' \in [Blobbers -> SUBSET Parts]
    BY <2>1 DEF StoreType
  <2> QED
    BY <2>1, <2>3, <2>4, <2>5, <1>0 DEF StoreType
<1> QED
  BY <1>1, <1>2, <1>4, <1>5, <1>6, <1>7, <1>8, <1>9, <1>10 DEF Next, ProcessSteps, UploaderSteps, QuietStep

-----------------------------------------------------------------------------

\* An upload starts with the types.
LEMMA TypedInit == Init => Typed
<1> SUFFICES ASSUME Init PROVE Typed
  OBVIOUS
<1>a. ChunkNumber \in Nat \ {0} /\ stream \in BOOLEAN /\ Capacity \in Nat
  BY SizesAssumption DEF Init
<1>b. LastIndex \in Nat /\ Final \in Nat /\ Batches = 0 .. Final
  BY <1>a, Ends
<1>c. Cardinality(Blobbers) \in Nat /\ Cardinality({}) = 0
  BY BlobberSets
<1>1. MainType
  <2>1. /\ stream \in Kinds /\ pc = "read" /\ result = "none" /\ attempt = 1 /\ batch = 0 /\ built = {}
        /\ mask = Blobbers /\ closed = FALSE /\ ctxDone = FALSE
    BY DEF Init
  <2>2. 0 \in Batches /\ 1 \in 1 .. MaxAttempts
    BY <1>b, BoundsAssumption
  <2> QED
    BY <2>1, <2>2 DEF MainType
<1>2. PoolType
  <2>1. /\ worker = [u \in Uploaders |-> "idle"] /\ job = [u \in Uploaders |-> <<>>]
        /\ sends = [u \in Uploaders |-> {}] /\ consensus = [u \in Uploaders |-> 0]
        /\ errCount = [u \in Uploaders |-> 0] /\ wgErrors = [u \in Uploaders |-> FALSE]
    BY DEF Init
  <2> QED
    BY <2>1, <1>c DEF PoolType
<1>3. PoolInv
  BY <1>2, <1>c DEF Init, PoolInv, CountedOnce
<1>4. Busy = {}
  BY DEF Busy, Init, Uploaders
<1>5. Cardinality(Batches) \in Nat
  BY <1>b, FS_Interval
<1>6. ChanType
  BY <1>a, <1>5 DEF Init, ChanType
<1>7. GroupInv
  <2>1. Cardinality(Busy) = 0
    BY <1>4, <1>c
  <2>2. uploadChan = <<>> /\ uploadWG = 0 /\ batch = 0 /\ pc = "read"
    BY DEF Init
  <2> QED
    BY <2>1, <2>2 DEF GroupInv
<1>8. BudgetType
  BY BoundsAssumption DEF Init, BudgetType
<1>9. StoreType
  <2>1. -1 \in Indices /\ ChunkNumber - 1 \in 0 .. LastIndex + 2 * ChunkNumber
    BY <1>a, <1>b DEF Indices
  <2> QED
    BY <2>1 DEF Init, StoreType
<1> QED
  BY <1>1, <1>3, <1>6, <1>7, <1>8, <1>9 DEF Typed

\* It keeps them.
LEMMA TypedAlways == Spec => []Typed
<1>1. Typed /\ [Next]_vars => Typed'
  <2> SUFFICES ASSUME Typed, [Next]_vars PROVE Typed'
    OBVIOUS
  <2>0. MainType /\ ChanType /\ GroupInv /\ BudgetType /\ PoolInv /\ StoreType /\ PoolType
    BY DEF Typed, PoolInv
  <2>1. MainType' /\ ChanType' /\ GroupInv'
    BY <2>0, MainStep, GroupStep
  <2>2. BudgetType' /\ PoolInv' /\ StoreType'
    BY <2>0, BudgetStep, PoolStep, StoreStep
  <2> QED
    BY <2>1, <2>2 DEF Typed
<1> QED
  BY <1>1, TypedInit, PTL DEF Spec

\* The counters of an upload stay within their bounds: the wait group never goes below
\* zero nor above the number of batches, consensus never counts a blobber's request
\* twice, and the storer's next index never leaves the file by more than two batches.
THEOREM TypeCorrect == Spec => []TypeOK
<1>1. Typed => TypeOK
  BY DEF Typed, TypeOK, MainType, ChanType, BudgetType, PoolInv, PoolType, StoreType
<1> QED
  BY <1>1, TypedAlways, PTL

-----------------------------------------------------------------------------
(* What the blobbers have, and who counts it.                              *)

\* What the steps below use of the types.
LEMMA TypedFacts ==
  ASSUME Typed
  PROVE  /\ MainType /\ ChanType /\ PoolInv /\ PoolType /\ StoreType /\ stream \in BOOLEAN
         /\ Main \in Uploaders /\ Thresh \in Nat
         /\ \A u \in Uploaders : worker[u] = "busy" =>
              job[u][1] \in Jobs /\ job[u][1].part \in Parts
<1>1. MainType /\ ChanType /\ PoolInv /\ PoolType /\ StoreType
  BY DEF Typed, PoolInv
<1>2. stream \in BOOLEAN /\ Main \in Uploaders /\ Thresh \in Nat
  BY <1>1, SizesAssumption DEF MainType, Uploaders
<1>3. ASSUME NEW u \in Uploaders, worker[u] = "busy"
      PROVE  job[u][1] \in Jobs /\ job[u][1].part \in Parts
  <2>1. PICK j \in Jobs : job[u] = <<j>>
    BY <1>1, <1>3 DEF PoolInv, CountedOnce
  <2>2. job[u][1] = j
    BY <2>1
  <2> QED
    BY <2>2, <1>2, JobParts
<1> QED
  BY <1>1, <1>2, <1>3

\* Without mistaken answers a request that is answered is stored and counted, or its
\* blobber is dropped.
LEMMA HonestSend ==
  ASSUME CountsAreHonest, Typed, BuiltInv, NEW u \in Uploaders, NEW b \in Blobbers,
         SendUploadRequest(u, b), Jobs' = Jobs
  PROVE  /\ worker[u] = "busy" /\ b \in sends[u] /\ sends'[u] = sends[u] \ {b} /\ OthersKeep(u)
         /\ worker' = worker /\ job' = job
         /\ \/ /\ stored' = [stored EXCEPT ![b] = stored[b] \cup {job[u][1].part}]
               /\ Accepts(b, job[u][1].part)
               /\ consensus'[u] = consensus[u] + 1 /\ mask' = mask
            \/ /\ stored' = [stored EXCEPT ![b] = stored[b] \cup {job[u][1].part}]
               /\ Accepts(b, job[u][1].part)
               /\ consensus'[u] = consensus[u] /\ mask' = mask \ {b}
            \/ stored' = stored /\ consensus'[u] = consensus[u] /\ mask' = mask \ {b}
<1>0. PoolInv /\ PoolType /\ \A v \in Uploaders : CountedOnce(v)
  BY TypedFacts DEF PoolInv
<1>1. /\ b \in sends[u] /\ sends'[u] = sends[u] \ {b} /\ OthersKeep(u)
      /\ worker' = worker /\ job' = job
  BY <1>0, SendEffect
<1>2. worker[u] = "busy"
  BY <1>0, <1>1 DEF CountedOnce
<1>3. b \in job[u][1].built
  BY <1>1, <1>2 DEF BuiltInv, PoolBuilt
<1>4. Votes(b, job[u][1]) = 1
  BY <1>3 DEF Votes
<1>5. ~Fault("throttle") /\ ~Fault("race")
  BY DEF CountsAreHonest, Fault
<1>6. \/ /\ stored' = [stored EXCEPT ![b] = stored[b] \cup {job[u][1].part}]
         /\ Accepts(b, job[u][1].part) /\ (CountDone(u, 1) \/ CountError(u, b))
      \/ stored' = stored /\ (CountError(u, b) \/ CountDuplicate(u, b))
  BY <1>3, <1>4, <1>5 DEF SendUploadRequest
<1>7. CountDone(u, 1) => consensus'[u] = consensus[u] + 1 /\ mask' = mask
  BY <1>0 DEF CountDone, PoolType
<1>8. CountError(u, b) \/ CountDuplicate(u, b) => consensus'[u] = consensus[u] /\ mask' = mask \ {b}
  BY DEF CountError, CountDuplicate
<1> QED
  BY <1>1, <1>2, <1>6, <1>7, <1>8

\* What a blobber has it keeps, unless the file is uploaded under a new connection.
LEMMA StoredGrows ==
  ASSUME StoreType, [Next]_vars, ~Resume
  PROVE  \A b \in Blobbers : stored[b] \subseteq stored'[b]
<1>1. ASSUME stored' = stored PROVE \A b \in Blobbers : stored[b] \subseteq stored'[b]
  BY <1>1
<1>2. ASSUME NEW u \in Uploaders, NEW c \in Blobbers, SendUploadRequest(u, c)
      PROVE  \A b \in Blobbers : stored[b] \subseteq stored'[b]
  <2>1. stored' = stored \/ stored' = [stored EXCEPT ![c] = stored[c] \cup {job[u][1].part}]
    BY <1>2 DEF SendUploadRequest
  <2> QED
    BY <2>1 DEF StoreType
<1>3. CASE QuietStep
  BY <1>1, <1>3, QuietEffect
<1>4. CASE BuildBatch \/ LastUploaded \/ SaveTick \/ Expire
  BY <1>1, <1>4 DEF BuildBatch, LastUploaded, SaveTick, Expire
<1>5. ASSUME NEW u \in Uploaders, BatchUploaded(u) PROVE stored' = stored
  BY <1>5 DEF BatchUploaded
<1>6. ASSUME NEW i \in Indices, UpdateProgress(i) PROVE stored' = stored
  BY <1>6 DEF UpdateProgress
<1> QED
  BY <1>1, <1>2, <1>3, <1>4, <1>5, <1>6 DEF Next, ProcessSteps, UploaderSteps, QuietStep

\* With more stored, a threshold of blobbers still has a part.
LEMMA HeldGrows ==
  ASSUME \A b \in Blobbers : stored[b] \subseteq stored'[b]
  PROVE  \A p : Held(p) => Held(p)'
<1> SUFFICES ASSUME NEW p, Held(p) PROVE Held(p)'
  OBVIOUS
<1> DEFINE S == {b \in Blobbers : p \in stored[b]}
           T == {b \in Blobbers : p \in stored'[b]}
<1>1. S \subseteq T /\ IsFiniteSet(T)
  BY SizesAssumption, FS_Subset
<1>2. Cardinality(S) <= Cardinality(T) /\ Cardinality(S) \in Nat /\ Cardinality(T) \in Nat
  BY <1>1, FS_Subset, FS_CardinalityType
<1>3. Cardinality(S) >= Thresh
  BY DEF Held
<1>4. Cardinality(T) >= Thresh
  BY <1>2, <1>3, SizesAssumption
<1> QED
  BY <1>4 DEF Held

\* The last request stays the last one a blobber gets.
LEMMA StoredStep == CountsAreHonest /\ Typed /\ BuiltInv /\ StoredInv /\ [Next]_vars => StoredInv'
<1> SUFFICES ASSUME CountsAreHonest, Typed, BuiltInv, StoredInv, [Next]_vars PROVE StoredInv'
  OBVIOUS
<1>0. Parts' = Parts /\ Last' = Last /\ Jobs' = Jobs
  BY StreamFixed
<1>a. StoreType /\ stream \in BOOLEAN
  BY TypedFacts
<1>1. CASE stored' = stored
  BY <1>0, <1>1 DEF StoredInv
<1>2. ASSUME NEW u \in Uploaders, NEW b \in Blobbers, SendUploadRequest(u, b) PROVE StoredInv'
  <2>1. /\ worker[u] = "busy"
        /\ \/ /\ stored' = [stored EXCEPT ![b] = stored[b] \cup {job[u][1].part}]
              /\ Accepts(b, job[u][1].part)
           \/ stored' = stored
    BY <1>0, <1>2, HonestSend
  <2>2. job[u][1].part \in Parts
    BY <2>1, TypedFacts
  <2>3. CASE stored' = [stored EXCEPT ![b] = stored[b] \cup {job[u][1].part}] /\ Accepts(b, job[u][1].part)
    <3>1. \A c \in Blobbers : stored'[c] = IF c = b THEN stored[b] \cup {job[u][1].part} ELSE stored[c]
      BY <2>3, <1>a DEF StoreType
    <3>2. stored[b] \subseteq Parts
      BY <1>a DEF StoreType
    <3>3. job[u][1].part = Last => Parts \ {Last} \subseteq stored[b]
      <4>1. Last[2] = "last"
        BY DEF Last
      <4> QED
        BY <4>1, <2>3 DEF Accepts
    <3>4. Last \in stored'[b] => stored'[b] = Parts
      BY <3>1, <3>2, <3>3, <2>2 DEF StoredInv
    <3> QED
      BY <3>1, <3>4, <1>0 DEF StoredInv
  <2> QED
    BY <2>1, <2>3, <1>1
<1>3. CASE Resume
  <2>1. stored' = stored \/ stored' = [b \in Blobbers |-> {}]
    BY <1>3 DEF Resume
  <2>2. CASE stored' = [b \in Blobbers |-> {}]
    BY <2>2, <1>0 DEF StoredInv
  <2> QED
    BY <2>1, <2>2, <1>1
<1>4. CASE QuietStep
  BY <1>1, <1>4, QuietEffect
<1>5. CASE BuildBatch \/ LastUploaded \/ SaveTick \/ Expire
  BY <1>1, <1>5 DEF BuildBatch, LastUploaded, SaveTick, Expire
<1>6. ASSUME NEW u \in Uploaders, BatchUploaded(u) PROVE stored' = stored
  BY <1>6 DEF BatchUploaded
<1>7. ASSUME NEW i \in Indices, UpdateProgress(i) PROVE stored' = stored
  BY <1>7 DEF UpdateProgress
<1> QED
  BY <1>1, <1>2, <1>3, <1>4, <1>5, <1>6, <1>7 DEF Next, ProcessSteps, UploaderSteps, QuietStep

\* The requests go from process through the channel to the uploaders.
LEMMA BuiltStep == CountsAreHonest /\ Typed /\ BuiltInv /\ [Next]_vars => BuiltInv'
<1> SUFFICES ASSUME CountsAreHonest, Typed, BuiltInv, [Next]_vars PROVE BuiltInv'
  OBVIOUS
<1>0. Jobs' = Jobs /\ Uploaders' = Uploaders
  BY StreamFixed DEF Uploaders
<1>a. ChanType /\ PoolType /\ PoolInv /\ Main \in Uploaders /\ mask \subseteq Blobbers /\ uploadChan \in Seq(Jobs)
  BY TypedFacts DEF MainType, ChanType
<1>c. (pc \in {"send", "wait", "last"} => mask \subseteq built) /\ ChanBuilt /\ PoolBuilt
  BY DEF BuiltInv
<1>d. SUFFICES /\ pc' \in {"send", "wait", "last"} => mask' \subseteq built'
               /\ ChanBuilt' /\ PoolBuilt'
  BY DEF BuiltInv
<1>1. ASSUME uploadChan' = uploadChan, mask' \subseteq mask PROVE ChanBuilt'
  BY <1>1, <1>c DEF ChanBuilt
<1>2. ASSUME UNCHANGED poolVars PROVE PoolBuilt'
  BY <1>0, <1>2, <1>c DEF PoolBuilt, poolVars
<1>3. ASSUME NEW u \in Uploaders, NEW j \in Jobs, StartUpload(u, j), mask \subseteq j.built PROVE PoolBuilt'
  <2>1. /\ PoolType' /\ OthersKeep(u)
        /\ worker'[u] = "busy" /\ job'[u] = <<j>> /\ sends'[u] = mask
    BY <1>3, <1>0, <1>a, StartEffect
  <2>2. job'[u][1] = j
    BY <2>1
  <2>3. sends'[u] \subseteq job'[u][1].built
    BY <2>1, <2>2, <1>3
  <2>4. ASSUME NEW v \in Uploaders, v # u, worker'[v] = "busy" PROVE sends'[v] \subseteq job'[v][1].built
    <3>1. worker'[v] = worker[v] /\ job'[v] = job[v] /\ sends'[v] = sends[v]
      BY <2>1, <2>4 DEF OthersKeep
    <3> QED
      BY <3>1, <2>4, <1>c DEF PoolBuilt
  <2> QED
    BY <2>3, <2>4, <1>0 DEF PoolBuilt
<1>4. ASSUME NEW u \in Uploaders, FreeUploader(u) PROVE PoolBuilt'
  <2>1. OthersKeep(u) /\ worker'[u] = "idle"
    BY <1>4, <1>0, <1>a, FreeEffect
  <2> QED
    BY <2>1, <1>0, <1>c DEF PoolBuilt, OthersKeep
<1>5. CASE ReadFailed \/ SkipBatch
  <2>1. UNCHANGED poolVars /\ UNCHANGED <<uploadChan, mask>> /\ pc' \in {"read", "done"}
    BY <1>5 DEF ReadFailed, SkipBatch, Return, chanVars
  <2> QED
    BY <2>1, <1>1, <1>2
<1>6. CASE BuildBatch
  <2>1. UNCHANGED poolVars /\ UNCHANGED <<uploadChan, mask>>
    BY <1>6 DEF BuildBatch, chanVars
  <2>2. ~Fault("build")
    BY DEF CountsAreHonest, Fault
  <2>3. pc' = "done" \/ built' = mask
    BY <1>6, <2>2 DEF BuildBatch, Return
  <2> QED
    BY <2>1, <2>3, <1>1, <1>2
<1>7. CASE SendBatch
  <2>1. UNCHANGED poolVars /\ UNCHANGED <<mask, built>> /\ mask \subseteq built
    BY <1>7, <1>c DEF SendBatch
  <2>2. \/ uploadChan' = uploadChan
        \/ uploadChan' = Append(uploadChan, [part |-> <<batch, "body">>, built |-> built])
    BY <1>7 DEF SendBatch
  <2>3. CASE uploadChan' = Append(uploadChan, [part |-> <<batch, "body">>, built |-> built])
    <3> DEFINE e == [part |-> <<batch, "body">>, built |-> built]
    <3>1. e.built = built
      OBVIOUS
    <3> HIDE DEF e
    <3>2. uploadChan' = Append(uploadChan, e)
      BY <2>3 DEF e
    <3>3. Len(uploadChan') = Len(uploadChan) + 1 /\ Len(uploadChan) \in Nat
      BY <3>2, <1>a
    <3>4. \A k \in 1 .. Len(uploadChan') : uploadChan'[k] = IF k = Len(uploadChan) + 1 THEN e ELSE uploadChan[k]
      BY <3>2, <3>3, <1>a
    <3>5. ASSUME NEW k \in 1 .. Len(uploadChan') PROVE mask' \subseteq uploadChan'[k].built
      <4>1. CASE k = Len(uploadChan) + 1
        BY <4>1, <3>1, <3>4, <2>1
      <4>2. CASE k # Len(uploadChan) + 1
        <5>1. k \in 1 .. Len(uploadChan) /\ uploadChan'[k] = uploadChan[k]
          BY <4>2, <3>3, <3>4
        <5> QED
          BY <5>1, <2>1, <1>c DEF ChanBuilt
      <4> QED
        BY <4>1, <4>2
    <3>6. ChanBuilt'
      BY <3>5 DEF ChanBuilt
    <3> QED
      BY <3>6, <2>1, <1>2
  <2> QED
    BY <2>1, <2>2, <2>3, <1>1, <1>2
<1>8. CASE WaitDone
  <2>1. UNCHANGED <<mask, built, uploadChan>> /\ mask \subseteq built
    BY <1>8, <1>c DEF WaitDone, chanVars
  <2>2. CASE StartUpload(Main, [part |-> <<Final, "last">>, built |-> built])
    <3>1. [part |-> <<Final, "last">>, built |-> built] \in Jobs
      BY TypedFacts DEF Jobs, Parts, MainType
    <3>2. PoolBuilt'
      BY <2>1, <2>2, <3>1, <1>3, <1>a
    <3> QED
      BY <2>1, <3>2, <1>1
  <2> QED
    BY <2>1, <2>2, <1>1, <1>2, <1>8 DEF WaitDone
<1>9. CASE LastUploaded
  <2>1. pc' = "done" /\ UNCHANGED <<mask, uploadChan>> /\ FreeUploader(Main)
    BY <1>9 DEF LastUploaded, Return, chanVars
  <2> QED
    BY <2>1, <1>1, <1>4, <1>a
<1>10. ASSUME NEW u \in Workers, TakeBatch(u)
       PROVE  /\ pc' \in {"send", "wait", "last"} => mask' \subseteq built'
              /\ ChanBuilt' /\ PoolBuilt'
  <2>1. UNCHANGED <<mask, built, pc>> /\ uploadChan # <<>> /\ uploadChan' = Tail(uploadChan)
    BY <1>10 DEF TakeBatch, mainVars
  <2>2. /\ Len(uploadChan') = Len(uploadChan) - 1 /\ Len(uploadChan) \in Nat /\ Len(uploadChan) >= 1
        /\ \A k \in 1 .. Len(uploadChan') : uploadChan'[k] = uploadChan[k + 1]
    BY <2>1, <1>a
  <2>3. ChanBuilt'
    <3>1. ASSUME NEW k \in 1 .. Len(uploadChan') PROVE mask' \subseteq uploadChan'[k].built
      <4>1. k + 1 \in 1 .. Len(uploadChan) /\ uploadChan'[k] = uploadChan[k + 1]
        BY <2>2
      <4> QED
        BY <4>1, <2>1, <1>c DEF ChanBuilt
    <3> QED
      BY <3>1 DEF ChanBuilt
  <2>4. PoolBuilt'
    <3>1. CASE UNCHANGED poolVars
      BY <3>1, <1>2
    <3>2. CASE StartUpload(u, Head(uploadChan))
      <4>1. Head(uploadChan) \in Jobs /\ Head(uploadChan) = uploadChan[1] /\ 1 \in 1 .. Len(uploadChan)
        BY <2>1, <2>2, <1>a
      <4>2. mask \subseteq Head(uploadChan).built
        BY <4>1, <1>c DEF ChanBuilt
      <4> QED
        BY <3>2, <4>1, <4>2, <1>3 DEF Uploaders
    <3> QED
      BY <3>1, <3>2, <1>10 DEF TakeBatch
  <2> QED
    BY <2>1, <2>3, <2>4, <1>c
<1>11. ASSUME NEW u \in Workers, WorkerExits(u)
       PROVE  /\ pc' \in {"send", "wait", "last"} => mask' \subseteq built'
              /\ ChanBuilt' /\ PoolBuilt'
  <2>1. /\ UNCHANGED <<mask, built, pc, uploadChan, job, sends>>
        /\ worker' = [worker EXCEPT ![u] = "exited"]
    BY <1>11 DEF WorkerExits, mainVars, chanVars
  <2>2. \A v \in Uploaders : worker'[v] = "busy" => worker[v] = "busy"
    BY <2>1, <1>a DEF PoolType
  <2> QED
    BY <2>1, <2>2, <1>0, <1>1, <1>c DEF PoolBuilt
<1>12. ASSUME NEW u \in Uploaders, BatchUploaded(u)
       PROVE  /\ pc' \in {"send", "wait", "last"} => mask' \subseteq built'
              /\ ChanBuilt' /\ PoolBuilt'
  <2>1. UNCHANGED <<mask, built, pc, uploadChan>> /\ FreeUploader(u)
    BY <1>12 DEF BatchUploaded, mainVars
  <2> QED
    BY <2>1, <1>1, <1>4, <1>c
<1>13. ASSUME NEW u \in Uploaders, NEW b \in Blobbers, SendUploadRequest(u, b)
       PROVE  /\ pc' \in {"send", "wait", "last"} => mask' \subseteq built'
              /\ ChanBuilt' /\ PoolBuilt'
  <2>1. UNCHANGED <<built, pc, uploadChan>>
    BY <1>13 DEF SendUploadRequest, mainVars, chanVars
  <2>2. /\ sends'[u] = sends[u] \ {b} /\ OthersKeep(u) /\ worker' = worker /\ job' = job
        /\ mask' \subseteq mask
    BY <1>0, <1>13, HonestSend
  <2>3. PoolBuilt'
    <3>1. \A v \in Uploaders : sends'[v] \subseteq sends[v]
      BY <2>2 DEF OthersKeep
    <3> QED
      BY <3>1, <2>2, <1>0, <1>c DEF PoolBuilt
  <2> QED
    BY <2>1, <2>2, <2>3, <1>1, <1>c
<1>14. CASE (\E i \in Indices : UpdateProgress(i)) \/ SaveTick \/ Cancel \/ Expire \/ UNCHANGED vars
  <2>1. UNCHANGED poolVars /\ UNCHANGED <<mask, built, pc, uploadChan>>
    BY <1>14 DEF UpdateProgress, SaveTick, Cancel, Expire, vars, mainVars, chanVars
  <2> QED
    BY <2>1, <1>1, <1>2, <1>c
<1>15. CASE Crash
  <2>1. UNCHANGED <<mask, uploadChan>> /\ pc' = "dead" /\ worker' = [u \in Uploaders |-> "exited"]
    BY <1>15 DEF Crash, chanVars
  <2> QED
    BY <2>1, <1>0, <1>1 DEF PoolBuilt
<1>16. CASE Resume
  <2>1. uploadChan' = <<>> /\ pc' = "read" /\ worker' = [u \in Uploaders |-> "idle"]
    BY <1>16 DEF Resume
  <2>2. ChanBuilt'
    BY <2>1 DEF ChanBuilt
  <2> QED
    BY <2>1, <2>2, <1>0 DEF PoolBuilt
<1> QED
  BY <1>5, <1>6, <1>7, <1>8, <1>9, <1>10, <1>11, <1>12, <1>13, <1>14, <1>15, <1>16
     DEF Next, ProcessSteps, UploaderSteps

\* Uploaders keep counting only blobbers that have their requests.
LEMMA CountStep == CountsAreHonest /\ Typed /\ BuiltInv /\ CountInv /\ [Next]_vars => CountInv'
<1> SUFFICES ASSUME CountsAreHonest, Typed, BuiltInv, CountInv, [Next]_vars PROVE CountInv'
  OBVIOUS
<1>0. Jobs' = Jobs /\ Uploaders' = Uploaders
  BY StreamFixed DEF Uploaders
<1>a. PoolType /\ StoreType /\ Main \in Uploaders /\ mask \subseteq Blobbers /\ uploadChan \in Seq(Jobs)
  BY TypedFacts DEF MainType, ChanType
<1>b. \A u \in Uploaders : worker[u] = "busy" => consensus[u] <= Cardinality(Answered(u))
  BY DEF CountInv
<1>c. SUFFICES \A u \in Uploaders : worker'[u] = "busy" => consensus'[u] <= Cardinality(Answered(u)')
  BY <1>0 DEF CountInv
<1>d. \A u \in Uploaders : consensus[u] \in Nat
  BY <1>a, BlobberSets DEF PoolType
<1>e. \A u \in Uploaders : /\ IsFiniteSet(Answered(u)) /\ IsFiniteSet(Answered(u)')
                           /\ Cardinality(Answered(u)) \in Nat /\ Cardinality(Answered(u)') \in Nat
  BY SizesAssumption, FS_Subset, FS_CardinalityType DEF Answered
\* An uploader that keeps what it has, while the blobbers keep what they have.
<1>1. ASSUME ~Resume, NEW u \in Uploaders, worker'[u] = worker[u], job'[u] = job[u],
             sends'[u] = sends[u], consensus'[u] = consensus[u]
      PROVE  worker'[u] = "busy" => consensus'[u] <= Cardinality(Answered(u)')
  <2>1. Answered(u) \subseteq Answered(u)'
    BY <1>1, <1>a, StoredGrows DEF Answered
  <2>2. Cardinality(Answered(u)) <= Cardinality(Answered(u)')
    BY <2>1, <1>e, FS_Subset
  <2>3. worker[u] = "busy" => consensus[u] <= Cardinality(Answered(u))
    BY <1>b
  <2>4. \A x, y, z \in Nat : x <= y /\ y <= z => x <= z
    OBVIOUS
  <2> QED
    BY <2>2, <2>3, <2>4, <1>1, <1>d, <1>e
<1>2. ASSUME ~Resume, UNCHANGED poolVars
      PROVE  \A u \in Uploaders : worker'[u] = "busy" => consensus'[u] <= Cardinality(Answered(u)')
  <2>1. UNCHANGED <<worker, job, sends, consensus>>
    BY <1>2 DEF poolVars
  <2> QED
    BY <2>1, <1>1, <1>2
<1>3. ASSUME ~Resume, NEW u \in Uploaders, OthersKeep(u),
             worker'[u] = "busy" => consensus'[u] <= Cardinality(Answered(u)')
      PROVE  \A v \in Uploaders : worker'[v] = "busy" => consensus'[v] <= Cardinality(Answered(v)')
  <2>1. ASSUME NEW v \in Uploaders, v # u
        PROVE  worker'[v] = "busy" => consensus'[v] <= Cardinality(Answered(v)')
    <3>1. worker'[v] = worker[v] /\ job'[v] = job[v] /\ sends'[v] = sends[v] /\ consensus'[v] = consensus[v]
      BY <2>1, <1>3 DEF OthersKeep
    <3> QED
      BY <3>1, <1>1, <1>3
  <2> QED
    BY <2>1, <1>3
<1>4. ASSUME ~Resume, NEW u \in Uploaders, NEW j \in Jobs, StartUpload(u, j)
      PROVE  \A v \in Uploaders : worker'[v] = "busy" => consensus'[v] <= Cardinality(Answered(v)')
  <2>1. OthersKeep(u) /\ consensus'[u] = 0
    BY <1>4, <1>0, <1>a, StartEffect
  <2>2. consensus'[u] <= Cardinality(Answered(u)')
    BY <2>1, <1>e
  <2> QED
    BY <2>1, <2>2, <1>3, <1>4
<1>5. ASSUME ~Resume, NEW u \in Uploaders, FreeUploader(u)
      PROVE  \A v \in Uploaders : worker'[v] = "busy" => consensus'[v] <= Cardinality(Answered(v)')
  <2>1. OthersKeep(u) /\ worker'[u] = "idle"
    BY <1>5, <1>0, <1>a, FreeEffect
  <2> QED
    BY <2>1, <1>3, <1>5
<1>6. ASSUME ~Resume, NEW u \in Uploaders, NEW b \in Blobbers, SendUploadRequest(u, b)
      PROVE  \A v \in Uploaders : worker'[v] = "busy" => consensus'[v] <= Cardinality(Answered(v)')
  <2>1. /\ worker[u] = "busy" /\ b \in sends[u] /\ sends'[u] = sends[u] \ {b} /\ OthersKeep(u)
        /\ job' = job
        /\ \/ /\ stored' = [stored EXCEPT ![b] = stored[b] \cup {job[u][1].part}]
              /\ consensus'[u] = consensus[u] + 1
           \/ consensus'[u] = consensus[u]
    BY <1>0, <1>6, HonestSend
  <2>2. \A c \in Blobbers : stored[c] \subseteq stored'[c]
    BY <1>6, <1>a, StoredGrows
  <2>3. Answered(u) \subseteq Answered(u)' /\ b \notin Answered(u)
    BY <2>1, <2>2 DEF Answered
  <2>4. Cardinality(Answered(u)) <= Cardinality(Answered(u)')
    BY <2>3, <1>e, FS_Subset
  <2>5. CASE consensus'[u] = consensus[u]
    BY <2>5, <2>1, <2>4, <1>b, <1>d, <1>e, <1>3, <1>6
  <2>6. CASE /\ stored' = [stored EXCEPT ![b] = stored[b] \cup {job[u][1].part}]
             /\ consensus'[u] = consensus[u] + 1
    <3>1. b \in Answered(u)'
      <4>1. job'[u][1].part \in stored'[b]
        BY <2>1, <2>6, <1>a DEF StoreType
      <4> QED
        BY <4>1, <2>1 DEF Answered
    <3>2. Answered(u) \cup {b} \subseteq Answered(u)'
      BY <2>3, <3>1
    <3>3. Cardinality(Answered(u) \cup {b}) = Cardinality(Answered(u)) + 1
      BY <2>3, <1>e, FS_AddElement
    <3>4. Cardinality(Answered(u) \cup {b}) <= Cardinality(Answered(u)')
      BY <3>2, <1>e, FS_Subset
    <3>5. consensus'[u] <= Cardinality(Answered(u)')
      BY <3>3, <3>4, <2>1, <2>6, <1>b, <1>d, <1>e
    <3> QED
      BY <3>5, <2>1, <1>3, <1>6
  <2> QED
    BY <2>1, <2>5, <2>6
<1>7. CASE Resume \/ Crash
  <2>1. \A u \in Uploaders : worker'[u] # "busy"
    BY <1>7 DEF Resume, Crash
  <2> QED
    BY <2>1
<1>8. CASE ~Resume /\ (ReadFailed \/ SkipBatch \/ BuildBatch \/ SendBatch)
  BY <1>8, <1>2 DEF ReadFailed, SkipBatch, BuildBatch, SendBatch
<1>9. CASE ~Resume /\ WaitDone
  <2>1. [part |-> <<Final, "last">>, built |-> built] \in Jobs
    BY TypedFacts DEF Jobs, Parts, MainType
  <2> QED
    BY <2>1, <1>9, <1>2, <1>4, <1>a DEF WaitDone
<1>10. CASE ~Resume /\ LastUploaded
  BY <1>10, <1>5, <1>a DEF LastUploaded
<1>11. ASSUME ~Resume, NEW u \in Workers, TakeBatch(u)
       PROVE  \A v \in Uploaders : worker'[v] = "busy" => consensus'[v] <= Cardinality(Answered(v)')
  <2>1. u \in Uploaders /\ Head(uploadChan) \in Jobs
    BY <1>11, <1>a DEF TakeBatch, Uploaders
  <2> QED
    BY <2>1, <1>11, <1>2, <1>4 DEF TakeBatch
<1>12. ASSUME ~Resume, NEW u \in Workers, WorkerExits(u)
       PROVE  \A v \in Uploaders : worker'[v] = "busy" => consensus'[v] <= Cardinality(Answered(v)')
  <2>1. /\ UNCHANGED <<job, sends, consensus, errCount>> /\ worker' = [worker EXCEPT ![u] = "exited"]
        /\ u \in Uploaders
    BY <1>12 DEF WorkerExits, Uploaders
  <2>2. worker'[u] = "exited" /\ OthersKeep(u)
    BY <2>1, <1>a DEF PoolType, OthersKeep
  <2> QED
    BY <2>1, <2>2, <1>3, <1>12
<1>13. ASSUME ~Resume, NEW u \in Uploaders, BatchUploaded(u)
       PROVE  \A v \in Uploaders : worker'[v] = "busy" => consensus'[v] <= Cardinality(Answered(v)')
  BY <1>13, <1>5 DEF BatchUploaded
<1>14. CASE ~Resume /\ ((\E i \in Indices : UpdateProgress(i)) \/ SaveTick \/ Cancel \/ Expire \/ UNCHANGED vars)
  BY <1>14, <1>2 DEF UpdateProgress, SaveTick, Cancel, Expire, vars
<1> QED
  BY <1>6, <1>7, <1>8, <1>9, <1>10, <1>11, <1>12, <1>13, <1>14 DEF Next, ProcessSteps, UploaderSteps

-----------------------------------------------------------------------------
(* The saved progress.                                                     *)

\* No batch has two parts when the last one is one request.
LEMMA OnePart ==
  ASSUME OneRequestEnd, stream \in BOOLEAN
  PROVE  /\ \A p, q \in Parts : ChunkEndIndex(p[1]) = ChunkEndIndex(q[1]) => p = q
         /\ \A p \in Parts : p[1] = Final => p = Last
<1>0. /\ Final \in Nat /\ Batches = 0 .. Final /\ LastIndex \in Nat
      /\ \A n, m \in Batches : n < m => ChunkEndIndex(n) < ChunkEndIndex(m)
      /\ \A n \in Batches : ChunkEndIndex(n) \in 0 .. LastIndex
  BY Ends
<1>1. LastBufferOnly(Final)
  <2>1. LastIndex \in {Chunks - 1, Chunks}
    BY DEF LastIndex
  <2>2. Chunks - Final * ChunkNumber <= MaxBlocks
    BY <2>1 DEF OneRequestEnd, Final
  <2>3. Blocks(Final) = Chunks - Final * ChunkNumber
    BY <1>0 DEF Blocks
  <2> QED
    BY <2>2, <2>3 DEF LastBufferOnly
<1>2. \A p \in Parts : p = Last \/ (p = <<p[1], "body">> /\ p[1] # Final)
  BY <1>1 DEF Parts, Last
<1>3. \A p \in Parts : p[1] \in Batches
  BY JobParts
<1>4. Last[1] = Final
  BY DEF Last
<1>5. ASSUME NEW p \in Parts, NEW q \in Parts, ChunkEndIndex(p[1]) = ChunkEndIndex(q[1]) PROVE p = q
  <2>1. p[1] = q[1]
    <3>1. p[1] \in Nat /\ q[1] \in Nat
      BY <1>0, <1>3
    <3>2. ~(p[1] < q[1]) /\ ~(q[1] < p[1])
      <4>1. \A x, y \in Nat : x < y => x # y
        OBVIOUS
      <4>2. ChunkEndIndex(p[1]) \in Nat /\ ChunkEndIndex(q[1]) \in Nat
        BY <1>0, <1>3
      <4> QED
        BY <4>1, <4>2, <1>0, <1>3, <1>5
    <3> QED
      BY <3>1, <3>2
  <2> QED
    BY <2>1, <1>2, <1>4
<1> QED
  BY <1>2, <1>5

\* Indices on the grid of full batches.
LEMMA GridDistance ==
  ASSUME NEW c \in Nat \ {0}, NEW d \in Nat
  PROVE  d % c = 0 <=> \E q \in Nat : d = q * c
<1>1. d = (d \div c) * c + (d % c) /\ d \div c \in Nat
  OBVIOUS
<1>2. ASSUME NEW q \in Nat, d = q * c PROVE d % c = 0
  BY <1>2
<1>3. ASSUME d % c = 0 PROVE \E q \in Nat : d = q * c
  <2> DEFINE e == d \div c
  <2>1. e \in Nat /\ d = e * c + 0
    BY <1>1, <1>3
  <2> HIDE DEF e
  <2>2. d = e * c
    BY <2>1
  <2> QED
    BY <2>1, <2>2
<1> QED
  BY <1>2, <1>3

\* Between two neighbours on the grid there is nothing.
LEMMA GridNext ==
  ASSUME NEW c \in Nat \ {0}, NEW m \in Int, NEW n \in Int, m * c < n * c
  PROVE  \E q \in Nat : n * c = (m + 1) * c + q * c
<1>1. m < n
  <2> SUFFICES ASSUME n <= m PROVE FALSE
    OBVIOUS
  <2>1. n * c <= m * c /\ n * c \in Int /\ m * c \in Int
    BY TimesMonotone
  <2> QED
    BY <2>1
<1>2. PICK q \in Nat : n = m + 1 + q
  <2>1. n - m - 1 \in Nat /\ n = m + 1 + (n - m - 1)
    BY <1>1
  <2> QED
    BY <2>1
<1>3. n * c = (m + 1) * c + q * c
  BY <1>2
<1> QED
  BY <1>3

\* What the ticker saves is on the grid and covers uploaded batches.
LEMMA TickCovers ==
  ASSUME OneRequestEnd, Typed, ProgressInv, SavedUploaded, SaveTick
  PROVE  /\ OnGrid(saved')
         /\ \A p \in Parts : ChunkEndIndex(p[1]) <= saved' => Held(p)
<1>0. ChunkNumber \in Nat \ {0} /\ stream \in BOOLEAN /\ MainType /\ StoreType
  BY TypedFacts, SizesAssumption
<1>1. /\ saved' \in queue /\ saved' >= next /\ saved' \in Indices /\ next \in Nat /\ saved' \in Nat
      /\ (saved' - next) % ChunkNumber = 0
      /\ \A k \in next .. saved' : (k - next) % ChunkNumber = 0 => k \in queue
  BY <1>0, RowMax
<1>2. /\ LastIndex \in Nat /\ Final \in Batches /\ ChunkEndIndex(Final) = LastIndex
      /\ \A n \in Batches : n \in Nat /\ ChunkEndIndex(n) \in Nat /\ ChunkEndIndex(n) <= LastIndex
      /\ \A n \in Batches : n # Final => ChunkEndIndex(n) = (n + 1) * ChunkNumber - 1
  BY <1>0, Ends
<1>3. saved # NoProgress /\ next = saved + ChunkNumber /\ OnGrid(saved)
  BY DEF SaveTick, ProgressInv
<1>4. PICK m \in Int : saved = m * ChunkNumber - 1
  BY <1>3 DEF OnGrid
<1>5. next = (m + 1) * ChunkNumber - 1
  BY <1>0, <1>3, <1>4
<1>6. OnGrid(saved')
  <2>0. /\ \A x, y \in Nat : x >= y => x - y \in Nat
        /\ \A x, y, z \in Int : x - y = z => x = y + z
    OBVIOUS
  <2>a. saved' \in Nat /\ next \in Nat /\ saved' >= next /\ saved' \in Int /\ next \in Int
    BY <1>1
  <2>1. saved' - next \in Nat
    BY <2>0, <2>a
  <2>2. PICK q \in Nat : saved' - next = q * ChunkNumber
    BY <2>1, <1>0, <1>1, GridDistance
  <2>b. q * ChunkNumber \in Int
    BY <1>0
  <2>3. saved' = next + q * ChunkNumber
    BY <2>0, <2>a, <2>b, <2>2
  <2>4. saved' = (m + 1 + q) * ChunkNumber - 1
    BY <2>3, <1>0, <1>5
  <2>5. m + 1 + q \in Int
    OBVIOUS
  <2> QED
    BY <2>4, <2>5 DEF OnGrid
<1>7. ASSUME NEW p \in Parts, ChunkEndIndex(p[1]) <= saved' PROVE Held(p)
  <2>0. p[1] \in Batches
    BY <1>0, JobParts
  <2>1. CASE ChunkEndIndex(p[1]) <= saved
    BY <2>1 DEF SavedUploaded, Held
  <2>2. CASE ~(ChunkEndIndex(p[1]) <= saved)
    <3>1. ChunkEndIndex(p[1]) \in queue
      <4>1. CASE p[1] = Final
        <5>1. saved' <= LastIndex
          BY <1>1, <1>2 DEF Indices
        <5>2. saved' = LastIndex
          BY <5>1, <4>1, <1>1, <1>2, <1>7
        <5> QED
          BY <5>2, <4>1, <1>1, <1>2
      <4>2. CASE p[1] # Final
        <5> DEFINE n == p[1] + 1
                   e == ChunkEndIndex(p[1])
        <5>1. n \in Int /\ e = n * ChunkNumber - 1 /\ e \in Nat
          BY <4>2, <2>0, <1>2
        <5>2. n * ChunkNumber \in Int /\ m * ChunkNumber \in Int
          BY <5>1, <1>0
        <5> HIDE DEF n
        <5>3. m * ChunkNumber < n * ChunkNumber
          <6>1. ~(n * ChunkNumber - 1 <= m * ChunkNumber - 1)
            BY <5>1, <2>2, <1>4
          <6> QED
            BY <6>1, <5>2
        <5>4. PICK q \in Nat : n * ChunkNumber = (m + 1) * ChunkNumber + q * ChunkNumber
          BY <5>1, <5>3, <1>0, GridNext
        <5>5. (m + 1) * ChunkNumber \in Int /\ q * ChunkNumber \in Nat
          BY <1>0
        <5> HIDE DEF e
        <5>6. e - next = q * ChunkNumber /\ e - next \in Nat /\ e >= next
          BY <5>1, <5>4, <5>5, <1>1, <1>5
        <5>7. (e - next) % ChunkNumber = 0
          BY <5>6, <1>0, GridDistance
        <5>8. e <= saved'
          BY <1>7 DEF e
        <5>9. e \in next .. saved'
          BY <5>1, <5>6, <5>8, <1>1
        <5>10. e \in queue
          BY <5>7, <5>9, <1>1
        <5> QED
          BY <5>10 DEF e
      <4> QED
        BY <4>1, <4>2
    <3> QED
      BY <3>1 DEF ProgressInv
  <2> QED
    BY <2>1, <2>2
<1> QED
  BY <1>6, <1>7

\* Progress that is noted belongs to a part that a threshold of blobbers has.
LEMMA NotedHeld ==
  ASSUME OneRequestEnd, Typed, CountInv, ProgressInv, NEW u \in Uploaders, worker[u] = "busy",
         NoteProgress(u)
  PROVE  \A v \in updates' : \A p \in Parts : ChunkEndIndex(p[1]) = v => Held(p)
<1>0. stream \in BOOLEAN /\ MainType /\ PoolInv /\ PoolType /\ Thresh \in Nat
  BY TypedFacts
<1>1. /\ job[u][1].part \in Parts
      /\ \/ updates' = updates
         \/ /\ ~UploadFailed(u)
            /\ updates' = updates \cup {ChunkEndIndex(job[u][1].part[1])}
  BY <1>0, NoteEffect
<1>2. \A v \in updates : \A p \in Parts : ChunkEndIndex(p[1]) = v => Held(p)
  BY DEF ProgressInv
<1>3. ASSUME ~UploadFailed(u) PROVE Held(job[u][1].part)
  <2> DEFINE S == {b \in Blobbers \ sends[u] : job[u][1].part \in stored[b]}
             T == {b \in Blobbers : job[u][1].part \in stored[b]}
  <2>1. S \subseteq T /\ IsFiniteSet(T)
    BY SizesAssumption, FS_Subset
  <2>2. Cardinality(S) <= Cardinality(T) /\ Cardinality(S) \in Nat /\ Cardinality(T) \in Nat
    BY <2>1, FS_Subset, FS_CardinalityType
  <2>3. consensus[u] <= Cardinality(S)
    BY DEF CountInv, Answered
  <2>4. consensus[u] \in Nat /\ ~(consensus[u] < Thresh)
    BY <1>0, <1>3, BlobberSets DEF UploadFailed, PoolType
  <2> HIDE DEF S, T
  <2>5. Cardinality(T) >= Thresh
    BY <2>2, <2>3, <2>4, <1>0
  <2> QED
    BY <2>5 DEF Held, T
<1>4. \A p \in Parts : ChunkEndIndex(p[1]) = ChunkEndIndex(job[u][1].part[1]) => p = job[u][1].part
  BY <1>0, <1>1, OnePart
<1> QED
  BY <1>1, <1>2, <1>3, <1>4

\* The progress keeps to what is uploaded.
LEMMA ProgressStep ==
  /\ CountsAreHonest /\ OneRequestEnd /\ Typed /\ BuiltInv /\ CountInv
  /\ ProgressInv /\ SavedUploaded /\ [Next]_vars
  => ProgressInv' /\ SavedUploaded'
<1> SUFFICES ASSUME CountsAreHonest, OneRequestEnd, Typed, BuiltInv, CountInv, ProgressInv, SavedUploaded,
                    [Next]_vars
             PROVE  ProgressInv' /\ SavedUploaded'
  OBVIOUS
<1>0. Parts' = Parts /\ \A n : ChunkEndIndex(n)' = ChunkEndIndex(n)
  BY StreamFixed
<1>a. /\ ChunkNumber \in Nat \ {0} /\ stream \in BOOLEAN /\ MainType /\ PoolInv /\ StoreType
      /\ Main \in Uploaders
  BY TypedFacts, SizesAssumption
<1>b. \A p \in Parts : ChunkEndIndex(p[1]) \in Nat
  BY <1>a, JobParts
<1>c. /\ saved # NoProgress => OnGrid(saved) /\ next = saved + ChunkNumber
      /\ \A v \in updates \cup queue : \A p \in Parts : ChunkEndIndex(p[1]) = v => Held(p)
      /\ \A p \in Parts : ChunkEndIndex(p[1]) <= progress => Held(p)
      /\ \A p \in Parts : ChunkEndIndex(p[1]) <= saved => Held(p)
  BY DEF ProgressInv, SavedUploaded, Held
<1>d. SUFFICES /\ saved' # NoProgress => OnGrid(saved') /\ next' = saved' + ChunkNumber
               /\ \A v \in updates' \cup queue' : \A p \in Parts : ChunkEndIndex(p[1]) = v => Held(p)'
               /\ \A p \in Parts : ChunkEndIndex(p[1]) <= progress' => Held(p)'
               /\ \A p \in Parts : ChunkEndIndex(p[1]) <= saved' => Held(p)'
  BY <1>0 DEF ProgressInv, SavedUploaded, Held, OnGrid
<1>1. ASSUME ~Resume, progress' = progress,
             \A v \in updates' \cup queue' : \A p \in Parts : ChunkEndIndex(p[1]) = v => Held(p),
             \A p \in Parts : ChunkEndIndex(p[1]) <= saved' => Held(p),
             saved' # NoProgress => OnGrid(saved') /\ next' = saved' + ChunkNumber
      PROVE  /\ saved' # NoProgress => OnGrid(saved') /\ next' = saved' + ChunkNumber
             /\ \A v \in updates' \cup queue' : \A p \in Parts : ChunkEndIndex(p[1]) = v => Held(p)'
             /\ \A p \in Parts : ChunkEndIndex(p[1]) <= progress' => Held(p)'
             /\ \A p \in Parts : ChunkEndIndex(p[1]) <= saved' => Held(p)'
  <2>1. \A p : Held(p) => Held(p)'
    BY <1>1, <1>a, StoredGrows, HeldGrows
  <2> QED
    BY <2>1, <1>1, <1>c
<1>2. ASSUME ~Resume, progress' = progress, updates' \subseteq updates \cup queue, queue' \subseteq updates \cup queue,
             next' = next, saved' = saved \/ saved' = NoProgress
      PROVE  /\ saved' # NoProgress => OnGrid(saved') /\ next' = saved' + ChunkNumber
             /\ \A v \in updates' \cup queue' : \A p \in Parts : ChunkEndIndex(p[1]) = v => Held(p)'
             /\ \A p \in Parts : ChunkEndIndex(p[1]) <= progress' => Held(p)'
             /\ \A p \in Parts : ChunkEndIndex(p[1]) <= saved' => Held(p)'
  <2>1. \A p \in Parts : ~(ChunkEndIndex(p[1]) <= NoProgress)
    BY <1>b DEF NoProgress
  <2>2. \A p \in Parts : ChunkEndIndex(p[1]) <= saved' => Held(p)
    BY <2>1, <1>2, <1>c
  <2>3. saved' # NoProgress => OnGrid(saved') /\ next' = saved' + ChunkNumber
    BY <1>2, <1>c
  <2> QED
    BY <2>2, <2>3, <1>1, <1>2, <1>c
<1>3. ASSUME ~Resume, NEW u \in Uploaders, worker[u] = "busy", NoteProgress(u),
             UNCHANGED <<progress, queue, next, saved>>
      PROVE  /\ saved' # NoProgress => OnGrid(saved') /\ next' = saved' + ChunkNumber
             /\ \A v \in updates' \cup queue' : \A p \in Parts : ChunkEndIndex(p[1]) = v => Held(p)'
             /\ \A p \in Parts : ChunkEndIndex(p[1]) <= progress' => Held(p)'
             /\ \A p \in Parts : ChunkEndIndex(p[1]) <= saved' => Held(p)'
  <2>1. \A v \in updates' : \A p \in Parts : ChunkEndIndex(p[1]) = v => Held(p)
    BY <1>3, NotedHeld
  <2> QED
    BY <2>1, <1>1, <1>3, <1>c
<1>4. CASE ~Resume /\ QuietStep
  BY <1>2, <1>4, QuietEffect
<1>5. CASE ~Resume /\ (BuildBatch \/ Expire)
  BY <1>2, <1>5 DEF BuildBatch, Expire
<1>6. CASE ~Resume /\ LastUploaded
  <2>1. worker[Main] = "busy"
    BY <1>6, <1>a DEF LastUploaded, PoolInv
  <2> QED
    BY <2>1, <1>3, <1>6, <1>a DEF LastUploaded
<1>7. ASSUME ~Resume, NEW u \in Uploaders, BatchUploaded(u)
      PROVE  /\ saved' # NoProgress => OnGrid(saved') /\ next' = saved' + ChunkNumber
             /\ \A v \in updates' \cup queue' : \A p \in Parts : ChunkEndIndex(p[1]) = v => Held(p)'
             /\ \A p \in Parts : ChunkEndIndex(p[1]) <= progress' => Held(p)'
             /\ \A p \in Parts : ChunkEndIndex(p[1]) <= saved' => Held(p)'
  BY <1>3, <1>7 DEF BatchUploaded
<1>8. ASSUME ~Resume, NEW u \in Uploaders, NEW b \in Blobbers, SendUploadRequest(u, b)
      PROVE  /\ saved' # NoProgress => OnGrid(saved') /\ next' = saved' + ChunkNumber
             /\ \A v \in updates' \cup queue' : \A p \in Parts : ChunkEndIndex(p[1]) = v => Held(p)'
             /\ \A p \in Parts : ChunkEndIndex(p[1]) <= progress' => Held(p)'
             /\ \A p \in Parts : ChunkEndIndex(p[1]) <= saved' => Held(p)'
  BY <1>2, <1>8 DEF SendUploadRequest, storerVars
<1>9. ASSUME ~Resume, NEW i \in Indices, UpdateProgress(i)
      PROVE  /\ saved' # NoProgress => OnGrid(saved') /\ next' = saved' + ChunkNumber
             /\ \A v \in updates' \cup queue' : \A p \in Parts : ChunkEndIndex(p[1]) = v => Held(p)'
             /\ \A p \in Parts : ChunkEndIndex(p[1]) <= progress' => Held(p)'
             /\ \A p \in Parts : ChunkEndIndex(p[1]) <= saved' => Held(p)'
  BY <1>2, <1>9 DEF UpdateProgress
<1>10. CASE ~Resume /\ SaveTick
  <2>1. OnGrid(saved') /\ \A p \in Parts : ChunkEndIndex(p[1]) <= saved' => Held(p)
    BY <1>10, TickCovers
  <2>2. next' = saved' + ChunkNumber /\ queue' \subseteq queue /\ UNCHANGED <<progress, updates>>
    BY <1>10, <1>a, RowMax DEF SaveTick
  <2> QED
    BY <2>1, <2>2, <1>1, <1>10, <1>c
<1>11. CASE Resume
  <2>1. /\ updates' = {} /\ queue' = {} /\ next' = progress' + ChunkNumber /\ saved' = progress'
    BY <1>11 DEF Resume
  <2>2. CASE saved # NoProgress /\ progress' = saved /\ stored' = stored
    <3>1. \A p : Held(p) => Held(p)'
      BY <2>2, HeldGrows
    <3> QED
      BY <3>1, <2>1, <2>2, <1>c
  <2>3. CASE progress' = -1
    <3>1. OnGrid(-1)
      <4>1. 0 \in Int /\ -1 = 0 * ChunkNumber - 1
        BY <1>a
      <4> QED
        BY <4>1 DEF OnGrid
    <3>2. \A p \in Parts : ~(ChunkEndIndex(p[1]) <= -1)
      BY <1>b
    <3> QED
      BY <3>1, <3>2, <2>1, <2>3
  <2> QED
    BY <1>11, <2>2, <2>3 DEF Resume
<1> QED
  BY <1>4, <1>5, <1>6, <1>7, <1>8, <1>9, <1>10, <1>11 DEF Next, ProcessSteps, UploaderSteps, QuietStep

-----------------------------------------------------------------------------
(* The last request.                                                       *)

\* The steps of the workers that belong to a batch: none is left for one that has
\* nothing to do.
LEMMA WorkersRest ==
  ASSUME Typed, uploadChan = <<>>, Busy = {}, NEW w \in Workers
  PROVE  /\ ~TakeBatch(w) /\ ~BatchUploaded(w) /\ sends[w] = {}
         /\ \A b \in Blobbers : ~SendUploadRequest(w, b)
<1>1. worker[w] # "busy" /\ w \in Uploaders
  BY DEF Busy, Uploaders
<1>2. sends[w] = {}
  BY <1>1, TypedFacts DEF PoolInv, CountedOnce
<1> QED
  BY <1>1, <1>2 DEF TakeBatch, BatchUploaded, SendUploadRequest

\* When process has waited, the workers have nothing to do.
LEMMA WaitRest ==
  ASSUME Typed, uploadWG = 0
  PROVE  uploadChan = <<>> /\ Busy = {}
<1>1. IsFiniteSet(Busy)
  BY SizesAssumption, FS_Subset DEF Busy
<1>2. Cardinality(Busy) \in Nat
  BY <1>1, FS_CardinalityType
<1>3. uploadChan \in Seq(Jobs) /\ Len(uploadChan) \in Nat
  BY TypedFacts DEF ChanType
<1>4. Len(uploadChan) + Cardinality(Busy) <= 0
  BY DEF Typed, GroupInv
<1>5. Len(uploadChan) = 0 /\ Cardinality(Busy) = 0
  BY <1>2, <1>3, <1>4
<1> QED
  BY <1>1, <1>3, <1>5, FS_EmptySet

\* Process uploads only while it waits for its last request.
LEMMA MainBusyStep == Typed /\ MainBusy /\ [Next]_vars => MainBusy'
<1> SUFFICES ASSUME Typed, MainBusy, [Next]_vars PROVE MainBusy'
  OBVIOUS
<1>0. PoolType /\ Main \in Uploaders
  BY TypedFacts
<1>1. ASSUME worker'[Main] = worker[Main], pc' = pc \/ pc # "last" PROVE MainBusy'
  BY <1>1 DEF MainBusy
<1>2. CASE ReadFailed \/ SkipBatch \/ BuildBatch \/ SendBatch
  BY <1>1, <1>2 DEF ReadFailed, SkipBatch, BuildBatch, SendBatch, poolVars
<1>3. CASE WaitDone
  <2>1. pc' = "last" \/ UNCHANGED worker
    BY <1>3 DEF WaitDone, poolVars
  <2>2. pc # "last"
    BY <1>3 DEF WaitDone
  <2> QED
    BY <2>1, <2>2, <1>1 DEF MainBusy
<1>4. CASE LastUploaded
  <2>1. worker'[Main] = "idle"
    BY <1>0, <1>4 DEF LastUploaded, FreeUploader, PoolType
  <2> QED
    BY <2>1 DEF MainBusy
<1>5. ASSUME NEW w \in Workers, TakeBatch(w) \/ WorkerExits(w) \/ BatchUploaded(w) PROVE MainBusy'
  <2>1. pc' = pc /\ w # Main
    BY <1>5, UploadersAssumption DEF TakeBatch, WorkerExits, BatchUploaded, mainVars
  <2>2. worker' = worker \/ \E new : worker' = [worker EXCEPT ![w] = new]
    BY <1>5 DEF TakeBatch, WorkerExits, BatchUploaded, StartUpload, FreeUploader, poolVars
  <2>3. worker'[Main] = worker[Main]
    BY <2>1, <2>2, <1>0 DEF PoolType
  <2> QED
    BY <2>1, <2>3, <1>1
<1>6. ASSUME NEW u \in Uploaders, NEW b \in Blobbers, SendUploadRequest(u, b) PROVE MainBusy'
  BY <1>1, <1>6 DEF SendUploadRequest, mainVars
<1>7. CASE (\E i \in Indices : UpdateProgress(i)) \/ SaveTick \/ Cancel \/ Expire \/ UNCHANGED vars
  BY <1>1, <1>7 DEF UpdateProgress, SaveTick, Cancel, Expire, vars, poolVars, mainVars
<1>8. CASE Crash \/ Resume
  <2>1. worker'[Main] # "busy"
    BY <1>0, <1>8 DEF Crash, Resume
  <2> QED
    BY <2>1 DEF MainBusy
<1> QED
  BY <1>2, <1>3, <1>4, <1>5, <1>6, <1>7, <1>8 DEF Next, ProcessSteps, UploaderSteps, BatchUploaded

\* The last request is sent alone and counted within the mask.
LEMMA LastStep == CountsAreHonest /\ Typed /\ BuiltInv /\ LastInv /\ [Next]_vars => LastInv'
<1> SUFFICES ASSUME CountsAreHonest, Typed, BuiltInv, LastInv, [Next]_vars PROVE LastInv'
  OBVIOUS
<1>0. Jobs' = Jobs /\ Last' = Last /\ Uploaders' = Uploaders
  BY StreamFixed DEF Uploaders
<1>a. /\ PoolType /\ StoreType /\ Main \in Uploaders /\ mask \subseteq Blobbers
      /\ consensus[Main] \in Nat
  BY TypedFacts, BlobberSets DEF MainType, PoolType
<1>b. MainBusy /\ (pc = "last" => uploadChan = <<>> /\ Busy = {} /\ LastSent)
  BY DEF LastInv
<1>c. MainBusy'
  BY <1>b, MainBusyStep
<1>d. SUFFICES pc' = "last" => uploadChan' = <<>> /\ Busy' = {} /\ LastSent'
  BY <1>c DEF LastInv
<1>e. ASSUME NEW S \in SUBSET Blobbers PROVE IsFiniteSet(S) /\ Cardinality(S) \in Nat
  BY BlobberSets
<1>1. ASSUME pc' = "last" => pc = "last", uploadChan' = uploadChan, mask' = mask, stored' = stored,
             UNCHANGED <<worker, job, sends, consensus>>
      PROVE  pc' = "last" => uploadChan' = <<>> /\ Busy' = {} /\ LastSent'
  BY <1>0, <1>1, <1>b DEF LastSent, Busy
<1>2. CASE ReadFailed \/ SkipBatch \/ BuildBatch \/ SendBatch \/ LastUploaded \/ Crash \/ Resume
  <2>1. pc' # "last"
    BY <1>2 DEF ReadFailed, SkipBatch, BuildBatch, SendBatch, LastUploaded, Crash, Resume, Return, AfterSend
  <2> QED
    BY <2>1
<1>3. CASE WaitDone
  <2>1. CASE pc' # "last"
    BY <2>1
  <2>2. CASE pc' = "last"
    <3>1. /\ StartUpload(Main, [part |-> <<Final, "last">>, built |-> built])
          /\ UNCHANGED <<mask, uploadChan, stored>>
      BY <1>3, <2>2 DEF WaitDone, Return, chanVars
    <3>2. uploadChan' = <<>> /\ Busy = {}
      BY <3>1, <1>3, WaitRest DEF WaitDone
    <3>3. Busy' = {}
      <4>1. worker' = [worker EXCEPT ![Main] = "busy"]
        BY <3>1 DEF StartUpload
      <4>2. \A w \in Workers : worker'[w] = worker[w]
        BY <4>1, UploadersAssumption, <1>a DEF PoolType, Uploaders
      <4> QED
        BY <4>2, <3>2 DEF Busy
    <3>4. LastSent'
      <4>1. [part |-> <<Final, "last">>, built |-> built] \in Jobs
        BY TypedFacts DEF Jobs, Parts, MainType
      <4>2. /\ job'[Main] = <<[part |-> <<Final, "last">>, built |-> built]>>
            /\ sends'[Main] = mask /\ consensus'[Main] = 0
        BY <4>1, <3>1, <1>0, <1>a, StartEffect
      <4>3. job'[Main][1].part = Last
        BY <4>2 DEF Last
      <4>4. {b \in mask' \ sends'[Main] : Last' \in stored'[b]} = {}
        BY <4>2, <3>1
      <4>5. Cardinality({b \in mask' \ sends'[Main] : Last' \in stored'[b]}) = 0
        BY <4>4, FS_EmptySet
      <4> QED
        BY <4>2, <4>3, <4>5, <3>1, <1>0 DEF LastSent
    <3> QED
      BY <3>2, <3>3, <3>4
  <2> QED
    BY <2>1, <2>2
<1>4. ASSUME NEW w \in Workers, TakeBatch(w) \/ BatchUploaded(w)
      PROVE  pc' = "last" => uploadChan' = <<>> /\ Busy' = {} /\ LastSent'
  <2>1. pc' = pc
    BY <1>4 DEF TakeBatch, BatchUploaded, mainVars
  <2> QED
    BY <2>1, <1>4, <1>b, WorkersRest
<1>5. ASSUME NEW w \in Workers, WorkerExits(w)
      PROVE  pc' = "last" => uploadChan' = <<>> /\ Busy' = {} /\ LastSent'
  <2>1. /\ UNCHANGED <<pc, uploadChan, mask, stored, job, sends, consensus>>
        /\ worker' = [worker EXCEPT ![w] = "exited"]
    BY <1>5 DEF WorkerExits, mainVars, chanVars
  <2>2. Busy' \subseteq Busy
    BY <2>1, <1>a DEF Busy, PoolType, Uploaders
  <2>3. LastSent => LastSent'
    BY <2>1, <1>0 DEF LastSent
  <2> QED
    BY <2>1, <2>2, <2>3, <1>b
<1>6. ASSUME NEW u \in Uploaders, NEW b \in Blobbers, SendUploadRequest(u, b)
      PROVE  pc' = "last" => uploadChan' = <<>> /\ Busy' = {} /\ LastSent'
  <2>1. UNCHANGED <<pc, uploadChan, worker>>
    BY <1>6 DEF SendUploadRequest, mainVars, chanVars
  <2>2. CASE pc # "last"
    BY <2>1, <2>2
  <2>3. CASE pc = "last"
    <3>1. uploadChan' = <<>> /\ Busy' = {} /\ LastSent /\ Busy = {} /\ uploadChan = <<>>
      BY <2>1, <2>3, <1>b DEF Busy
    <3>2. u = Main
      BY <3>1, <1>6, WorkersRest DEF Uploaders
    <3>3. /\ b \in sends[Main] /\ sends'[Main] = sends[Main] \ {b}
          /\ job' = job
          /\ \/ /\ stored' = [stored EXCEPT ![b] = stored[b] \cup {job[Main][1].part}]
                /\ consensus'[Main] = consensus[Main] + 1 /\ mask' = mask
             \/ consensus'[Main] = consensus[Main] /\ mask' = mask \ {b}
      BY <1>0, <1>6, <3>2, HonestSend
    <3>4. \A c \in Blobbers : stored[c] \subseteq stored'[c]
      <4>1. ~Resume
        BY <2>1, <2>3 DEF Resume
      <4> QED
        BY <4>1, <1>a, StoredGrows
    <3> DEFINE S == {c \in mask \ sends[Main] : Last \in stored[c]}
               T == {c \in mask' \ sends'[Main] : Last \in stored'[c]}
    <3>5. S \in SUBSET Blobbers /\ b \notin S /\ consensus[Main] <= Cardinality(S)
      BY <3>1, <3>3, <1>a DEF LastSent
    <3>6. sends'[Main] \subseteq mask' /\ job'[Main][1].part = Last /\ mask' \subseteq Blobbers
      BY <3>1, <3>3, <1>a DEF LastSent
    <3>7. S \subseteq T /\ T \in SUBSET Blobbers
      BY <3>3, <3>4, <3>6, <1>a
    <3>8. Cardinality(S) <= Cardinality(T) /\ Cardinality(S) \in Nat /\ Cardinality(T) \in Nat
      BY <3>5, <3>7, <1>e, FS_Subset
    <3>9. consensus'[Main] <= Cardinality(T)
      <4>1. CASE consensus'[Main] = consensus[Main]
        <5> HIDE DEF S, T
        <5>1. \A x, y, z \in Nat : x <= y /\ y <= z => x <= z
          OBVIOUS
        <5> QED
          BY <5>1, <4>1, <3>5, <3>8, <1>a
      <4>2. CASE /\ stored' = [stored EXCEPT ![b] = stored[b] \cup {job[Main][1].part}]
                 /\ consensus'[Main] = consensus[Main] + 1 /\ mask' = mask
        <5>1. Last \in stored'[b] /\ b \in mask'
          BY <4>2, <3>1, <3>3, <1>a DEF LastSent, StoreType
        <5>2. b \in T
          BY <5>1, <3>3
        <5> HIDE DEF S, T
        <5>3. Cardinality(S \cup {b}) = Cardinality(S) + 1
          BY <3>5, <1>e, FS_AddElement
        <5>4. Cardinality(S \cup {b}) <= Cardinality(T)
          BY <5>2, <3>7, <1>e, FS_Subset
        <5>5. \A x, y, z \in Nat : x <= y /\ y + 1 <= z => x + 1 <= z
          OBVIOUS
        <5> QED
          BY <5>3, <5>4, <5>5, <4>2, <3>5, <3>8, <1>a
      <4> QED
        BY <4>1, <4>2, <3>3
    <3>10. LastSent'
      BY <3>6, <3>9, <1>0 DEF LastSent
    <3> QED
      BY <3>1, <3>10
  <2> QED
    BY <2>2, <2>3
<1>7. CASE (\E i \in Indices : UpdateProgress(i)) \/ SaveTick \/ Cancel \/ Expire \/ UNCHANGED vars
  <2>1. UNCHANGED <<pc, uploadChan, mask, stored, worker, job, sends, consensus>>
    BY <1>7 DEF UpdateProgress, SaveTick, Cancel, Expire, vars, poolVars, mainVars, chanVars
  <2> QED
    BY <2>1, <1>1
<1> QED
  BY <1>2, <1>3, <1>4, <1>5, <1>6, <1>7 DEF Next, ProcessSteps, UploaderSteps, BatchUploaded

\* With nothing to do, neither the workers nor process send anything.
LEMMA NobodySends ==
  ASSUME Typed, LastInv, uploadChan = <<>>, Busy = {}, pc \notin {"send", "wait", "last"},
         [Next]_vars, ~Resume
  PROVE  mask' = mask /\ stored' = stored /\ pc' # "last" /\ uploadChan' = <<>> /\ Busy' = {}
<1>0. PoolType /\ PoolInv /\ Main \in Uploaders
  BY TypedFacts
<1>1. sends[Main] = {} /\ worker[Main] # "busy"
  BY <1>0 DEF LastInv, MainBusy, PoolInv, CountedOnce
<1>2. ASSUME UNCHANGED <<worker, uploadChan>> PROVE uploadChan' = <<>> /\ Busy' = {}
  BY <1>2 DEF Busy
<1>3. CASE ReadFailed \/ SkipBatch \/ BuildBatch
  <2>1. UNCHANGED <<worker, uploadChan, mask, stored>>
    BY <1>3 DEF ReadFailed, SkipBatch, BuildBatch, chanVars, poolVars
  <2>2. pc' # "last"
    BY <1>3 DEF ReadFailed, SkipBatch, BuildBatch, Return
  <2> QED
    BY <2>1, <2>2, <1>2
<1>4. ~SendBatch /\ ~WaitDone /\ ~LastUploaded
  BY DEF SendBatch, WaitDone, LastUploaded
<1>7. ASSUME NEW w \in Workers, TakeBatch(w) \/ BatchUploaded(w) PROVE FALSE
  BY <1>7, WorkersRest
<1>8. ASSUME NEW u \in Uploaders, NEW b \in Blobbers, SendUploadRequest(u, b) PROVE FALSE
  <2>1. u # Main
    BY <1>1, <1>8 DEF SendUploadRequest
  <2> QED
    BY <2>1, <1>8, WorkersRest DEF Uploaders
<1>9. ASSUME NEW w \in Workers, WorkerExits(w)
      PROVE  UNCHANGED <<mask, stored, pc, uploadChan>> /\ Busy' = {}
  <2>1. UNCHANGED <<mask, stored, pc, uploadChan>> /\ worker' = [worker EXCEPT ![w] = "exited"]
    BY <1>9 DEF WorkerExits, mainVars, chanVars
  <2>2. Busy' \subseteq Busy
    BY <2>1, <1>0 DEF Busy, PoolType, Uploaders
  <2> QED
    BY <2>1, <2>2
<1>10. CASE (\E i \in Indices : UpdateProgress(i)) \/ SaveTick \/ Cancel \/ Expire \/ UNCHANGED vars
  <2>1. UNCHANGED <<mask, stored, pc, uploadChan, worker>>
    BY <1>10 DEF UpdateProgress, SaveTick, Cancel, Expire, vars, poolVars, mainVars, chanVars
  <2> QED
    BY <2>1, <1>2
<1>11. CASE Crash
  <2>1. UNCHANGED <<mask, stored, uploadChan>> /\ pc' = "dead" /\ worker' = [u \in Uploaders |-> "exited"]
    BY <1>11 DEF Crash, chanVars
  <2>2. Busy' = {}
    BY <2>1 DEF Busy, Uploaders
  <2> QED
    BY <2>1, <2>2
<1> QED
  BY <1>3, <1>4, <1>7, <1>8, <1>9, <1>10, <1>11 DEF Next, ProcessSteps, UploaderSteps, BatchUploaded

\* The progress changes only with a new attempt.
LEMMA ProgressKept ==
  ASSUME [Next]_vars, ~Resume
  PROVE  progress' = progress
<1>1. ASSUME ProcessSteps \/ ReadFailed PROVE progress' = progress
  BY <1>1 DEF ProcessSteps, ReadFailed, SkipBatch, BuildBatch, SendBatch, WaitDone, LastUploaded
<1>2. ASSUME NEW u \in Uploaders, UploaderSteps(u) PROVE progress' = progress
  BY <1>2 DEF UploaderSteps, TakeBatch, WorkerExits, BatchUploaded, SendUploadRequest
<1>3. ASSUME \/ \E i \in Indices : UpdateProgress(i)
             \/ SaveTick \/ Cancel \/ Crash \/ Expire \/ UNCHANGED vars
      PROVE  progress' = progress
  BY <1>3 DEF UpdateProgress, SaveTick, Cancel, Crash, Expire, vars
<1> QED
  BY <1>1, <1>2, <1>3 DEF Next

\* An upload that is covered by the progress sends nothing.
LEMMA CoveredStep == Typed /\ LastInv /\ CoveredInv /\ [Next]_vars => CoveredInv'
<1> SUFFICES ASSUME Typed, LastInv, CoveredInv, [Next]_vars PROVE CoveredInv'
  OBVIOUS
<1>a. LastIndex' = LastIndex
  BY StreamFixed
<1> SUFFICES ASSUME progress' >= LastIndex
             PROVE  /\ pc' \notin {"send", "wait", "last"} /\ uploadChan' = <<>> /\ Busy' = {}
                    /\ mask' = Blobbers
  BY <1>a DEF CoveredInv
<1>0. stream \in BOOLEAN /\ StoreType /\ MainType
  BY TypedFacts
<1>1. CASE Resume
  <2>1. /\ pc' = "read" /\ uploadChan' = <<>> /\ mask' = Blobbers
        /\ worker' = [u \in Uploaders |-> "idle"]
    BY <1>1 DEF Resume
  <2>2. Busy' = {}
    BY <2>1 DEF Busy, Uploaders
  <2> QED
    BY <2>1, <2>2
<1>2. CASE ~Resume
  <2>1. progress >= LastIndex
    BY <1>2, ProgressKept
  <2>2. pc \notin {"send", "wait", "last"} /\ uploadChan = <<>> /\ Busy = {} /\ mask = Blobbers
    BY <2>1 DEF CoveredInv
  <2>3. mask' = mask /\ uploadChan' = <<>> /\ Busy' = {} /\ pc' # "last"
    BY <2>2, <1>2, NobodySends
  <2>4. ~BuildBatch
    <3>1. LastIndex \in Nat /\ ChunkEndIndex(batch) \in Nat /\ ChunkEndIndex(batch) <= LastIndex
      BY <1>0, Ends DEF MainType
    <3>2. progress \in Int
      BY <3>1, <1>0 DEF StoreType, Indices
    <3>3. \A x, y, z \in Int : x <= y /\ z >= y => ~(x > z)
      OBVIOUS
    <3>4. ~(ChunkEndIndex(batch) > progress)
      BY <3>1, <3>2, <3>3, <2>1
    <3> QED
      BY <3>4 DEF BuildBatch
  <2>5. pc' \notin {"send", "wait"}
    <3>1. CASE ReadFailed \/ SkipBatch \/ SendBatch \/ WaitDone \/ LastUploaded
      BY <3>1, <2>2 DEF ReadFailed, SkipBatch, SendBatch, WaitDone, LastUploaded, Return
    <3>2. ASSUME NEW u \in Uploaders, UploaderSteps(u) PROVE pc' = pc
      BY <3>2 DEF UploaderSteps, TakeBatch, WorkerExits, BatchUploaded, SendUploadRequest, mainVars
    <3>3. CASE \/ \E i \in Indices : UpdateProgress(i)
               \/ SaveTick \/ Cancel \/ Crash \/ Expire \/ UNCHANGED vars
      BY <3>3, <2>2 DEF UpdateProgress, SaveTick, Cancel, Crash, Expire, vars, mainVars
    <3> QED
      BY <3>1, <3>2, <3>3, <2>2, <2>4, <1>2 DEF Next, ProcessSteps
  <2> QED
    BY <2>2, <2>3, <2>5
<1> QED
  BY <1>1, <1>2

\* A threshold of blobbers of the mask that have the last request have the whole file.
LEMMA LastComplete ==
  ASSUME Typed, StoredInv, NEW S \in SUBSET mask, \A b \in S : Last \in stored[b],
         Cardinality(S) >= Thresh
  PROVE  Cardinality(Complete) >= Thresh
<1>0. mask \subseteq Blobbers /\ Thresh \in Nat
  BY TypedFacts DEF MainType
<1>1. S \subseteq Complete
  BY <1>0 DEF StoredInv, Complete
<1>2. IsFiniteSet(Complete)
  BY <1>0, SizesAssumption, FS_Subset DEF Complete
<1>3. Cardinality(S) <= Cardinality(Complete) /\ Cardinality(S) \in Nat /\ Cardinality(Complete) \in Nat
  BY <1>1, <1>2, FS_Subset, FS_CardinalityType
<1>4. \A x, y, z \in Nat : x >= z /\ x <= y => y >= z
  OBVIOUS
<1> QED
  BY <1>0, <1>3, <1>4

\* An upload that has succeeded leaves the file complete.
LEMMA DoneStep ==
  Typed /\ StoredInv /\ ProgressInv /\ LastInv /\ CoveredInv /\ DoneInv /\ [Next]_vars => DoneInv'
<1> SUFFICES ASSUME Typed, StoredInv, ProgressInv, LastInv, CoveredInv, DoneInv, [Next]_vars, result' = "nil"
             PROVE  /\ pc' = "done" /\ uploadChan' = <<>> /\ Busy' = {}
                    /\ Cardinality(Complete') >= Thresh
  BY DEF DoneInv, UploadComplete
<1>0. stream \in BOOLEAN /\ PoolType /\ StoreType /\ Thresh \in Nat /\ mask \subseteq Blobbers /\ Main \in Uploaders
  BY TypedFacts DEF MainType
<1>a. Parts' = Parts
  BY StreamFixed
<1>b. ASSUME mask' = mask, stored' = stored PROVE Complete' = Complete
  BY <1>a, <1>b DEF Complete
<1>1. CASE SkipBatch /\ result # "nil"
  <2>1. /\ batch = Final /\ pc' = "done" /\ ChunkEndIndex(batch) <= progress
        /\ UNCHANGED <<mask, stored, uploadChan, worker>>
    BY <1>1 DEF SkipBatch, Return, chanVars, poolVars
  <2>2. ChunkEndIndex(Final) = LastIndex /\ LastIndex \in Nat
    BY <1>0, Ends
  <2>3. progress \in Int /\ progress >= LastIndex
    BY <2>1, <2>2, <1>0 DEF StoreType, Indices
  <2>4. uploadChan = <<>> /\ Busy = {} /\ mask = Blobbers
    BY <2>3 DEF CoveredInv
  <2>5. Held(Last)
    <3>1. Last \in Parts /\ Last[1] = Final
      BY DEF Last, Parts
    <3> QED
      BY <3>1, <2>1 DEF ProgressInv
  <2>6. Cardinality(Complete) >= Thresh
    <3> DEFINE S == {b \in Blobbers : Last \in stored[b]}
    <3>1. S \in SUBSET mask /\ (\A b \in S : Last \in stored[b]) /\ Cardinality(S) >= Thresh
      BY <2>4, <2>5 DEF Held
    <3> HIDE DEF S
    <3> QED
      BY <3>1, LastComplete
  <2>7. Busy' = {} /\ Complete' = Complete
    BY <2>1, <2>4, <1>b DEF Busy
  <2> QED
    BY <2>1, <2>4, <2>6, <2>7
<1>2. CASE LastUploaded
  <2>1. /\ pc = "last" /\ sends[Main] = {} /\ FreeUploader(Main) /\ pc' = "done" /\ ~UploadFailed(Main)
        /\ UNCHANGED <<mask, stored, uploadChan>>
    BY <1>2 DEF LastUploaded, Return, chanVars
  <2>2. /\ uploadChan = <<>> /\ Busy = {}
        /\ consensus[Main] <= Cardinality({b \in mask \ sends[Main] : Last \in stored[b]})
    BY <2>1 DEF LastInv, LastSent
  <2>3. Busy' = {}
    <3>1. \A w \in Workers : worker'[w] = worker[w]
      BY <2>1, <1>0, UploadersAssumption DEF FreeUploader, PoolType, Uploaders
    <3> QED
      BY <3>1, <2>2 DEF Busy
  <2>4. Cardinality(Complete) >= Thresh
    <3> DEFINE S == {b \in mask \ sends[Main] : Last \in stored[b]}
    <3>1. S \in SUBSET mask /\ (\A b \in S : Last \in stored[b]) /\ consensus[Main] <= Cardinality(S)
      BY <2>2
    <3> HIDE DEF S
    <3>2. Cardinality(S) \in Nat /\ consensus[Main] \in Nat /\ ~(consensus[Main] < Thresh)
      BY <3>1, <2>1, <1>0, BlobberSets DEF PoolType, UploadFailed
    <3>3. Cardinality(S) >= Thresh
      BY <3>1, <3>2, <1>0
    <3> QED
      BY <3>1, <3>3, LastComplete
  <2> QED
    BY <2>1, <2>2, <2>3, <2>4, <1>b
<1>3. CASE result = "nil"
  <2>1. pc = "done" /\ uploadChan = <<>> /\ Busy = {} /\ Cardinality(Complete) >= Thresh
    BY <1>3 DEF DoneInv, UploadComplete
  <2>2. ~Resume
    BY <1>3, <2>1 DEF Resume
  <2>3. mask' = mask /\ stored' = stored /\ uploadChan' = <<>> /\ Busy' = {}
    BY <2>1, <2>2, NobodySends
  <2>4. pc' = "done"
    <3>1. ~ProcessSteps /\ ~ReadFailed /\ ~Crash
      BY <2>1 DEF ProcessSteps, ReadFailed, SkipBatch, BuildBatch, SendBatch, WaitDone, LastUploaded, Crash
    <3>2. ASSUME NEW u \in Uploaders, UploaderSteps(u) PROVE pc' = pc
      BY <3>2 DEF UploaderSteps, TakeBatch, WorkerExits, BatchUploaded, SendUploadRequest, mainVars
    <3>3. ASSUME \/ \E i \in Indices : UpdateProgress(i)
                 \/ SaveTick \/ Cancel \/ Expire \/ UNCHANGED vars
          PROVE  pc' = pc
      BY <3>3 DEF UpdateProgress, SaveTick, Cancel, Expire, vars, mainVars
    <3> QED
      BY <3>1, <3>2, <3>3, <2>1, <2>2 DEF Next
  <2> QED
    BY <2>1, <2>3, <2>4, <1>b
<1>4. ASSUME result # "nil" PROVE SkipBatch \/ LastUploaded
  <2>1. CASE ReadFailed \/ BuildBatch \/ SendBatch \/ WaitDone
    BY <2>1, <1>4 DEF ReadFailed, BuildBatch, SendBatch, WaitDone, Return
  <2>2. ASSUME NEW u \in Uploaders, UploaderSteps(u) PROVE result' = result
    BY <2>2 DEF UploaderSteps, TakeBatch, WorkerExits, BatchUploaded, SendUploadRequest, mainVars
  <2>3. CASE \/ \E i \in Indices : UpdateProgress(i)
             \/ SaveTick \/ Cancel \/ Crash \/ Expire \/ Resume \/ UNCHANGED vars
    BY <2>3, <1>4 DEF UpdateProgress, SaveTick, Cancel, Crash, Expire, Resume, vars, mainVars
  <2> QED
    BY <2>1, <2>2, <2>3, <1>4 DEF Next, ProcessSteps
<1> QED
  BY <1>1, <1>2, <1>3, <1>4

\* A new upload has noted, saved and counted nothing.
LEMMA UploadInit == Init => UploadInv
<1> SUFFICES ASSUME Init PROVE UploadInv
  OBVIOUS
<1>0. Typed
  BY TypedInit
<1>a. stream \in BOOLEAN /\ Main \in Uploaders /\ ChunkNumber \in Nat \ {0}
  BY <1>0, TypedFacts, SizesAssumption
<1>b. LastIndex \in Nat /\ \A p \in Parts : ChunkEndIndex(p[1]) \in Nat
  BY <1>a, Ends, JobParts
<1>1. /\ pc = "read" /\ result = "none" /\ mask = Blobbers /\ uploadChan = <<>>
      /\ worker = [u \in Uploaders |-> "idle"] /\ progress = -1 /\ updates = {} /\ queue = {}
      /\ next = ChunkNumber - 1 /\ saved = -1 /\ stored = [b \in Blobbers |-> {}]
  BY DEF Init
<1>2. StoredInv /\ CountInv /\ LastInv /\ DoneInv
  BY <1>1, <1>a DEF StoredInv, CountInv, LastInv, MainBusy, DoneInv
<1>3. BuiltInv
  <2>1. 1 .. Len(uploadChan) = {}
    BY <1>1
  <2> QED
    BY <2>1, <1>1 DEF BuiltInv, ChanBuilt, PoolBuilt
<1>4. \A p \in Parts : ~(ChunkEndIndex(p[1]) <= -1)
  BY <1>b
<1>5. OnGrid(-1)
  <2>1. 0 \in Int /\ -1 = 0 * ChunkNumber - 1
    BY <1>a
  <2> QED
    BY <2>1 DEF OnGrid
<1>6. next = saved + ChunkNumber
  BY <1>1, <1>a
<1>7. ProgressInv /\ SavedUploaded
  BY <1>1, <1>4, <1>5, <1>6 DEF ProgressInv, SavedUploaded
<1>8. CoveredInv
  BY <1>1, <1>b DEF CoveredInv
<1> QED
  BY <1>2, <1>3, <1>7, <1>8 DEF UploadInv

\* The parts of the invariant carry each other from step to step.
LEMMA UploadAlways ==
  ASSUME CountsAreHonest, OneRequestEnd
  PROVE  Spec => []UploadInv
<1>1. Typed /\ UploadInv /\ [Next]_vars => UploadInv'
  <2> SUFFICES ASSUME Typed, UploadInv, [Next]_vars PROVE UploadInv'
    OBVIOUS
  <2>0. StoredInv /\ BuiltInv /\ CountInv /\ ProgressInv /\ SavedUploaded /\ LastInv /\ CoveredInv /\ DoneInv
    BY DEF UploadInv
  <2>1. StoredInv' /\ BuiltInv' /\ CountInv'
    BY <2>0, StoredStep, BuiltStep, CountStep
  <2>2. ProgressInv' /\ SavedUploaded'
    BY <2>0, ProgressStep
  <2>3. LastInv' /\ CoveredInv' /\ DoneInv'
    BY <2>0, LastStep, CoveredStep, DoneStep
  <2> QED
    BY <2>1, <2>2, <2>3 DEF UploadInv
<1> QED
  BY <1>1, UploadInit, TypedAlways, PTL DEF Spec

\* Whatever the order the workers finish in, and whenever the upload is cancelled,
\* dies or is resumed, the progress on disk covers only batches that a threshold of
\* blobbers has (chunked_upload_progress_storer.go).
THEOREM SavedUploadedHolds ==
  ASSUME CountsAreHonest, OneRequestEnd
  PROVE  Spec => []SavedUploaded
<1>1. UploadInv => SavedUploaded
  BY DEF UploadInv
<1> QED
  BY <1>1, UploadAlways, PTL

\* An upload that returns without an error, at the first or at a later attempt, has
\* left the whole file on a threshold of the blobbers it goes on with.
THEOREM UploadCompleteHolds ==
  ASSUME CountsAreHonest, OneRequestEnd
  PROVE  Spec => []UploadComplete
<1>1. UploadInv => UploadComplete
  BY DEF UploadInv, DoneInv, UploadComplete
<1> QED
  BY <1>1, UploadAlways, PTL

-----------------------------------------------------------------------------
(* An upload in which nothing goes wrong.                                  *)

\* The last batch has data: the file does not end, where only an empty chunk tells so,
\* at the end of a batch.
DataAtEnd == TRUE \in Kinds => \A n \in Nat : Chunks # n * ChunkNumber

\* An uploader counts every blobber that answered it, and all of those have its part;
\* the last request is sent when every blobber has all others.
CleanJob(u) ==
  /\ job[u][1].built = Blobbers /\ wgErrors[u] = FALSE
  /\ consensus[u] + Cardinality(sends[u]) = Cardinality(Blobbers)
  /\ \A b \in Blobbers \ sends[u] : job[u][1].part \in stored[b]
  /\ job[u][1].part = Last => \A b \in Blobbers : Parts \ {Last} \subseteq stored[b]

CleanPool == \A u \in Uploaders : worker[u] = "busy" => CleanJob(u)
CleanQueue == \A k \in 1 .. Len(uploadChan) : uploadChan[k].built = Blobbers /\ uploadChan[k].part # Last

\* A part that process has sent waits in the channel, is with a worker, or is on every
\* blobber.
Sent(p) == p[1] < batch \/ pc \in {"wait", "last"}
Queued(p) == \E k \in 1 .. Len(uploadChan) : uploadChan[k].part = p
Uploading(p) == \E w \in Workers : worker[w] = "busy" /\ job[w][1].part = p
Everywhere(p) == \A b \in Blobbers : p \in stored[b]
NoneLost == \A p \in Parts : p # Last /\ Sent(p) => Queued(p) \/ Uploading(p) \/ Everywhere(p)

\* The upload is under way, for all blobbers, and has lost nothing; or it has succeeded.
UnderWay ==
  /\ pc # "dead" /\ result = "none" /\ ~ctxDone /\ progress = -1 /\ mask = Blobbers
  /\ pc \in {"send", "wait", "last"} => built = Blobbers
  /\ CleanPool /\ CleanQueue /\ NoneLost

CleanInv == budget = MaxFaults => IF pc = "done" THEN result = "nil" ELSE UnderWay

\* Without an empty chunk at its end every batch has blocks.
LEMMA SomeBlocks ==
  ASSUME stream \in Kinds, DataAtEnd
  PROVE  \A n \in Batches : Blocks(n) > 0
<1>0. Chunks \in Nat \ {0} /\ ChunkNumber \in Nat \ {0} /\ stream \in BOOLEAN
  BY SizesAssumption
<1>1. LastIndex \in Nat /\ Final \in Nat /\ Batches = 0 .. Final
  BY <1>0, Ends
<1>2. Final * ChunkNumber <= LastIndex
  BY <1>0, <1>1, Quotient DEF Final
<1>3. Chunks - Final * ChunkNumber > 0
  <2>1. CASE ~stream
    BY <2>1, <1>0, <1>1, <1>2 DEF LastIndex
  <2>2. CASE stream
    <3>1. Chunks # Final * ChunkNumber /\ LastIndex = Chunks
      BY <2>2, <1>1 DEF LastIndex, DataAtEnd
    <3> QED
      BY <3>1, <1>0, <1>1, <1>2
  <2> QED
    BY <2>1, <2>2, <1>0
<1> QED
  BY <1>0, <1>1, <1>3 DEF Blocks

\* Faults are only spent: as long as all are left, none happened.
LEMMA NoFaultYet ==
  ASSUME BudgetType, [Next]_vars, budget' = MaxFaults
  PROVE  budget = MaxFaults /\ \A kind : ~Fault(kind)
<1>0. MaxFaults \in Nat /\ budget \in 0 .. MaxFaults
  BY BoundsAssumption DEF BudgetType
<1>1. \A kind : ~Fault(kind)
  BY <1>0 DEF Fault
<1>2. ASSUME ProcessSteps \/ ReadFailed PROVE budget' = budget
  BY <1>1, <1>2 DEF ProcessSteps, ReadFailed, SkipBatch, BuildBatch, SendBatch, WaitDone, LastUploaded
<1>3. ASSUME NEW u \in Uploaders, UploaderSteps(u) PROVE budget' = budget
  BY <1>1, <1>3 DEF UploaderSteps, TakeBatch, WorkerExits, BatchUploaded, SendUploadRequest
<1>4. ASSUME \/ \E i \in Indices : UpdateProgress(i)
             \/ SaveTick \/ Cancel \/ Crash \/ Expire \/ Resume \/ UNCHANGED vars
      PROVE  budget' = budget
  BY <1>1, <1>4 DEF UpdateProgress, SaveTick, Cancel, Crash, Expire, Resume, vars
<1> QED
  BY <1>1, <1>2, <1>3, <1>4 DEF Next

\* A request is answered and nothing goes wrong: the blobber keeps it, and is counted.
LEMMA CleanSend ==
  ASSUME Typed, UnderWay, [Next]_vars, budget' = MaxFaults,
         NEW u \in Uploaders, NEW b \in Blobbers, SendUploadRequest(u, b)
  PROVE  /\ worker[u] = "busy" /\ b \in sends[u] /\ sends'[u] = sends[u] \ {b} /\ OthersKeep(u)
         /\ worker' = worker /\ job' = job /\ mask' = mask /\ wgErrors' = wgErrors
         /\ stored' = [stored EXCEPT ![b] = stored[b] \cup {job[u][1].part}]
         /\ consensus'[u] = consensus[u] + 1
<1>0. PoolInv /\ PoolType /\ (\A v \in Uploaders : CountedOnce(v)) /\ Jobs' = Jobs /\ BudgetType
  BY TypedFacts, StreamFixed DEF PoolInv, Typed
<1>1. /\ b \in sends[u] /\ sends'[u] = sends[u] \ {b} /\ OthersKeep(u)
      /\ worker' = worker /\ job' = job
  BY <1>0, SendEffect
<1>2. worker[u] = "busy"
  BY <1>0, <1>1 DEF CountedOnce
<1>3. CleanJob(u) /\ \A kind : ~Fault(kind)
  BY <1>0, <1>2, NoFaultYet DEF UnderWay, CleanPool
<1>4. job[u][1].built = Blobbers
  BY <1>3 DEF CleanJob
<1>5. Accepts(b, job[u][1].part)
  <2>1. CASE job[u][1].part = Last
    BY <2>1, <1>3 DEF CleanJob, Accepts
  <2>2. CASE job[u][1].part # Last
    <3>1. job[u][1].part[2] = "body"
      BY <2>2, <1>2, TypedFacts, JobParts
    <3> QED
      BY <3>1 DEF Accepts
  <2> QED
    BY <2>1, <2>2
<1>6. Votes(b, job[u][1]) = 1
  BY <1>4 DEF Votes
<1>7. stored' = [stored EXCEPT ![b] = stored[b] \cup {job[u][1].part}] /\ CountDone(u, 1)
  BY <1>3, <1>4, <1>5, <1>6 DEF SendUploadRequest
<1>8. mask' = mask /\ wgErrors' = wgErrors /\ consensus'[u] = consensus[u] + 1
  BY <1>7, <1>0 DEF CountDone, PoolType
<1> QED
  BY <1>1, <1>2, <1>7, <1>8

\* The upload goes on with one answer more.
LEMMA CleanAnswer ==
  ASSUME Typed, UnderWay, [Next]_vars, budget' = MaxFaults,
         NEW u \in Uploaders, NEW b \in Blobbers, SendUploadRequest(u, b)
  PROVE  UnderWay'
<1>0. PoolType /\ StoreType /\ Parts' = Parts /\ Last' = Last
  BY TypedFacts, StreamFixed
<1>1. /\ worker[u] = "busy" /\ b \in sends[u] /\ sends'[u] = sends[u] \ {b} /\ OthersKeep(u)
      /\ worker' = worker /\ job' = job /\ mask' = mask /\ wgErrors' = wgErrors
      /\ stored' = [stored EXCEPT ![b] = stored[b] \cup {job[u][1].part}]
      /\ consensus'[u] = consensus[u] + 1
  BY CleanSend
<1>2. UNCHANGED <<pc, result, ctxDone, progress, batch, built, uploadChan>>
  BY DEF SendUploadRequest, mainVars, chanVars
<1>3. /\ \A c \in Blobbers : stored[c] \subseteq stored'[c]
      /\ job[u][1].part \in stored'[b]
  BY <1>0, <1>1 DEF StoreType
<1>4. CleanQueue'
  BY <1>0, <1>2 DEF UnderWay, CleanQueue
<1>5. CleanPool'
  <2> SUFFICES ASSUME NEW v \in Uploaders, worker[v] = "busy" PROVE CleanJob(v)'
    BY <1>1 DEF CleanPool, Uploaders
  <2>1. CleanJob(v)
    BY DEF UnderWay, CleanPool
  <2>2. CASE v = u
    <3>1. consensus'[u] + Cardinality(sends'[u]) = Cardinality(Blobbers)
      <4>1. sends[u] \in SUBSET Blobbers /\ sends'[u] \in SUBSET Blobbers /\ consensus[u] \in Nat
        BY <1>0, <1>1 DEF PoolType
      <4>2. Cardinality(sends'[u]) = Cardinality(sends[u]) - 1 /\ Cardinality(sends[u]) \in Nat
        BY <4>1, <1>1, BlobberSets
      <4> QED
        BY <4>1, <4>2, <2>1, <2>2, <1>1 DEF CleanJob
    <3>2. \A c \in Blobbers \ sends'[u] : job[u][1].part \in stored'[c]
      BY <1>1, <1>3, <2>1, <2>2 DEF CleanJob
    <3> QED
      BY <3>1, <3>2, <2>1, <2>2, <1>0, <1>1, <1>3 DEF CleanJob
  <2>3. CASE v # u
    <3>1. sends'[v] = sends[v] /\ consensus'[v] = consensus[v]
      BY <2>3, <1>1 DEF OthersKeep
    <3> QED
      BY <3>1, <2>1, <1>0, <1>1, <1>3 DEF CleanJob
  <2> QED
    BY <2>2, <2>3
<1>6. NoneLost'
  <2> SUFFICES ASSUME NEW p \in Parts, p # Last, Sent(p)' PROVE (Queued(p) \/ Uploading(p) \/ Everywhere(p))'
    BY <1>0 DEF NoneLost
  <2>1. Queued(p) \/ Uploading(p) \/ Everywhere(p)
    BY <1>2 DEF UnderWay, NoneLost, Sent
  <2> QED
    BY <2>1, <1>1, <1>2, <1>3 DEF Queued, Uploading, Everywhere
<1> QED
  BY <1>1, <1>2, <1>4, <1>5, <1>6 DEF UnderWay

\* An uploader starts: it has counted nobody and waits for all.
LEMMA CleanStart ==
  ASSUME Typed, CleanPool, mask = Blobbers, Jobs' = Jobs, Parts' = Parts, Last' = Last,
         stored' = stored, NEW u \in Uploaders, NEW j \in Jobs, j.built = Blobbers,
         StartUpload(u, j), j.part = Last => \A b \in Blobbers : Parts \ {Last} \subseteq stored[b]
  PROVE  CleanPool' /\ OthersKeep(u) /\ worker'[u] = "busy" /\ job'[u][1] = j
<1>0. PoolType /\ mask \subseteq Blobbers
  BY TypedFacts
<1>1. /\ OthersKeep(u) /\ worker'[u] = "busy" /\ job'[u] = <<j>> /\ sends'[u] = mask
      /\ consensus'[u] = 0
  BY <1>0, StartEffect
<1>2. wgErrors'[u] = FALSE /\ \A v \in Uploaders \ {u} : wgErrors'[v] = wgErrors[v]
  BY <1>0 DEF StartUpload, PoolType
<1>3. job'[u][1] = j
  BY <1>1
<1>4. CleanJob(u)'
  <2>1. consensus'[u] + Cardinality(sends'[u]) = Cardinality(Blobbers)
    BY <1>1, BlobberSets
  <2> QED
    BY <2>1, <1>1, <1>2, <1>3 DEF CleanJob
<1>5. ASSUME NEW v \in Uploaders, v # u, worker'[v] = "busy" PROVE CleanJob(v)'
  <2>1. /\ worker'[v] = worker[v] /\ job'[v] = job[v] /\ sends'[v] = sends[v]
        /\ consensus'[v] = consensus[v] /\ wgErrors'[v] = wgErrors[v]
    BY <1>1, <1>2, <1>5 DEF OthersKeep
  <2> QED
    BY <2>1, <1>5 DEF CleanPool, CleanJob
<1> QED
  BY <1>1, <1>3, <1>4, <1>5 DEF CleanPool, Uploaders

\* An uploader that has all its answers has not failed, and its part is everywhere.
LEMMA CleanEnd ==
  ASSUME Typed, CleanPool, Thresh <= Cardinality(Blobbers), Jobs' = Jobs, Parts' = Parts, Last' = Last,
         stored' = stored, NEW u \in Uploaders, worker[u] = "busy", sends[u] = {}, FreeUploader(u)
  PROVE  /\ ~UploadFailed(u) /\ Everywhere(job[u][1].part)
         /\ CleanPool' /\ OthersKeep(u) /\ worker'[u] = "idle"
<1>0. PoolType /\ Thresh \in Nat /\ Cardinality(Blobbers) \in Nat /\ Cardinality({}) = 0
  BY TypedFacts, BlobberSets
<1>1. CleanJob(u) /\ consensus[u] \in Nat
  BY <1>0 DEF CleanPool, PoolType
<1>2. consensus[u] = Cardinality(Blobbers)
  BY <1>0, <1>1 DEF CleanJob
<1>3. ~UploadFailed(u) /\ Everywhere(job[u][1].part)
  BY <1>0, <1>1, <1>2 DEF CleanJob, UploadFailed, Everywhere
<1>4. OthersKeep(u) /\ worker'[u] = "idle" /\ sends' = sends
  BY <1>0, FreeEffect
<1>5. \A v \in Uploaders \ {u} : wgErrors'[v] = wgErrors[v]
  BY <1>0 DEF FreeUploader, PoolType
<1>6. ASSUME NEW v \in Uploaders, worker'[v] = "busy" PROVE CleanJob(v)'
  <2>1. /\ worker'[v] = worker[v] /\ job'[v] = job[v] /\ sends'[v] = sends[v]
        /\ consensus'[v] = consensus[v] /\ wgErrors'[v] = wgErrors[v]
    BY <1>4, <1>5, <1>6 DEF OthersKeep
  <2> QED
    BY <2>1, <1>6 DEF CleanPool, CleanJob
<1> QED
  BY <1>3, <1>4, <1>6 DEF CleanPool, Uploaders

\* Process sends a batch: its part is in the channel, and the next one begins.
LEMMA CleanSendBatch ==
  ASSUME Typed, UnderWay, [Next]_vars, SendBatch
  PROVE  UnderWay' /\ pc' # "done"
<1>0. PoolType /\ ChanType /\ Parts' = Parts /\ Last' = Last /\ uploadChan \in Seq(Jobs)
  BY TypedFacts, StreamFixed DEF ChanType
<1>a. /\ stream \in BOOLEAN /\ Final \in Nat /\ batch \in 0 .. Final /\ Batches = 0 .. Final
  BY TypedFacts, Ends DEF MainType
<1>1. /\ UNCHANGED <<mask, built, progress, stored>> /\ UNCHANGED poolVars
      /\ UNCHANGED <<result, ctxDone>> /\ built = Blobbers /\ AfterSend
  BY DEF SendBatch, UnderWay
<1>2. /\ pc' \in {"read", "wait"}
      /\ \A p \in Parts : Sent(p)' => p[1] < batch \/ p[1] = batch
  <2>1. CASE batch = Final
    BY <2>1, <1>1, <1>a, JobParts DEF AfterSend, Sent
  <2>2. CASE batch # Final
    <3>1. pc' = "read" /\ batch' = batch + 1
      BY <2>2, <1>1 DEF AfterSend
    <3>2. \A p \in Parts : p[1] \in 0 .. Final
      BY <1>a, JobParts
    <3> QED
      BY <3>1, <3>2, <1>a DEF Sent
  <2> QED
    BY <2>1, <2>2
<1>3. CleanPool'
  BY <1>0, <1>1 DEF UnderWay, CleanPool, CleanJob, poolVars, Uploaders
<1>4. CASE LastBufferOnly(batch)
  <2>1. uploadChan' = uploadChan
    BY <1>4 DEF SendBatch
  <2>2. CleanQueue'
    BY <2>1, <1>0 DEF UnderWay, CleanQueue
  <2>3. NoneLost'
    <3> SUFFICES ASSUME NEW p \in Parts, p # Last, Sent(p)' PROVE (Queued(p) \/ Uploading(p) \/ Everywhere(p))'
      BY <1>0 DEF NoneLost
    <3>1. p[1] # batch
      BY <1>4 DEF Parts, Last
    <3>2. Queued(p) \/ Uploading(p) \/ Everywhere(p)
      BY <3>1, <1>2 DEF UnderWay, NoneLost, Sent
    <3> QED
      BY <3>2, <2>1, <1>1 DEF Queued, Uploading, Everywhere, poolVars
  <2> QED
    BY <2>2, <2>3, <1>1, <1>2, <1>3 DEF UnderWay
<1>5. CASE ~LastBufferOnly(batch)
  <2> DEFINE e == [part |-> <<batch, "body">>, built |-> built]
  <2>1. uploadChan' = Append(uploadChan, e)
    BY <1>5 DEF SendBatch, UnderWay
  <2>2. e.built = Blobbers /\ e.part = <<batch, "body">> /\ e.part # Last
    BY <1>1 DEF Last
  <2> HIDE DEF e
  <2>3. Len(uploadChan') = Len(uploadChan) + 1 /\ Len(uploadChan) \in Nat
    BY <2>1, <1>0
  <2>4. \A k \in 1 .. Len(uploadChan') : uploadChan'[k] = IF k = Len(uploadChan) + 1 THEN e ELSE uploadChan[k]
    BY <2>1, <2>3, <1>0
  <2>5. CleanQueue'
    <3> SUFFICES ASSUME NEW k \in 1 .. Len(uploadChan')
                 PROVE  uploadChan'[k].built = Blobbers /\ uploadChan'[k].part # Last
      BY <1>0 DEF CleanQueue
    <3>1. CASE k = Len(uploadChan) + 1
      BY <3>1, <2>2, <2>4
    <3>2. CASE k # Len(uploadChan) + 1
      <4>1. k \in 1 .. Len(uploadChan) /\ uploadChan'[k] = uploadChan[k]
        BY <3>2, <2>3, <2>4
      <4> QED
        BY <4>1 DEF UnderWay, CleanQueue
    <3> QED
      BY <3>1, <3>2
  <2>6. \A p : Queued(p) => Queued(p)'
    <3> SUFFICES ASSUME NEW p, NEW k \in 1 .. Len(uploadChan), uploadChan[k].part = p PROVE Queued(p)'
      BY DEF Queued
    <3>1. k \in 1 .. Len(uploadChan') /\ uploadChan'[k] = uploadChan[k]
      BY <2>3, <2>4
    <3> QED
      BY <3>1 DEF Queued
  <2>7. \A p : p = <<batch, "body">> => Queued(p)'
    <3>1. Len(uploadChan) + 1 \in 1 .. Len(uploadChan')
      BY <2>3
    <3> QED
      BY <3>1, <2>2, <2>4 DEF Queued
  <2>8. NoneLost'
    <3> SUFFICES ASSUME NEW p \in Parts, p # Last, Sent(p)' PROVE (Queued(p) \/ Uploading(p) \/ Everywhere(p))'
      BY <1>0 DEF NoneLost
    <3>1. CASE p[1] = batch
      <4>1. p = <<batch, "body">>
        BY <3>1 DEF Parts, Last
      <4> QED
        BY <4>1, <2>7
    <3>2. CASE p[1] < batch
      <4>1. Queued(p) \/ Uploading(p) \/ Everywhere(p)
        BY <3>2 DEF UnderWay, NoneLost, Sent
      <4> QED
        BY <4>1, <2>6, <1>1 DEF Uploading, Everywhere, poolVars
    <3> QED
      BY <3>1, <3>2, <1>2
  <2> QED
    BY <2>5, <2>8, <1>1, <1>2, <1>3 DEF UnderWay
<1> QED
  BY <1>2, <1>4, <1>5

\* A worker takes a batch from the channel.
LEMMA CleanTake ==
  ASSUME Typed, UnderWay, [Next]_vars, NEW w \in Workers, TakeBatch(w)
  PROVE  UnderWay' /\ pc' = pc
<1>0. /\ PoolType /\ ChanType /\ Parts' = Parts /\ Last' = Last /\ Jobs' = Jobs /\ uploadChan \in Seq(Jobs)
      /\ w \in Uploaders
  BY TypedFacts, StreamFixed DEF ChanType, Uploaders
<1>1. /\ UNCHANGED <<pc, result, batch, built, mask, progress, ctxDone, stored>>
      /\ worker[w] = "idle" /\ uploadChan # <<>> /\ uploadChan' = Tail(uploadChan)
      /\ StartUpload(w, Head(uploadChan))
  BY DEF TakeBatch, mainVars, UnderWay
<1>2. /\ Len(uploadChan') = Len(uploadChan) - 1 /\ Len(uploadChan) \in Nat /\ Len(uploadChan) >= 1
      /\ \A k \in 1 .. Len(uploadChan') : uploadChan'[k] = uploadChan[k + 1]
      /\ Head(uploadChan) = uploadChan[1] /\ 1 \in 1 .. Len(uploadChan) /\ Head(uploadChan) \in Jobs
  BY <1>1, <1>0
<1>3. Head(uploadChan).built = Blobbers /\ Head(uploadChan).part # Last
  BY <1>2 DEF UnderWay, CleanQueue
<1>4. CleanPool' /\ OthersKeep(w) /\ worker'[w] = "busy" /\ job'[w][1] = Head(uploadChan)
  BY <1>0, <1>1, <1>2, <1>3, CleanStart DEF UnderWay
<1>5. CleanQueue'
  <2> SUFFICES ASSUME NEW k \in 1 .. Len(uploadChan')
               PROVE  uploadChan'[k].built = Blobbers /\ uploadChan'[k].part # Last
    BY <1>0 DEF CleanQueue
  <2>1. k + 1 \in 1 .. Len(uploadChan) /\ uploadChan'[k] = uploadChan[k + 1]
    BY <1>2
  <2> QED
    BY <2>1 DEF UnderWay, CleanQueue
<1>6. NoneLost'
  <2> SUFFICES ASSUME NEW p \in Parts, p # Last, Sent(p)' PROVE (Queued(p) \/ Uploading(p) \/ Everywhere(p))'
    BY <1>0 DEF NoneLost
  <2>1. Queued(p) \/ Uploading(p) \/ Everywhere(p)
    BY <1>1 DEF UnderWay, NoneLost, Sent
  <2>2. CASE Queued(p)
    <3>1. PICK k \in 1 .. Len(uploadChan) : uploadChan[k].part = p
      BY <2>2 DEF Queued
    <3>2. CASE k = 1
      <4>1. worker'[w] = "busy" /\ job'[w][1].part = p
        BY <3>1, <3>2, <1>2, <1>4
      <4> QED
        BY <4>1 DEF Uploading
    <3>3. CASE k # 1
      <4>1. k - 1 \in 1 .. Len(uploadChan') /\ uploadChan'[k - 1] = uploadChan[k]
        <5>1. k - 1 \in 1 .. Len(uploadChan') /\ (k - 1) + 1 = k
          BY <3>1, <3>3, <1>2
        <5> QED
          BY <5>1, <1>2
      <4> QED
        BY <4>1, <3>1 DEF Queued
    <3> QED
      BY <3>2, <3>3
  <2>3. CASE Uploading(p)
    <3>1. PICK v \in Workers : worker[v] = "busy" /\ job[v][1].part = p
      BY <2>3 DEF Uploading
    <3>2. v # w /\ v \in Uploaders
      BY <3>1, <1>1 DEF Uploaders
    <3> QED
      BY <3>1, <3>2, <1>4 DEF Uploading, OthersKeep
  <2> QED
    BY <2>1, <2>2, <2>3, <1>1 DEF Everywhere
<1> QED
  BY <1>1, <1>4, <1>5, <1>6 DEF UnderWay

\* A worker has uploaded a batch, which every blobber has.
LEMMA CleanUploaded ==
  ASSUME Typed, UnderWay, [Next]_vars, Thresh <= Cardinality(Blobbers), NEW w \in Uploaders, BatchUploaded(w)
  PROVE  UnderWay' /\ pc' = pc
<1>0. /\ PoolType /\ Parts' = Parts /\ Last' = Last /\ Jobs' = Jobs
  BY TypedFacts, StreamFixed
<1>1. /\ UNCHANGED <<pc, result, batch, built, mask, progress, stored, uploadChan>>
      /\ worker[w] = "busy" /\ sends[w] = {} /\ FreeUploader(w)
      /\ ctxDone' = (ctxDone \/ UploadFailed(w))
  BY DEF BatchUploaded, mainVars
<1>2. /\ ~UploadFailed(w) /\ Everywhere(job[w][1].part)
      /\ CleanPool' /\ OthersKeep(w) /\ worker'[w] = "idle"
  BY <1>0, <1>1, CleanEnd DEF UnderWay
<1>3. NoneLost'
  <2> SUFFICES ASSUME NEW p \in Parts, p # Last, Sent(p)' PROVE (Queued(p) \/ Uploading(p) \/ Everywhere(p))'
    BY <1>0 DEF NoneLost
  <2>1. Queued(p) \/ Uploading(p) \/ Everywhere(p)
    BY <1>1 DEF UnderWay, NoneLost, Sent
  <2>2. CASE Uploading(p)
    <3>1. PICK v \in Workers : worker[v] = "busy" /\ job[v][1].part = p
      BY <2>2 DEF Uploading
    <3>2. CASE v = w
      BY <3>1, <3>2, <1>1, <1>2 DEF Everywhere
    <3>3. CASE v # w
      BY <3>1, <3>3, <1>2 DEF Uploading, OthersKeep, Uploaders
    <3> QED
      BY <3>2, <3>3
  <2> QED
    BY <2>1, <2>2, <1>1 DEF Queued, Everywhere
<1>4. CleanQueue'
  BY <1>0, <1>1 DEF UnderWay, CleanQueue
<1>5. ~ctxDone'
  BY <1>1, <1>2 DEF UnderWay
<1> QED
  BY <1>1, <1>2, <1>3, <1>4, <1>5 DEF UnderWay

\* Process has waited for the workers: every blobber has all but the last request.
LEMMA CleanWait ==
  ASSUME Typed, UnderWay, [Next]_vars, WaitDone
  PROVE  UnderWay' /\ pc' = "last"
<1>0. /\ PoolType /\ Parts' = Parts /\ Last' = Last /\ Jobs' = Jobs /\ Main \in Uploaders /\ Main \notin Workers
      /\ stream \in BOOLEAN
  BY TypedFacts, StreamFixed, UploadersAssumption
<1> DEFINE j == [part |-> <<Final, "last">>, built |-> built]
<1>1. /\ UNCHANGED <<result, ctxDone, batch, built, mask, progress, stored, uploadChan>>
      /\ pc = "wait" /\ uploadWG = 0 /\ pc' = "last" /\ StartUpload(Main, j)
  BY DEF WaitDone, UnderWay, chanVars
<1>2. uploadChan = <<>> /\ Busy = {}
  BY <1>1, WaitRest
<1>3. \A p \in Parts : p # Last => Everywhere(p)
  <2> SUFFICES ASSUME NEW p \in Parts, p # Last PROVE Everywhere(p)
    OBVIOUS
  <2>1. ~Queued(p) /\ ~Uploading(p)
    BY <1>2 DEF Queued, Uploading, Busy
  <2> QED
    BY <2>1, <1>1 DEF UnderWay, NoneLost, Sent
<1>4. j \in Jobs /\ j.built = Blobbers /\ j.part = Last
  <2>1. built = Blobbers
    BY <1>1 DEF UnderWay
  <2> QED
    BY <2>1, <1>0, JobParts DEF Jobs, Last
<1> HIDE DEF j
<1>5. \A b \in Blobbers : Parts \ {Last} \subseteq stored[b]
  BY <1>3 DEF Everywhere
<1>6. CleanPool'
  BY <1>0, <1>1, <1>4, <1>5, CleanStart DEF UnderWay
<1>7. CleanQueue'
  BY <1>0, <1>1 DEF UnderWay, CleanQueue
<1>8. NoneLost'
  BY <1>0, <1>1, <1>3 DEF NoneLost, Everywhere
<1> QED
  BY <1>1, <1>6, <1>7, <1>8 DEF UnderWay

\* Every step keeps an upload in which nothing goes wrong on its way.
LEMMA CleanStep ==
  ASSUME DataAtEnd, Thresh <= Cardinality(Blobbers)
  PROVE  Typed /\ CleanInv /\ [Next]_vars => CleanInv'
<1> SUFFICES ASSUME Typed, CleanInv, [Next]_vars, budget' = MaxFaults
             PROVE  IF pc' = "done" THEN result' = "nil" ELSE UnderWay'
  BY DEF CleanInv
<1>0. /\ MainType /\ PoolType /\ PoolInv /\ Parts' = Parts /\ Last' = Last /\ Jobs' = Jobs
      /\ BudgetType /\ stream \in BOOLEAN /\ Main \in Uploaders
  BY TypedFacts, StreamFixed DEF Typed
<1>1. /\ budget = MaxFaults /\ (\A kind : ~Fault(kind))
      /\ (pc = "done" => result = "nil") /\ (pc # "done" => UnderWay)
  BY <1>0, NoFaultYet DEF CleanInv
<1>2. ~Resume /\ ~ReadFailed /\ ~Cancel /\ ~Crash /\ ~Expire
  BY <1>1 DEF Resume, ReadFailed, Cancel, Crash, Expire, UnderWay
<1>3. ASSUME UNCHANGED <<pc, result>>, pc = "done" PROVE IF pc' = "done" THEN result' = "nil" ELSE UnderWay'
  BY <1>1, <1>3
<1>4. ASSUME ProcessSteps PROVE IF pc' = "done" THEN result' = "nil" ELSE UnderWay'
  <2>0. pc # "done" /\ UnderWay
    BY <1>1, <1>4 DEF ProcessSteps, SkipBatch, BuildBatch, SendBatch, WaitDone, LastUploaded
  <2>1. /\ batch \in Batches /\ ChunkEndIndex(batch) \in Nat /\ Blocks(batch) > 0
    BY <1>0, Ends, SomeBlocks DEF MainType
  <2>2. ~SkipBatch
    <3>1. ~(ChunkEndIndex(batch) <= -1)
      BY <2>1
    <3> QED
      BY <3>1, <2>0 DEF SkipBatch, UnderWay
  <2>3. CASE BuildBatch
    <3>0. Blocks(batch) # 0
      BY <2>1
    <3>1. built' = mask /\ pc' = "send" /\ pc = "read" /\ UNCHANGED <<result, ctxDone>>
      BY <2>3, <3>0, <1>1 DEF BuildBatch
    <3>2. UNCHANGED <<mask, progress, batch, stored, uploadChan>> /\ UNCHANGED poolVars
      BY <2>3 DEF BuildBatch, chanVars
    <3>3. CleanPool' /\ CleanQueue'
      BY <2>0, <3>2, <1>0 DEF UnderWay, CleanPool, CleanJob, CleanQueue, poolVars, Uploaders
    <3>4. NoneLost'
      <4> SUFFICES ASSUME NEW p \in Parts, p # Last, Sent(p)' PROVE (Queued(p) \/ Uploading(p) \/ Everywhere(p))'
        BY <1>0 DEF NoneLost
      <4>1. Queued(p) \/ Uploading(p) \/ Everywhere(p)
        BY <2>0, <3>1, <3>2 DEF UnderWay, NoneLost, Sent
      <4> QED
        BY <4>1, <3>2 DEF Queued, Uploading, Everywhere, poolVars
    <3> QED
      BY <2>0, <3>1, <3>2, <3>3, <3>4 DEF UnderWay
  <2>4. CASE SendBatch
    BY <2>0, <2>4, CleanSendBatch
  <2>5. CASE WaitDone
    BY <2>0, <2>5, CleanWait
  <2>6. CASE LastUploaded
    <3>1. /\ worker[Main] = "busy" /\ sends[Main] = {} /\ FreeUploader(Main) /\ stored' = stored
          /\ Return(IF UploadFailed(Main) THEN "error" ELSE "nil")
      BY <2>6, <1>0 DEF LastUploaded, PoolInv
    <3>2. ~UploadFailed(Main)
      BY <3>1, <2>0, <1>0, CleanEnd DEF UnderWay
    <3> QED
      BY <3>1, <3>2 DEF Return
  <2> QED
    BY <1>4, <2>2, <2>3, <2>4, <2>5, <2>6 DEF ProcessSteps
<1>5. ASSUME NEW u \in Uploaders, UploaderSteps(u) PROVE IF pc' = "done" THEN result' = "nil" ELSE UnderWay'
  <2>1. UNCHANGED <<pc, result>>
    BY <1>5 DEF UploaderSteps, TakeBatch, WorkerExits, BatchUploaded, SendUploadRequest, mainVars
  <2>2. CASE pc = "done"
    BY <2>1, <2>2, <1>3
  <2>3. CASE pc # "done"
    <3>0. UnderWay
      BY <2>3, <1>1
    <3>1. CASE u \in Workers /\ TakeBatch(u)
      BY <2>1, <2>3, <3>0, <3>1, CleanTake
    <3>2. CASE u \in Workers /\ WorkerExits(u)
      <4>1. /\ UNCHANGED <<batch, built, mask, progress, ctxDone, stored, uploadChan>>
            /\ UNCHANGED <<job, sends, consensus, wgErrors>>
            /\ worker[u] = "idle" /\ worker' = [worker EXCEPT ![u] = "exited"]
        BY <3>2 DEF WorkerExits, mainVars, chanVars
      <4>2. \A v \in Uploaders : worker'[v] = "busy" <=> worker[v] = "busy"
        BY <4>1, <1>0 DEF PoolType
      <4>3. CleanPool' /\ CleanQueue'
        BY <3>0, <4>1, <4>2, <1>0 DEF UnderWay, CleanPool, CleanJob, CleanQueue, Uploaders
      <4>4. NoneLost'
        <5> SUFFICES ASSUME NEW p \in Parts, p # Last, Sent(p)' PROVE (Queued(p) \/ Uploading(p) \/ Everywhere(p))'
          BY <1>0 DEF NoneLost
        <5>1. Queued(p) \/ Uploading(p) \/ Everywhere(p)
          BY <3>0, <2>1, <4>1 DEF UnderWay, NoneLost, Sent
        <5> QED
          BY <5>1, <4>1, <4>2 DEF Queued, Uploading, Everywhere, Uploaders
      <4> QED
        BY <2>1, <2>3, <3>0, <4>1, <4>3, <4>4 DEF UnderWay
    <3>3. CASE BatchUploaded(u)
      BY <2>1, <2>3, <3>0, <3>3, CleanUploaded
    <3>4. ASSUME NEW b \in Blobbers, SendUploadRequest(u, b) PROVE UnderWay'
      BY <3>0, <3>4, CleanAnswer
    <3> QED
      BY <1>5, <2>1, <2>3, <3>1, <3>2, <3>3, <3>4 DEF UploaderSteps
  <2> QED
    BY <2>2, <2>3
<1>6. ASSUME (\E i \in Indices : UpdateProgress(i)) \/ SaveTick \/ UNCHANGED vars
      PROVE  IF pc' = "done" THEN result' = "nil" ELSE UnderWay'
  <2>1. /\ UNCHANGED <<pc, result, batch, built, mask, progress, ctxDone, stored, uploadChan>>
        /\ UNCHANGED poolVars
    BY <1>6 DEF UpdateProgress, SaveTick, vars, mainVars, chanVars
  <2>2. CASE pc # "done"
    <3>0. UnderWay
      BY <2>2, <1>1
    <3>1. CleanPool' /\ CleanQueue'
      BY <3>0, <2>1, <1>0 DEF UnderWay, CleanPool, CleanJob, CleanQueue, poolVars, Uploaders
    <3>2. NoneLost'
      BY <3>0, <2>1, <1>0 DEF UnderWay, NoneLost, Sent, Queued, Uploading, Everywhere, poolVars
    <3> QED
      BY <3>0, <3>1, <3>2, <2>1, <2>2 DEF UnderWay
  <2> QED
    BY <2>1, <2>2, <1>3
<1> QED
  BY <1>2, <1>4, <1>5, <1>6 DEF Next

\* An upload begins with everything to do.
LEMMA CleanInit == Init => CleanInv
<1> SUFFICES ASSUME Init PROVE UnderWay /\ pc # "done"
  BY DEF CleanInv
<1>1. /\ pc = "read" /\ result = "none" /\ ctxDone = FALSE /\ progress = -1 /\ mask = Blobbers
      /\ uploadChan = <<>> /\ worker = [u \in Uploaders |-> "idle"] /\ batch = 0 /\ stream \in BOOLEAN
  BY SizesAssumption DEF Init
<1>2. CleanPool /\ CleanQueue
  BY <1>1 DEF CleanPool, CleanQueue
<1>3. \A p \in Parts : p[1] \in Nat
  BY <1>1, JobParts, Ends
<1>4. NoneLost
  BY <1>1, <1>3 DEF NoneLost, Sent
<1> QED
  BY <1>1, <1>2, <1>4 DEF UnderWay

\* process fails only when something went wrong: with data in its last batch and
\* enough blobbers for the threshold, no order in which process, the workers, the
\* channel and the progress storer run makes an upload fail (chunked_upload.go).
THEOREM FailsOnlyOnFaultHolds ==
  ASSUME DataAtEnd, Thresh <= Cardinality(Blobbers)
  PROVE  Spec => []FailsOnlyOnFault
<1>1. Typed /\ CleanInv => FailsOnlyOnFault
  <2> SUFFICES ASSUME Typed, CleanInv, result = "error" PROVE budget < MaxFaults
    BY DEF FailsOnlyOnFault
  <2>1. budget \in 0 .. MaxFaults /\ MaxFaults \in Nat
    BY BoundsAssumption DEF Typed, BudgetType
  <2>2. budget # MaxFaults
    BY DEF CleanInv, UnderWay
  <2> QED
    BY <2>1, <2>2
<1> QED
  BY <1>1, CleanInit, CleanStep, TypedAlways, PTL DEF Spec
=============================================================================
