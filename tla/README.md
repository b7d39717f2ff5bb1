# A verification development for gosdk

TLA+ models of gosdk, mainly of its storage client (`src/zboxcore/sdk`) and of
the transactions of its wallet (`src/zcncore`), the TLC configurations that
check them, and TLAPS proofs. The storage client keeps a file in shards on
several *blobbers* (storage servers); it writes with no server-side coordinator,
so agreement between blobbers rests on what this code does. That is what most of
the models are about.

## 1. Inventory

| component | state | operations | interacts with |
|---|---|---|---|
| Write-marker lock (`writemarker_mutex.go`, `consensus.go`) | lead blobber index, shared mask, consensus counter, a one-slot channel per blobber, a refresh goroutine | `Lock`, `lockBlobber`, `Unlock`, `UnlockBlobber` | the lock table of each blobber; callers share the mask with it |
| Status check and rollback (`rollback.go`) | version map, latest version, error counter; writes the versions into the `Allocation` | `CheckAllocStatus`, `GetWritemarker`, `processRollback`, `RollbackWithMask` | runs under the lock in `Process`, without it in `InitAllocation` |
| Multi-operation batch (`multi_operation_worker.go`, `commitworker.go`, `allocation.go`) | mask, change count, rollback mask, allocation and blobber versions, `singleClientMode`, `checkStatus` | `DoMultiOperation`, `createConnectionObj`, `Process`, `commitBlobber` | runs the operations, then lock, status check, commits, rollback |
| Delete, rename, copy, move, create directory (`deleteworker.go`, ..., `common.go`) | the listing offset and level, a nested call of `DoMultiOperation` | `Process`, `buildChange`, `Verify`, the sub-directory walks | operations of a batch; call the batch again for each page |
| Chunked upload (`chunked_upload*.go`, `upload_worker.go`) | reader position, upload mask, bounded channel, wait group, context, saved progress | `process`, `processUpload`, `uploadProcessor`, `uploadToBlobbers`, `sendUploadRequest`, progress storer, `CancelUpload`, `PauseUpload` | an operation of a batch; resumes from a file written by an earlier run |
| Download (`downloadworker.go`, `blockdownloadworker.go`, `download_progress_storer.go`, `download_buffer.go`) | queue and mask of blobbers, block buffers, error group, ordered writer, saved progress | read markers, rounds of block requests, `WriteAt` or stream, resume, `CancelDownload` | blobbers it skips stay skipped for later downloads |
| Repair (`repairworker.go`) | request channel, request in progress, version map, pages per version, `singleClientMode`, batch size | `StartRepair`, `RepairAlloc`, `CancelRepair`, `processRepair`, `repairObjects` | repair batches, status check, final commit |
| Directory synchronisation (`sync.go`) | local and remote trees, snapshot on disk | `GetAllocationDiff`, `SaveRemoteSnapshot` | upload, download, delete by the application |
| Transactions and nonces (`zcncore/transaction*.go`, `core/node`) | nonce cache, failure counter and channels of a submission, status of submission and verification | `setNonce`, `submitTxn`, `Verify`, `Evict` | miners, sharders |
| Listing and metadata consensus (`listworker.go`, `filerefsworker.go`, `filemetaworker.go`) | answers per blobber | choose a reference enough blobbers agree on | every operation's first step |
| Live upload, wallet API, bridge, hash trees, erasure code, bindings | keys, contracts, trees | | |

What is hard here, and what makes each part correct:

* the lock is a quorum of independent locks with expiry; goroutines of one call
  share a mask, a counter and one-slot channels with a refresh goroutine that
  outlives the call. Two clients must exclude each other, no lock may be left
  behind, no call may wait for ever;
* a batch is a commit on several blobbers without a second phase: commits are
  lost, late or refused, the rollback is best effort, the client may die, and
  the next client sees bare version numbers only. A completed batch must stay, a
  failed one must go, equal versions must mean equal content;
* an operation on a directory is a program of nested batches over a listing that
  those batches change, with failures between them. It must do what the single
  operation says, lose no file, and end;
* an upload and a download are pipelines with bounded buffers, workers that end
  with the context and an index on disk that a later run trusts. A success must
  mean that the data is there, whatever was skipped, dropped or reordered;
* a synchronisation round decides from three trees, two of which may have been
  left by a round that failed or died. It must lose nothing that only one side
  changed;
* a repair merges paged listings of several versions while other clients write.
  A blobber must not get a version without its objects;
* nonces are numbered in a cache while other transactions fail and sharders lag.
  No nonce may be missing, and what `Verify` reports must stay true.

`PROJECT.json` lists these at their lines under `hazards`.

## 2. Plan

Done: `WriteMarkerMutex`; `VersionMarkers` and `AllocStatus`; `MultiOperation`,
which uses the lock through its promise and `CheckAllocStatus` through the
relation that `AllocStatus` checks, and refines `BatchHistory`; `ChunkedUpload`;
`DirectoryOps` with the split of operation lists; `Sync` on top of it;
`Download`; `Repair`; `Transactions`. Proofs for all of them except
`DirectoryOps` and `Sync` (section 5), the refinement of `BatchHistory` included.

Left, in this order:

1. `MultiOperation` with a change of `singleClientMode` under way;
2. the listing consensus as a fold of answers;
3. a proof of what the merge of `Repair` gives for a history in which blobbers only
   miss objects or only have too many: then `Repaired` can be proved (section 5).

## 3. Modules

**WriteMarkerMutex.** One connection is one `WriteMarkerMutex` object. `Lock`,
`TryLead`, `LeadTimeout`, `LeadAnswered` and `OthersAnswered` are the steps of
`Lock`; `LockGranted`, `LockFailed` and `LockGivenUp` are the outcomes of a
`lockBlobber` goroutine; `RefreshTick`, `TakeToken` and `RefreshRoundEnds` are
the refresh goroutine; `Unlock`, `UnlockBlobber`, `UnlockLead` and
`UnlockReturns` are `Unlock`. `ReleaseEarly` and `DeferUnlock` are the two
places where `Process` unlocks. The lock table (`Grantable`, `Lapse`) is
external: a lock is given to one connection, again to its owner, and lapses when
it is no longer refreshed. It is assumed to outlive the acquisition of the rest.

**VersionMarkers** holds what the status check may decide, given the markers that
were read: `MayCommit`, `MayRollback`, `RollbackStatus`.
**AllocStatus** is the code of `CheckAllocStatus`: the fold over a channel the
markers arrive on in any order, and the rollbacks. `FoldDecision` ties the two
together, and **MultiOperation** uses the relation.

**MultiOperation.** Per connection one batch: `CreateConnections`,
`ProcessOperation`, `OperationsDone` or `OperationsFailed`, `LockTaken` or
`LockFailed`, the status check (`ReadMarker`, `Decide`, `RollbackLatest`,
`RollbacksDone`, `StatusReturned`), `SendCommits`, `CommitBlobber`,
`CommitsDone`, `UndoBlobber`, `UndoDone`. A probe is another client's
`InitAllocation`. A blobber's state is the sequence of batches it committed: it
takes a commit of the version after its own. The write-marker lock is an owner:
`MutualExclusion` promises this for connections whose counted locks are still
refreshed (`Secure`), so a lead blobber outside the mask whose lock lapses is not
modelled here. `UndoBlobber` reads the marker and sends the rollback in one step,
and a blobber without a marker, on which the code would panic (`rollback.go:119`),
is left as it is. An operation is the set of blobbers it succeeded on. `singleClientMode` is fixed for a behaviour; both values are run.
**BatchHistory** says what this looks like from outside: one history of batches,
of which the last may be withdrawn until its caller was told that it is
completed. `OneHistory` is the refinement: the history is the longest log of a
blobber (`Longest`), an outcome is what the caller was told.

**ChunkedUpload.** `SkipBatch`, `BuildBatch`, `SendBatch`, `WaitDone` and
`LastUploaded` are `process` with `processUpload`; `TakeBatch`, `WorkerExits`,
`SendUploadRequest` and `BatchUploaded` are the workers; `UpdateProgress` and
`SaveTick` are the progress storer; `Resume` is `CreateChunkedUpload` on saved
progress. Content is abstracted to *parts*: the requests of a batch that go to
the workers, and the last request. The blobber keeps parts per connection and
refuses a last request whose hashes do not fit what it has (external).

**DirectoryOps.** A stack of frames: `DoMultiOperation` (`Multi`) with the
operations that are left and those of the batch that run, and an operation on a
directory (`SubDirectories`) with its phase, offset and level. `Connect` puts a
batch together (`NextBatch`, the conflict check), `ProcessOperation` is
`Process` of one operation, `CommitBatch` the rest of `Process` of the batch;
`ListFiles`, `ListDirs`, `LastStep` and `Return` are the walks of delete, copy,
move and rename, which differ in `SubOperation` and `LastStep` only. A path is a
sequence of numbers in the order of the strings, and one tree stands for all
blobbers, which is what `MultiOperation` promises of a batch. The operations of a
batch run one after another in any order; the test whether a directory is empty
and the request that follows it are one step. How a blobber answers and commits
(`Put`, `Blocked`, `Stale`, `Applicable`) is external. Each walk has the walk of
`common.go` (move, rename) or its copy in `deleteworker.go` and `copyworker.go`.

**Sync** extends `DirectoryOps`: `GetAllocationDiff` computes `FindDelta` from the
remote tree, the local one and the snapshot; `RemoveSnapshot` and
`WriteSnapshot` are `SaveRemoteSnapshot`. The application is external: it carries
out the differences in order, deletes remotely through `DoMultiOperation`, stops
at the first error, and saves the snapshot only after all succeeded.

**Download.** `GetFileRef` and `SubmitReadMarkers` are `processDownloadRequest`
and `processReadMarker`; `StartRequest` is the loop of `processDownload`;
`Round`, `Send`, `Answer`, `AnswerFails`, `NextRound` and `BlockDone` are
`getBlocksDataFromBlobbers` with `downloadBlock`, the buffers and the decoding;
`WriteNext`, `HashFails`, `PassOver` and `WriterEnds` are the goroutine that writes
a stream and checks the hash of the whole file before the last block, as it does
when blocks are not verified one by one;
`Update` and `SaveTick` are the progress storer; `Retry` is a later download of
the same file. A read that is paid for is modelled.

**Repair.** `StartRepair`, `PutRequest`, `RecordRequest`, `DispatchWork` and
`CancelRepair` are the life of a request; `ProcessRepair` and `IterateDir` set the
mode and group the blobbers; `GetRefsWithVersion` fetches a page per version,
`RepairObjects` merges them (`Visit`, `Rest`, `Trimmed` are the three parts of
the loop), `RepairOperation` is one repair batch, `RoundDone` the end of a round,
`CheckVersion` and `FinalCommit` the end of a repair. `Write` is another client's
batch. The status check of a repair (`CheckAllocStatus`) is without its rollback,
without unreadable markers and without the dependence on the order of the markers
that `AllocStatus` has: with one data shard, as in the runs, no version is too rare
to be read. The status check of the batches of a repair in single client mode
(`multi_operation_worker.go:271`) is not modelled.

**Transactions.** `SetNonce` takes a number from the cache (`GetNextNonce`) or
from the user (`SetGiven`); `Sign`, `PostTaken`, `PostRefused`, `PostLost`,
`Complete` and `Evict` are `submitTxn`; `FastConfirmation`,
`ConsensusConfirmation`, `ValidateChain` and `ConfirmationFails` are `Verify`.
`verified` tells the reports apart that the code gives with one status and a text
(`Verdicts`): the status of the transaction on the chain, a confirmation that is not
encoded again, expiry by the date of a finalised block, and expiry by the clock when
that block has no date. Miners, sharders and the chain are external: a block holds
at most one of the transactions, time is counted in blocks, and the status of a
transaction on the chain may be any.

Each module has named *variants* of single definitions, each with one plausible
bug; they are used only to see that the properties notice it.

## 4. Runs

| run | instance | shows |
|---|---|---|
| `lock_quorum` | 2 connections, 3 blobbers, threshold 2, one fault of any kind | counted locks are held, reach the threshold and exclude the other connection; who waits for a call with the same lead holds nothing |
| `lock_live` | 2 connections, 2 blobbers, a refresh round; 2 lost requests or crashes | `Unlock` returns and leaves no lock behind; the lead index is not used when every candidate failed; every `Lock` returns unless two took different leads |
| `alloc_status` | 5 blobbers (3 + 2), versions up to 2, every order | the fold decides as the relation says; only the highest version is rolled back, and only when it cannot be read |
| `batch_agree` | 3 batches, 4 blobbers (2 + 2), 2 faults | completed batches stay, failed ones go, equal versions have equal content; the batches are one history |
| `batch_live` | 2 batches, a probe, 2 blobbers (2 + 0), 1 fault, both modes | every batch returns; failed batches go, also with late commits and an unlocked status check |
| `upload_safe` | 5 chunks in 3 batches, 2 workers, 3 blobbers (1 + 2), 3 attempts, 3 faults, file and stream | success means complete; the saved index is covered; no failure without a fault |
| `upload_live` | 4 chunks in 2 batches, 2 attempts, 2 faults of any kind, file and stream | `process` returns unless a batch is in the channel when the context ends |
| `directory_sync` | 3 trees of up to 4 levels with pages of 2 and batches of 2, 12 calls; and 142 ways in which two files differ between snapshot, local and remote tree; 2 calls or rounds, one fault | a call does what its operations do in order, loses nothing and returns; a round agrees and keeps what is new |
| `download` | 3 requests, 3 blobbers (2 + 1), 2 attempts, 2 faults, file and stream | completed means complete; saved is written; fails only with fewer than a threshold of its blobbers left or a spoilt stream; returns |
| `transactions` | 2 transactions, 2 miners, 2 sharders, 3 rounds, 2 faults of any kind | nonces have no gap; every transaction that is sent is reported; the verdict is true |
| `repair` | 3 blobbers, 1 or 2 behind at 1 or 2 versions, up to 3 files and a directory, 1 or 2 repairs, 1 fault | no version without its objects; an undisturbed repair reaches all; the mode is restored; every repair ends |
| `repair_missed` | 1 blobber behind that missed a deletion and two uploads, no fault | **violated**: a repair loses a file |

Bounds. Two to four blobbers are the smallest numbers with a data shard and a
threshold, with and without parity; two connections make a conflict, the third
batch of `batch_agree` is the one that meets what two faulty ones left. The file
has a first, a middle and a last batch or request, a channel of one slot, and
requests smaller than a batch, so that order, a full channel and several requests
per batch all occur; the download has more requests than chunks in a buffer. A
directory has more files than a page, at several levels, and an empty directory;
two calls are a call and the round after it, or a round and the one after its
failure. `lock_live` has as many faults as blobbers, so that the lead index gets past
the last one. With its threshold of two a connection that lost a blobber fails, so
that no two of them wait for each other for ever; among three blobbers, and under every kind of
fault, `lock_quorum` checks as an invariant, `NoHoldAndWait`, that calls with one lead
do not wait in a circle (and it is proved): liveness with three blobbers is beyond TLC.
`transactions` has as many faults as miners, so that each of the two channels
decides the report, after failures of one kind and of both. The two transactions may be on the chain, pending and expired in every
combination; the last round that one may start in leaves time for it to expire.
Faults are budgeted (`MaxFaults`) and drawn from a set of kinds (`Faults`).
Connections, blobbers and workers are symmetric where no liveness property is
checked; lead blobbers are tried in order, so blobbers of `WriteMarkerMutex` are
not. The `VIEW`s drop local variables nothing reads any more. Deadlock is not
checked for single calls that end (lock, status check, batch, upload, download);
the liveness runs show that they do not stop earlier. The other models have an
explicit final step (`Done`).

Fairness. Goroutines run and requests are answered or time out (every request of
the code has a time-out): weak fairness of each process. `UnlockBlobber` has
strong fairness because senders blocked on a Go channel are served in order of
arrival, `LockTaken` because the client keeps asking, and the blobber's expiry
frees the lock of a dead client (`Lapse`, `LockLapses`). In `Transactions` the
chain grows and sharders follow it. The fairness of `Repair` is weak fairness of
its steps with the guard written out (`CanStep`). Faults have no fairness.

### What does not hold

One finding is in `PROJECT.json`. `repair_missed`: after the deletion of all
remaining entries of an older listing the next file is neither uploaded nor
recorded (`repairworker.go:314`), a later upload moves `lastIndex` past it, and
the final commit gives the blobber the version anyway. Other limits met while
modelling, which the passing runs leave out; most are visible by adding the fault
or the case to the configuration named.

Lock, batch and upload:

* `Process` returns nil with nothing committed when operations fail on different
  blobbers and the common mask is below the threshold
  (`multi_operation_worker.go:209`; `MaxOps = 2` in `batch_agree`);
* a cancelled upload, or one of which a batch failed on too many blobbers, which ends
  the context too (`chunked_upload.go:713`), may wait for ever: the select of
  `processUpload` may still put a batch into the channel, both workers end with the
  context, and `uploadWG.Wait` does not return (`chunked_upload_process.go:146`).
  `UploadReturns` leaves out an upload that waits in `uploadWG` with a batch in the
  channel and the context ended (`Stranded`), and shows that it waits nowhere else;
* a crash between the two parts of a full last batch leaves an index that covers
  both, and the resumed upload succeeds without the last request
  (`chunked_upload.go:724`; `Chunks = 4` in `upload_safe`);
* `AckedKept` fails with unreachable markers (`"unreachable"` in `batch_agree`)
  and with a probe: a marker that cannot be read counts as absent, and a status
  check without the lock takes a commit under way for a failed one;
* `VersionAgreement` fails with late commits, and in single client mode after a
  lost acknowledgement: the code compares version numbers only;
* the fault `"refresh"` (the refresh goroutine shrinks the mask between
  `wg.Add` and the loop of commits) makes a batch wait for ever, so
  `batch_live` leaves it out;
* `UploadComplete` fails with `"throttle"` (three answers 429 count as success)
  and with `"build"` (a blobber without a request counts); `SavedUploaded` fails
  with `"race"` (requests of one batch share an error variable);
* `FailsOnlyOnFault` fails for a stream that ends on the boundary of a batch
  (`Chunks = 4`): the empty last batch is refused;
* a refused, lost or rate-limited lead request gives a connection the next blobber
  for its lead. Two connections with different leads may then each hold what the
  other waits for, and wait for ever: a pending answer does not count as a retry
  (`writemarker_mutex.go:331`) and the context of this phase has no time-out. Among
  three blobbers one lost request is enough. `CallsReturn` leaves out that two such
  connections meet (`LeadsDiffer`), `NoHoldAndWait` shows that it takes two leads;
* the refresh goroutine may block for ever on the slot `Unlock` filled, and
  `RollbackStatus` counts with a previous version that always equals the latest,
  so that a rollback that succeeded may be reported as broken.

Directories and synchronisation:

* a destination that exists counts as moved, whatever it holds, and the source is
  deleted (`moveworker.go:148`): `AsIfInOrder` and `NothingLost` leave out calls
  whose destination holds something else (`Clash`);
* the batches are cut by comparing the path of an operation with those of earlier
  ones and their parents (`allocation.go:1062`), not with their destinations and not
  with what is below it, and the operations of a batch are performed in parallel
  (the comment at `allocation.go:985`): a move of `/2/5` into `/1` and a delete of
  `/1`, in one call, end with or without `/1/5`. `AsIfInOrder` leaves out calls with
  such a pair (`Unseen`); `NothingLost` and `CallReturns` include the one in the run;
* a copy of a directory that has a sub-directory with something in it never returns
  nil: `NewCopyOperation` drops `copyDirOnly` (`copyworker.go:468`), so that the
  nested copy of the sub-directory copies its files again and is refused.
  `AsIfInOrder` has nothing to say of it;
* what another client uploads into a directory that is being moved is deleted
  with it; empty directories behind a stale offset are deleted, not moved;
* copying or moving a directory into itself does not end once a page is full;
* a directory delete whose requests were refused returns nil;
* a file that only the remote side changed is reported as a conflict, because the
  local file is compared with the remote one and not with the snapshot
  (`sync.go:224`); the next round then overwrites the remote change;
* a deletion on one side beats a change on the other, and takes new files in the
  deleted directory with it (`New` leaves these out); a path that is a file here
  and a directory there is left alone; a filtered local name is deleted remotely
  in the round after the first.

Download:

* after a refused read marker a blobber is skipped, and results of blobbers that
  were not asked are awaited for ever (`downloadworker.go:264`); a cancel before
  the first request waits for ever too (`704`); `DownloadReturns` excludes both;
* a failed block request releases the chunk of the first block
  (`downloadworker.go:304`), and a block that waited 45 s for a chunk and took
  memory of its own releases a chunk it never had when it is written
  (`download_buffer.go:129`); a block of a stream can then get the data of another
  one. The hash of the whole file is checked before the last block is written, so
  the stream is not reported completed (`Complete`), but the download fails although
  a threshold of blobbers answered; `FailsBeyondParity` names this as a reason. The
  second case needs more requests than a buffer has chunks to spare and was met in
  the proof, not by the run;
* a download reads from at most one blobber more than it needs (`CountThreshold`,
  `downloadworker.go`), so it has one to spare whatever the number of parity
  shards: with four blobbers and a threshold of two it fails when two of the three
  it reads from do. `FailsBeyondParity` counts the blobbers of the queue for this
  reason; with one parity shard, as in the run, the two counts are the same;
* a cancel that no running request sees ends in `Completed` with blocks missing;
  a crash after the last block was saved makes the next attempt fail.

Repair:

* a latest version of a full page or more: its listing is fetched again from the
  same offset (`repairworker.go:453`), files just uploaded are deleted, and two
  full pages never end;
* a repair batch has threshold 0 (`multi_operation_worker.go:37`): commits that
  fail, and batches for blobbers at two versions, whose masks have nothing in
  common, change nothing and report nothing (`missed`);
* overlapping repairs leave the batch sizes wrong, can undo each other's work
  while another client writes, and cancel or forget one another; a user batch that
  runs while the mode is switched can leave `commitMutex` locked.

Transactions:

* an eviction while other transactions are pending, and a nonce given by the user,
  can number two transactions alike: `Consecutive` stops at the first of them
  (`disturbed`); a failed query for the nonce counts as nonce 0;
* a submission reported as failed may still run; a failed authorisation keeps the
  nonce it took; without miners `submitTxn` waits for ever;
* a last finalised block without a date counts as one of now
  (`transaction_base.go:667`), so that sharders that are behind the chain can make
  `Verify` report a transaction as expired that is on the chain or will be.
  `VerifyOutcome` tells this verdict (`"overdue"`) from expiry by a date and says
  nothing of it;
* `Verify` encodes and parses the confirmation again after the chain check, and
  returns without a report when it cannot be parsed (`transaction.go:1221`, `1227`).
  The same bytes were parsed before, so the model has it as a fault, and
  `Reported` leaves it out (`"silent"`).

## 5. Proofs

A theorem holds for every value of the constants, so for any number of clients,
blobbers, chunks, faults and attempts; TLC's runs are instances of it. The proofs
of a component are in a module of their own.

### What is proved

**WriteMarkerMutexProofs**

* `TypeCorrect`, `LeadIndexInRange`: `TypeOK` and `LeadInRange`, inductive
  together: the index is in range in every phase that uses it because
  `LeadAnswered` leaves the loop before it is used again;
* `LockQuorumHolds`: not inductive alone. `LockProgress` adds where the tokens
  and goroutines are in each phase of `Lock`: while the lead is asked only the
  lead may be granted, no goroutine is in the retry loop for a blobber that was
  counted, and a lock of a call under way is kept alive. `IndInv` is their
  conjunction; the counter argument uses the cardinality of subsets of `0..N-1`
  (`BlobberSets`);
* `MutualExclusionHolds`: from `LockQuorum` and `QuorumAssumption`
  (`2 * (Thresh - AddConsensus) > N`), by counting two disjoint sets of holders
  (`QuorumsExclude`);
* `NoHoldAndWaitHolds`: from `LockQuorum` and the conjunct of `LockProgress` that a
  connection which asks for the others has counted its lead; two that do so with the
  same lead would both hold it (`LeadFirst`);
* `NoOrphanLockHolds`: with `LocksTracked`, which says that a blobber held by a
  connection is one that `Unlock` still has to visit or one where a request
  failed, and that nobody who may still lock it has got past the fence that
  `UnlockBlobber` puts into the slot.

**AllocStatusProofs**: `TypeCorrect`, `FoldDecisionHolds` and the action property
`RollbackSparesQuorumHolds`. `FoldInv` says what the loop over the markers keeps
up after any subset of them: the map holds exactly those seen, the latest version
is their highest, and the flag `consensusReached` may be left over from a lower
version but is set whenever the latest one has enough. `PhaseInv` says that
rollbacks run only at blobbers of the latest version, each counted once. No
hypothesis.

**MultiOperationProofs**

* `TypeCorrect`, under all faults, in both modes and with probes. That a log stays
  within the number of batches is not obvious: `OnceInv` says that a blobber is
  asked once for each batch, so that no batch is twice in a log, and a log without
  repetition is no longer than the set of batches (`LogLength`);
* `FailedUndoneHolds`: `UndoneInv` says that a batch being committed or undone is
  on top of every log that has it, which rests on `LockInv`, and accounts for every
  blobber that has it. Hypothesis: no request is executed late. With late
  requests the batch may come back after its rollback; `batch_live` checks that two
  clients cannot make this visible, and no more is claimed.

**OneHistoryProofs**: `VersionAgreementHolds`, `AckedKeptHolds` and the refinement
`OneHistoryHolds`. `HistoryInv` states both invariants together with what a client
relies on in each phase (`Part`): the versions it has read are still those of the
blobbers, its rollbacks hit no completed batch, and what is above the version of
the allocation is its own batch. The two need each other: a completed batch is kept
because its threshold of blobbers is at one version, and versions agree because
nobody rolls back below a completed batch. The refinement follows from the shape of
a step on the logs (`LogChanges`) and the longest log. Hypothesis `Undisturbed`: no
status check without the lock, multi-client mode, all markers readable, no late
requests. Each of the four is needed (section 4, *What does not hold*), and the
configuration of `batch_agree` satisfies them; commits that are lost, refused or
hang, failing rollbacks, a shrinking mask and dead clients are included.
`OneHistoryHolds` also takes an allocation to have a blobber.

**ChunkedUploadProofs**

* `TypeCorrect`: the wait group needs `GroupInv` (one `Add` for every batch in the
  channel or with a worker, at most one per batch), the counters of a batch need
  `CountedOnce`;
* `SavedUploadedHolds` and `UploadCompleteHolds` from one invariant, `UploadInv`: an
  uploader counts only blobbers that have its part (`CountInv`), the storer's queue
  holds only ends of batches a threshold has, and advances batch by batch
  (`ProgressInv`), the last request goes out when nothing else is under way
  (`LastInv`), and an attempt that starts with everything covered sends nothing
  (`CoveredInv`). Hypotheses: `CountsAreHonest` (none of the faults `"build"`,
  `"throttle"`, `"race"`) and `OneRequestEnd` (the last batch is one request).
  Without the first a count includes blobbers that stored nothing, without the
  second the index on disk covers the last request before it is sent; both failures
  are listed in section 4, and `upload_safe` satisfies both hypotheses;
* `FailsOnlyOnFaultHolds`: `CleanInv` says that before the first fault every part
  sent is in the channel, with a worker or on all blobbers (`NoneLost`), that a
  worker's count plus the requests it waits for is the number of blobbers
  (`CleanJob`), and that nothing has been cancelled, dropped from the mask or left
  out of a batch; so every count reaches the threshold and the last request finds
  all others stored. Hypotheses: `Thresh <= Cardinality(Blobbers)`, and `DataAtEnd`, a
  stream does not end on the boundary of a batch: the empty last batch is refused
  there (section 4). `upload_safe` satisfies both.

**DownloadProofs**, no hypothesis in any of them:

* `SavedWrittenHolds`: `StorerInv` says that everything before the index the storer
  waits for is in the file, also across attempts;
* `FailsBeyondParityHolds`. `RequestInv` accounts for the positions of the queue: no
  position is both answered and waited for, and the first request, which shortens
  the mask that later ones start from, leaves as many positions in it as blobbers
  that it has or can still have (`StartInv`; the queue is sorted then, so the first
  positions are the ones that answered). `Rounds` says that every position a
  request has given up is one whose blobber failed, and that a later request is
  always at a threshold of positions, its failures counted. A request that is short
  of positions therefore has more failed blobbers than the queue can spare
  (`Shortage`, by counting), and that stays an excuse for the download (`ExcuseStays`).
  That the hash of a stream is wrong only after a fault is `StreamInv`: `Smooth`,
  without a fault every request after the first is at the same threshold of
  blobbers, and `Chunks`, whatever a blobber has answered and the writer has not
  written is alone in a chunk that is in use, so that writing a block releases no
  chunk that another block is in;
* `CompleteHolds`. Order and completeness: `LoopInv`, every block that was started
  runs or is delivered as long as no request failed, and `WriterInv`, the stream is
  the sequence of blocks. Data of a stream, after any fault: `HashInv`, when the last
  block is there every request has ended, so nothing can spoil a block any more after
  the hash was checked.

**RepairProofs**, for any number of overlapping repairs:

* `TypeCorrect` and `ModeRestoredHolds`. `ModeInv`: single client mode is on only for a
  running repair that switched it on. It needs `QueueInv`, a request is in the
  channel at most once, or a repair could run twice;
* `VersionsTakenHolds`, the half of `Repaired` that needs no listing: a repair that
  met no fault and reports no error has brought every blobber to the newest version.
  `OnCourse` says that the masks of `iterateDir` cover all blobbers, that those of the
  latest version keep it, and that the final commit has every other blobber to do;
  `LatestInv`, that the client knows the newest version and nothing ahead of a blobber.
  The other half, that such a repair reports no error, needs that every upload the
  merge asks for has a source; it is model-checked only.

**TransactionsProofs**: `TypeCorrect`, `VerifyOutcomeHolds` and `ConsecutiveHolds`.
For the second, `ChainInv`: a transaction is on the chain at most once and not
after it expired, so a verdict *expired* by the date of a finalised block stays true
(`ExpiredNotOnChain`: the sharders that told the date did not know the transaction),
and `VerifyInv`: what is reported with a status was found under enough blocks. For
the third, `CacheInv`: the
cache is the number of transactions that have a nonce.

### Assumptions

Those that are more than types of constants: `QuorumAssumption`, which the code
never checks and which holds when there are fewer than `DataShards + 2` parity
shards; `Thresh >= DataShards` in `MultiOperation` (`getConsensuses` returns
`DataShards` or one more); blobbers, connections, workers, transactions and
sharders are finite sets (blobbers in `Download` too); `CasesAssumption` of `Repair` (blobbers start with
versions that were committed); names that stand for nobody (`NoConn`, `Empty`,
`"client"`) are not processes. TLC evaluates all of them in the runs.

### What is model-checked only

* Liveness (`CallsReturn`, `ProcessReturns`, `UploadReturns`, `CallReturns`,
  `DownloadReturns`, `Reported`, `RepairEnds`): fairness is out of the prover's reach.
* `VersionHonest` and `Repaired` of `Repair`, and everything of `DirectoryOps` and
  `Sync`: they say what folds over listings and the walks of trees compute, which
  needs induction over data. `VersionHonest` also holds only for histories in which a
  blobber misses objects or has too many, not both (`repair_missed`).

## 6. Not modelled

* A change of `singleClientMode` in the middle of a user's batch; the `IsRepair`
  flag of markers.
* The masks of single blobbers within delete, copy, move, rename and create
  directory: one tree stands for the blobbers.
* How listings and file references are agreed on: a listing is a page, a
  reference is there or not.
* `ChunkedUpload.Start` with its own commit, which batches do not use; thumbnails,
  hashing and encryption; the wasm variant of the upload; the range readers of
  the download, its check of single blocks (`VerifyDownload`), free reads, which ask
  all blobbers (`CountThreshold`), and the read counters of the blobbers.
* `core/transaction` with its own submission and verification, the fee cache,
  and the weights of the nodes.
* Synchronisation of a part of the allocation: `SaveRemoteSnapshot` lists the
  root, and the diff is modelled for the root.

Most of the repository's lines are outside a model's reach or interest: the
contract bindings of `znft` and `zcnbridge` are generated, `mimedb.go` is a table,
`wasmsdk`, `winsdk`, `mobilesdk` and the `_mobile` and `_wasm` files repeat an
interface in front of the same code, `zcncore` and the rest of `allocation.go`
format requests for contracts and blobbers and keep no state between them. The
Reed-Solomon arithmetic is third party, keys and signatures are cryptography.
