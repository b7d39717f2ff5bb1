------------------------------- MODULE Repair -------------------------------
(***************************************************************************)
(* Repair (zboxcore/sdk/repairworker.go; StartRepair, RepairAlloc,         *)
(* CancelRepair and dispatchWork of allocation.go).  A repair groups the   *)
(* blobbers by the version they hold, merges the listing of the latest     *)
(* version with that of every other one, page by page, runs the uploads,   *)
(* deletions and new directories the merge gives in repair batches, which  *)
(* leave the versions alone, and at the end, if the latest version is      *)
(* still the same, has the other blobbers take it.                         *)
(*                                                                         *)
(* A path is a number, in the order of the strings; an object is a         *)
(* directory (Dir) or the hash of a file; directories are empty ones.  A   *)
(* batch of DoMultiOperation is one step.  External: a listing starts      *)
(* after the offset and says where it ended; a blobber refuses a repair    *)
(* batch for a version it no longer has, and a version lower than its own; *)
(* another client's batch gives all blobbers of the latest version the     *)
(* next one.                                                               *)
(***************************************************************************)
EXTENDS Integers, FiniteSets, Sequences, SequencesExt, FiniteSetsExt

CONSTANTS
  Blobbers,
  DataShards,
  MaxRequests,   \* bound: how many repairs are started
  Cases,         \* bound: the versions, objects and number of requests at the start
  PageLimit,     \* getRefPageLimit
  UserBatch,     \* MultiOpBatchSize as the user left it
  RepairBatch,   \* multiOpRepairBatchSize
  WritePaths,    \* bound: the files another client may write or delete
  Allowed(_),    \* bound: the histories its commits may give
  Faults,        \* what may go wrong; see FaultKinds
  MaxFaults      \* bound: how often

\* A listing fails, an operation of a batch fails, a blobber does not commit, the
\* user cancels, the program dies, another client commits a batch.
FaultKinds == {"list", "operation", "commit", "cancel", "crash", "write"}

ASSUME LimitsAssumption ==
  PageLimit \in Nat \ {0} /\ UserBatch \in Nat \ {0} /\ RepairBatch \in Nat \ {0}
ASSUME BoundsAssumption ==
  Faults \subseteq FaultKinds /\ MaxFaults \in Nat /\ MaxRequests \in Nat
ASSUME ShardsAssumption == IsFiniteSet(Blobbers) /\ DataShards \in 1 .. Cardinality(Blobbers)

\* The blobbers of a case hold versions that clients committed.
ASSUME CasesAssumption ==
  \A c \in Cases :
    /\ c.history = [v \in 1 .. Len(c.history) |-> c.history[v]] /\ Len(c.history) \in Nat
    /\ c.version \in [Blobbers -> 1 .. Len(c.history)]
    /\ c.requests \in Nat

VARIABLES
  objects,       \* the objects each blobber holds: path -> Dir or hash
  version,       \* the version each blobber holds
  history,       \* the objects of the versions clients committed
  known,         \* AllocationVersion of each blobber, as this client knows it
  latest,        \* allocationVersion of the allocation object
  repair,        \* the requests, by their order
  chan,          \* repairChan
  inProgress,    \* repairRequestInProgress; 0 is nil
  mode,          \* singleClientMode
  batchSize,     \* MultiOpBatchSize
  missed,        \* the blobbers with a batch they did not commit
  budget         \* how many faults may still happen

globals == <<chan, inProgress, mode, batchSize>>
blobs == <<objects, version, history>>
vars == <<objects, version, history, known, latest, repair, globals, missed, budget>>

-----------------------------------------------------------------------------
(* Listings.                                                               *)

Dir == 0
Kinds == <<"FILE", "DIRECTORY">>

\* A page of a blobber's objects of one kind, after the offset, in order.
GetRefs(b, kind, offset) ==
  LET paths == {p \in DOMAIN objects[b] : p > offset /\ (objects[b][p] = Dir) = (kind = "DIRECTORY")}
      nth(i) == CHOOSE p \in paths : Cardinality({q \in paths : q < p}) = i - 1
  IN  [i \in 1 .. Min({PageLimit, Cardinality(paths)}) |->
         [path |-> nth(i), hash |-> objects[b][nth(i)]]]

\* getRes of a version after its first page; the offset stays that of this page.
FirstPage(page) ==
  [refs |-> page, offset |-> IF page = <<>> THEN 0 ELSE Last(page).path,
   done |-> Len(page) < PageLimit, matched |-> 0]

LaterPage(res, page) ==
  [res EXCEPT !.refs = @ \o page, !.done = @ \/ Len(page) < PageLimit]

-----------------------------------------------------------------------------
(* The merge: repairObjects between two calls of getRefsWithVersion.       *)

\* Where the merge is in the listing of one version: the next entry, the last
\* path that was matched, the last entry of the latest version it was matched to.
Start(res) == [idx |-> 1, matched |-> res.matched, last |-> 0]

Upload(kind, file, mask) ==
  [type |-> IF kind = "FILE" THEN "upload" ELSE "createDir", path |-> file.path,
   mask |-> IF kind = "FILE" THEN mask ELSE Blobbers]
Delete(ref, mask) == [type |-> "delete", path |-> ref.path, mask |-> mask]
Deletes(refs, mask) == [i \in DOMAIN refs |-> Delete(refs[i], mask)]

\* The first entry from idx that is not before the path.
SkipTo(refs, idx, path) ==
  Min({Len(refs) + 1} \cup {j \in idx .. Len(refs) : refs[j].path >= path})

\* One file of the latest version, the i-th, against the listing of one version:
\* where the merge is then, and the operations it added.
Visit(kind, file, i, res, at, mask) ==
  LET matched == [at EXCEPT !.matched = file.path, !.last = i]
      stop == SkipTo(res.refs, at.idx, file.path)
      gone == Deletes(SubSeq(res.refs, at.idx, stop - 1), mask)
      upload == <<Upload(kind, file, mask)>>
  IN  CASE file.path <= at.matched -> [at |-> at, ops |-> <<>>]
        [] file.path > at.matched /\ at.idx > Len(res.refs) ->
             IF res.done THEN [at |-> matched, ops |-> upload] ELSE [at |-> at, ops |-> <<>>]
        [] OTHER ->
             LET ref == res.refs[at.idx]
             IN  CASE ref.path = file.path ->
                        [at |-> [matched EXCEPT !.idx = @ + 1],
                         ops |-> IF kind = "FILE" /\ ref.hash # file.hash THEN upload ELSE <<>>]
                   [] ref.path < file.path ->
                        IF stop <= Len(res.refs) /\ res.refs[stop].path > file.path
                          THEN [at |-> [matched EXCEPT !.idx = stop + 1], ops |-> gone \o upload]
                          ELSE [at |-> [at EXCEPT !.idx = stop], ops |-> gone]
                   [] ref.path > file.path -> [at |-> matched, ops |-> upload]

\* All files of the latest version against all the others, in the order of the
\* map, a permutation of the versions.
Merge(kind, files, res, order, masks) ==
  LET visit(acc, i, v) ==
        LET new == Visit(kind, files[i], i, res[v], acc.at[v], masks[v])
        IN  [at |-> [acc.at EXCEPT ![v] = new.at], ops |-> acc.ops \o new.ops]
      all(acc, i) == FoldLeft(LAMBDA a, v : visit(a, i, v), acc, order)
  IN  FoldLeft(all, [at |-> [v \in ToSet(order) |-> Start(res[v])], ops |-> <<>>],
               [i \in DOMAIN files |-> i])

\* The latest listing is complete: what is left of the others is deleted, and
\* what a complete one was not matched to is uploaded.
Rest(kind, files, res, at, mask) ==
  LET todo == SubSeq(files, at.last + 1, Len(files))
  IN  Deletes(SubSeq(res.refs, at.idx, Len(res.refs)), mask)
        \o (IF res.done THEN [i \in DOMAIN todo |-> Upload(kind, todo[i], mask)] ELSE <<>>)

\* It is not: what all have passed is dropped from the listings.
Trimmed(res, at, top) ==
  LET open == {v \in DOMAIN at : ~res[v].done}
      last == Min({Len(res[top].refs)} \cup {at[v].last : v \in open})
  IN  [v \in DOMAIN res |->
         CASE v = top -> [res[v] EXCEPT !.refs = SubSeq(@, last + 1, Len(@))]
           [] v \in open -> [res[v] EXCEPT !.refs = SubSeq(@, at[v].idx, Len(@)), !.matched = at[v].matched]
           [] OTHER -> [res[v] EXCEPT !.matched = at[v].matched]]

Matched(res, at) ==
  [v \in DOMAIN res |-> IF v \in DOMAIN at THEN [res[v] EXCEPT !.matched = at[v].matched] ELSE res[v]]

-----------------------------------------------------------------------------
(* States.                                                                 *)

\* A request: whether its goroutine still has to put or to record it, where
\* processRepair is, whether it was cancelled, what it saved and set, the version
\* it repairs to, the blobbers of each version, its listings and operations.
Request ==
  [recorder |-> "none", pc |-> "none", canceled |-> FALSE, setMode |-> FALSE,
   size |-> 0, latest |-> 0, masks |-> <<>>, kind |-> 1, res |-> <<>>, ops |-> <<>>,
   todo |-> {}, error |-> FALSE]

Pcs == {"none", "queued", "dispatched", "mode", "list", "merge", "batches",
        "check", "final", "ended", "dead"}
Running == Pcs \ {"none", "queued", "ended", "dead"}
Requests == 1 .. MaxRequests

TypeOK ==
  /\ \A b \in Blobbers : version[b] \in DOMAIN history
  /\ known \in [Blobbers -> Nat] /\ latest \in Nat
  /\ \A r \in Requests :
       /\ repair[r].pc \in Pcs
       /\ repair[r].recorder \in {"none", "put", "record", "done"}
       /\ \A v, w \in DOMAIN repair[r].masks :
            v # w => repair[r].masks[v] \cap repair[r].masks[w] = {}
       /\ DOMAIN repair[r].res \subseteq DOMAIN repair[r].masks
  /\ Len(chan) <= 1 /\ inProgress \in {0} \cup Requests
  /\ mode \in BOOLEAN /\ batchSize \in {UserBatch, RepairBatch}
  /\ missed \subseteq Blobbers /\ budget \in 0 .. MaxFaults

\* A case has the objects of the versions, the version of each blobber, and the
\* number of requests; the blobbers hold what their versions say.
Init ==
  \E c \in Cases :
    /\ history = c.history
    /\ version = c.version
    /\ objects = [b \in Blobbers |-> c.history[c.version[b]]]
    /\ known = c.version /\ latest = Max({c.version[b] : b \in Blobbers})
    /\ repair = [r \in Requests |->
                  IF r <= c.requests THEN Request ELSE [Request EXCEPT !.pc = "dead"]]
    /\ chan = <<>> /\ inProgress = 0 /\ mode = FALSE /\ batchSize = UserBatch
    /\ missed = {} /\ budget = MaxFaults

Fault(kind) ==
  /\ kind \in Faults
  /\ budget > 0
  /\ budget' = budget - 1

Newest == Max({version[b] : b \in Blobbers})

\* CheckAllocStatus, when the blobbers answer: AllocStatus has its decision.
CheckAllocStatus ==
  /\ known' = version
  /\ latest' = IF Cardinality({b \in Blobbers : version[b] = Newest}) >= DataShards
                 THEN Newest ELSE latest

\* A variant that saves the mode at the start and puts it back.
EndSavedMode(r, error) ==
  /\ repair' = [repair EXCEPT ![r].pc = "ended", ![r].error = error,
                              ![r].res = <<>>, ![r].ops = <<>>]
  /\ batchSize' = repair[r].size
  /\ mode' = ~repair[r].setMode
  /\ inProgress' = 0
  /\ UNCHANGED chan

\* The deferred calls of processRepair: the sizes and the mode are put back, and
\* completedCallback forgets whatever request is recorded.
End(r, error) ==
  /\ repair' = [repair EXCEPT ![r].pc = "ended", ![r].error = error,
                              ![r].res = <<>>, ![r].ops = <<>>]
  /\ batchSize' = repair[r].size
  /\ mode' = (mode /\ ~repair[r].setMode)
  /\ inProgress' = 0
  /\ UNCHANGED chan

-----------------------------------------------------------------------------
(* Starting and cancelling.                                                *)

\* StartRepair and RepairAlloc.
StartRepair(r) ==
  /\ repair[r].pc = "none"
  /\ CheckAllocStatus
  /\ repair' = [repair EXCEPT ![r].pc = "queued", ![r].recorder = "put"]
  /\ UNCHANGED <<blobs, globals, missed, budget>>

\* A variant that does not wait for the channel.
PutAnyway(r) ==
  /\ repair[r].recorder = "put"
  /\ chan' = Append(chan, r)
  /\ repair' = [repair EXCEPT ![r].recorder = "record"]
  /\ UNCHANGED <<blobs, known, latest, inProgress, mode, batchSize, missed, budget>>

\* The goroutine of StartRepair: into the channel, then the record.
PutRequest(r) ==
  /\ repair[r].recorder = "put"
  /\ chan = <<>>
  /\ chan' = <<r>>
  /\ repair' = [repair EXCEPT ![r].recorder = "record"]
  /\ UNCHANGED <<blobs, known, latest, inProgress, mode, batchSize, missed, budget>>

RecordRequest(r) ==
  /\ repair[r].recorder = "record"
  /\ inProgress' = r
  /\ repair' = [repair EXCEPT ![r].recorder = "done"]
  /\ UNCHANGED <<blobs, known, latest, chan, mode, batchSize, missed, budget>>

DispatchWork(r) ==
  /\ chan = <<r>>
  /\ chan' = <<>>
  /\ repair' = [repair EXCEPT ![r].pc = "dispatched"]
  /\ UNCHANGED <<blobs, known, latest, inProgress, mode, batchSize, missed, budget>>

CancelRepair ==
  /\ inProgress # 0
  /\ Fault("cancel")
  /\ repair' = [repair EXCEPT ![inProgress].canceled = TRUE]
  /\ UNCHANGED <<blobs, known, latest, globals, missed>>

-----------------------------------------------------------------------------
(* processRepair.                                                          *)

\* The cancel is seen, or the mode is read.
ProcessRepair(r) ==
  /\ repair[r].pc = "dispatched"
  /\ \/ /\ repair[r].canceled
        /\ repair' = [repair EXCEPT ![r].pc = "ended"]
        /\ inProgress' = 0
     \/ /\ ~repair[r].canceled
        /\ repair' = [repair EXCEPT ![r].pc = "mode", ![r].setMode = ~mode]
        /\ UNCHANGED inProgress
  /\ UNCHANGED <<blobs, known, latest, chan, mode, batchSize, missed, budget>>

VersionsOf == {known[b] : b \in Blobbers}

\* The mode and the batch size are set; iterateDir groups the blobbers by the
\* version known of them, and returns if they do not agree on the latest, or all
\* have it.
IterateDir(r) ==
  /\ repair[r].pc = "mode"
  /\ LET masks == [v \in VersionsOf |-> {b \in Blobbers : known[b] = v}]
         enough == latest \in VersionsOf /\ Cardinality(masks[latest]) >= DataShards
     IN  \/ /\ enough /\ Cardinality(VersionsOf) > 1
            /\ repair' = [repair EXCEPT ![r].pc = "list", ![r].size = batchSize,
                            ![r].latest = latest, ![r].masks = masks]
            /\ mode' = (mode \/ repair[r].setMode) /\ batchSize' = RepairBatch
            /\ UNCHANGED <<chan, inProgress>>
         \/ /\ ~enough \/ Cardinality(VersionsOf) = 1
            /\ repair' = [repair EXCEPT ![r].pc = "ended", ![r].error = ~enough]
            /\ mode' = (mode /\ ~repair[r].setMode)
            /\ inProgress' = 0
            /\ UNCHANGED <<chan, batchSize>>
  /\ UNCHANGED <<blobs, known, latest, missed, budget>>

\* getRefsWithVersion: a page from one blobber of every version.  A version whose
\* first page fails is left out of the repair; a later page that fails is asked
\* for again in the next round.
GetRefsWithVersion(r, failed) ==
  /\ repair[r].pc = "list"
  /\ \/ failed = {} /\ UNCHANGED budget
     \/ failed # {} /\ Fault("list")
  /\ LET q == repair[r]
         vs == DOMAIN q.masks
         first == q.res = <<>>
         left == IF first THEN vs \ failed ELSE vs
     IN  /\ failed \subseteq vs
         /\ \E from \in [vs -> Blobbers] :
              /\ \A v \in vs : from[v] \in q.masks[v]
              /\ LET page(v) == GetRefs(from[v], Kinds[q.kind], IF first THEN 0 ELSE q.res[v].offset)
                     res == [v \in left |-> CASE first -> FirstPage(page(v))
                                              [] ~first /\ v \in failed -> q.res[v]
                                              [] ~first /\ v \notin failed -> LaterPage(q.res[v], page(v))]
                 IN  \/ /\ q.latest \in left /\ Cardinality(left) > 1
                        /\ repair' = [repair EXCEPT ![r].pc = "merge", ![r].res = res,
                                        ![r].masks = [v \in left |-> q.masks[v]]]
                        /\ UNCHANGED globals
                     \/ /\ q.latest \notin left \/ Cardinality(left) = 1
                        /\ End(r, TRUE)
  /\ UNCHANGED <<blobs, known, latest, missed>>

\* The rest of a round of repairObjects: a cancel is seen if the latest version
\* has a file in this round.
RepairObjects(r) ==
  /\ repair[r].pc = "merge"
  /\ LET q == repair[r]
         kind == Kinds[q.kind]
         top == q.res[q.latest]
     IN  \/ /\ q.canceled /\ top.refs # <<>>
            /\ End(r, TRUE)
         \/ /\ ~q.canceled \/ top.refs = <<>>
            /\ \E order \in SetToSeqs(DOMAIN q.res \ {q.latest}) :
                 LET m == Merge(kind, top.refs, q.res, order, q.masks)
                     rest == [i \in DOMAIN order |->
                                Rest(kind, top.refs, q.res[order[i]], m.at[order[i]], q.masks[order[i]])]
                 IN  repair' = [repair EXCEPT ![r].pc = "batches",
                       ![r].ops = m.ops \o (IF top.done THEN FlattenSeq(rest) ELSE <<>>),
                       ![r].res = IF top.done THEN Matched(q.res, m.at)
                                  ELSE Trimmed(q.res, m.at, q.latest)]
            /\ UNCHANGED globals
  /\ UNCHANGED <<blobs, known, latest, missed, budget>>

-----------------------------------------------------------------------------
(* Batches: DoMultiOperation and Process with WithRepair.                  *)

\* The operations of the next batch: different paths, no more than the limit.
NextBatch(ops) ==
  SubSeq(ops, 1, Max({n \in 0 .. Min({batchSize, Len(ops)}) :
                        \A i, j \in 1 .. n : i # j => ops[i].path # ops[j].path}))

\* The content the upload of a repair reads: that of the latest version.
Sources(path) == {b \in Blobbers : version[b] = Newest /\ path \in DOMAIN objects[b]}

\* A delete that not all blobbers of its mask have anything for changes nothing.
Changes(op) == op.type # "delete" \/ \A b \in op.mask : op.path \in DOMAIN objects[b]

Apply(b, tree, op) ==
  CASE b \notin op.mask -> tree
    [] b \in op.mask /\ op.type = "delete" -> [p \in DOMAIN tree \ {op.path} |-> tree[p]]
    [] OTHER -> [p \in DOMAIN tree \cup {op.path} |->
                   IF p # op.path THEN tree[p]
                   ELSE IF op.type = "createDir" THEN Dir
                   ELSE objects[CHOOSE s \in Sources(op.path) : TRUE][p]]

\* A batch: the blobbers that every change is for commit it, but for those that
\* fail, or are no longer at the version they are known to have, which is no
\* error with a threshold of 0.
RepairOperation(r, failed) ==
  /\ repair[r].pc = "batches" /\ repair[r].ops # <<>>
  /\ \/ failed = {} /\ UNCHANGED budget
     \/ failed # {} /\ Fault("commit")
  /\ LET q == repair[r]
         batch == NextBatch(q.ops)
         ops == SelectSeq(batch, Changes)
         asked == UNION {ops[i].mask : i \in DOMAIN ops}
         current == {b \in Blobbers : version[b] = known[b]}
         mask == {b \in asked \cap current : \A i \in DOMAIN ops : b \in ops[i].mask} \ failed
     IN  /\ failed \subseteq asked
         /\ \/ /\ \E i \in DOMAIN ops : ops[i].type = "upload" /\ Sources(ops[i].path) = {}
               /\ End(r, TRUE)
               /\ UNCHANGED <<objects, missed>>
            \/ /\ \A i \in DOMAIN ops : ops[i].type = "upload" => Sources(ops[i].path) # {}
               /\ objects' = [b \in Blobbers |->
                    IF b \in mask THEN FoldLeft(LAMBDA t, op : Apply(b, t, op), objects[b], ops)
                    ELSE objects[b]]
               /\ missed' = missed \cup ((asked \cap current) \ mask)
               /\ repair' = [repair EXCEPT ![r].ops = SubSeq(@, Len(batch) + 1, Len(@))]
               /\ UNCHANGED globals
  /\ UNCHANGED <<version, history, known, latest>>

OperationFails(r) ==
  /\ repair[r].pc = "batches" /\ repair[r].ops # <<>>
  /\ Fault("operation")
  /\ End(r, TRUE)
  /\ UNCHANGED <<blobs, known, latest, missed>>

\* A variant that stays with the files.
FilesAgain(r) ==
  /\ repair[r].pc = "batches" /\ repair[r].ops = <<>>
  /\ LET complete == \A v \in DOMAIN repair[r].res : repair[r].res[v].done
     IN  repair' = [repair EXCEPT ![r].pc = "list", ![r].res = IF complete THEN <<>> ELSE @]
  /\ UNCHANGED <<blobs, known, latest, globals, missed, budget>>

\* All batches are done: the next round, the next kind of object, or the check.
RoundDone(r) ==
  /\ repair[r].pc = "batches" /\ repair[r].ops = <<>>
  /\ LET complete == \A v \in DOMAIN repair[r].res : repair[r].res[v].done
         next == repair[r].kind + 1
     IN  repair' = [repair EXCEPT
           ![r].pc = IF complete /\ next > Len(Kinds) THEN "check" ELSE "list",
           ![r].kind = IF complete /\ next <= Len(Kinds) THEN next ELSE @,
           ![r].res = IF complete THEN <<>> ELSE @]
  /\ UNCHANGED <<blobs, known, latest, globals, missed, budget>>

\* A variant that does not look whether the version changed.
NoVersionCheck(r) ==
  /\ repair[r].pc = "check"
  /\ CheckAllocStatus
  /\ repair' = [repair EXCEPT ![r].pc = "final",
                  ![r].todo = {b \in Blobbers : \E v \in DOMAIN repair[r].masks \ {repair[r].latest} :
                                                 b \in repair[r].masks[v]}]
  /\ UNCHANGED <<blobs, globals, missed, budget>>

\* A variant that sends the final commit to one version only.
OneVersionOnly(r) ==
  /\ repair[r].pc = "check"
  /\ CheckAllocStatus
  /\ \/ latest' # repair[r].latest /\ End(r, TRUE)
     \/ /\ latest' = repair[r].latest
        /\ repair' = [repair EXCEPT ![r].pc = "final",
             ![r].todo = repair[r].masks[Max(DOMAIN repair[r].masks \ {repair[r].latest})]]
        /\ UNCHANGED globals
  /\ UNCHANGED <<blobs, missed, budget>>

\* The version is checked again before the final commit.
CheckVersion(r) ==
  /\ repair[r].pc = "check"
  /\ CheckAllocStatus
  /\ LET q == repair[r]
     IN  \/ /\ latest' # q.latest
            /\ End(r, TRUE)
         \/ /\ latest' = q.latest
            /\ repair' = [repair EXCEPT ![r].pc = "final",
                            ![r].todo = UNION {q.masks[v] : v \in DOMAIN q.masks \ {q.latest}}]
            /\ UNCHANGED globals
  /\ UNCHANGED <<blobs, missed, budget>>

\* The final commit, to every blobber that was not of the latest version.  One that
\* is ahead by now refuses it, which is an error.
FinalCommit(r, b) ==
  /\ repair[r].pc = "final" /\ b \in repair[r].todo
  /\ repair' = [repair EXCEPT ![r].todo = @ \ {b},
                              ![r].error = @ \/ version[b] > repair[r].latest]
  /\ version' = [version EXCEPT ![b] = Max({@, repair[r].latest})]
  /\ UNCHANGED <<objects, history, known, latest, globals, missed, budget>>

FinalCommitFails(r, b) ==
  /\ repair[r].pc = "final" /\ b \in repair[r].todo
  /\ Fault("commit")
  /\ repair' = [repair EXCEPT ![r].todo = @ \ {b}, ![r].error = TRUE]
  /\ UNCHANGED <<blobs, known, latest, globals, missed>>

Finish(r) ==
  /\ repair[r].pc = "final" /\ repair[r].todo = {}
  /\ End(r, repair[r].error)
  /\ UNCHANGED <<blobs, known, latest, missed, budget>>

-----------------------------------------------------------------------------
(* The environment.                                                        *)

Crash ==
  /\ \E r \in Requests : repair[r].pc \in Running
  /\ Fault("crash")
  /\ repair' = [r \in Requests |-> IF repair[r].pc \in {"none", "ended"} THEN repair[r]
                                   ELSE [Request EXCEPT !.pc = "dead", !.latest = repair[r].latest]]
  /\ chan' = <<>> /\ inProgress' = 0 /\ mode' = FALSE /\ batchSize' = UserBatch
  /\ UNCHANGED <<blobs, known, latest, missed>>

\* Another client's batch writes or deletes a file.
Write(p) ==
  /\ Fault("write")
  /\ \E tree \in {[q \in DOMAIN history[Newest] \cup {p} |-> IF q = p THEN Newest + 1 ELSE history[Newest][q]],
                  [q \in DOMAIN history[Newest] \ {p} |-> history[Newest][q]]} :
       /\ history' = Append(history, tree)
       /\ Allowed(history')
       /\ objects' = [b \in Blobbers |-> IF version[b] = Newest THEN tree ELSE objects[b]]
  /\ version' = [b \in Blobbers |-> IF version[b] = Newest THEN Newest + 1 ELSE version[b]]
  /\ UNCHANGED <<known, latest, repair, globals, missed>>

Step(r) ==
  \/ PutRequest(r) \/ RecordRequest(r) \/ DispatchWork(r) \/ ProcessRepair(r) \/ IterateDir(r)
  \/ GetRefsWithVersion(r, {}) \/ RepairObjects(r) \/ RepairOperation(r, {}) \/ RoundDone(r)
  \/ CheckVersion(r) \/ (\E b \in Blobbers : FinalCommit(r, b)) \/ Finish(r)

Done ==
  /\ \A r \in Requests : repair[r].pc \in {"ended", "dead"} /\ repair[r].recorder \in {"none", "done"}
  /\ UNCHANGED vars

Next ==
  \/ \E r \in Requests :
       \/ StartRepair(r) \/ Step(r) \/ OperationFails(r)
       \/ \E failed \in (SUBSET DOMAIN history) \ {{}} : GetRefsWithVersion(r, failed)
       \/ \E b \in Blobbers : RepairOperation(r, {b}) \/ FinalCommitFails(r, b)
  \/ CancelRepair \/ Crash
  \/ \E p \in WritePaths : Write(p)
  \/ Done

Spec == Init /\ [][Next]_vars

\* Weak fairness of Step(r), written out with the guard of Step: the goroutines
\* run, and a step of a repair that can be taken is taken in the end.
CanStep(r) ==
  \/ repair[r].recorder = "put" /\ chan = <<>>
  \/ repair[r].recorder = "record"
  \/ chan = <<r>>
  \/ repair[r].pc \in Running
FairSpec ==
  Spec /\ \A r \in Requests : []<>~CanStep(r) \/ []<><<repair'[r] # repair[r]>>_vars

-----------------------------------------------------------------------------
(* Properties.                                                             *)

Idle == \A r \in Requests : repair[r].pc \in {"none", "ended", "dead"}

\* The repairs that got to list, and the versions they repair to.  Repairs that
\* overlap while another client writes undo each other's work; nothing in the
\* code keeps them apart.
Listed == {r \in Requests : repair[r].latest # 0}
Targets == {repair[r].latest : r \in Listed}
Undisturbed == Cardinality(Listed) <= 1 \/ Targets = {Newest}

\* A blobber with the newest version, or with the one a repair had for the latest,
\* holds the objects of that version if it committed every batch it was given: no
\* crash, cancel, failed listing or operation, no commit of another client and no
\* second repair lets a half repaired blobber take the version (iterateDir).
VersionHonest ==
  Undisturbed =>
    \A b \in Blobbers \ missed :
      version[b] \in Targets \cup {Newest} => objects[b] = history[version[b]]

\* A repair that met no fault leaves every blobber with the newest version, and
\* reports no error: no page, version or kind of object keeps it from the final
\* commit.
Repaired ==
  (Idle /\ budget = MaxFaults) =>
    \A r \in Requests : repair[r].pc = "ended" =>
      ~repair[r].error /\ \A b \in Blobbers : version[b] = Newest

\* "RepairAlloc repairs all the files in allocation" (allocation.go:2862): after a
\* repair without a fault every blobber holds the objects of the latest version.
\* The code does not keep this: see the README.
RepairsAll ==
  (Idle /\ budget = MaxFaults /\ \E r \in Requests : repair[r].pc = "ended") =>
    \A b \in Blobbers : objects[b] = history[Newest]

\* When no repair runs the client is back in the mode the user chose, however
\* repairs overlapped.
ModeRestored == Idle => ~mode

\* A repair that was started ends, unless the program dies.
RepairEnds ==
  \A r \in Requests : (repair[r].pc = "queued") ~> (repair[r].pc \in {"ended", "dead"})
=============================================================================
