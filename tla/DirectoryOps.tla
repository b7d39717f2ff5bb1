---------------------------- MODULE DirectoryOps ----------------------------
(***************************************************************************)
(* Delete, copy, move, rename and create directory                         *)
(* (zboxcore/sdk/deleteworker.go, copyworker.go, moveworker.go,            *)
(* renameworker.go, dirworker.go, common.go) in the batches of             *)
(* DoMultiOperation (allocation.go).  A directory that is not empty is     *)
(* handled by nested calls of DoMultiOperation: first its files, page by   *)
(* page of a listing that the nested batches change, then its directories, *)
(* level by level from the deepest.                                        *)
(*                                                                         *)
(* A batch is what MultiOperation promises: it is committed as a whole or  *)
(* not at all, so one tree stands for the blobbers.  The goroutines of a   *)
(* batch are run one after another, in any order.  External: the listing   *)
(* is in path order and starts after the offset; a blobber refuses to      *)
(* delete a directory with something in it, creates missing parents, and   *)
(* says "already exists" for a destination that is there.                  *)
(***************************************************************************)
EXTENDS Integers, FiniteSets, Sequences, SequencesExt, FiniteSetsExt

CONSTANTS
  Trees,         \* bound: the trees a behaviour starts with
  Calls,         \* bound: the operation lists a user may pass
  MaxCalls,      \* bound: how many calls are made
  UploadPaths,   \* bound: where another client may upload
  PageLimit,     \* getRefPageLimit
  BatchSize,     \* MultiOpBatchSize
  Faults,        \* what may go wrong; see FaultKinds
  MaxFaults      \* bound: how often

\* A listing fails on every blobber, a batch returns an error, too many blobbers
\* refuse an operation, the program dies, another client uploads a file.
FaultKinds == {"list", "batch", "refuse", "crash", "upload"}

ASSUME LimitsAssumption == PageLimit \in Nat \ {0} /\ BatchSize \in Nat \ {0}
ASSUME BoundsAssumption == Faults \subseteq FaultKinds /\ MaxFaults \in Nat /\ MaxCalls \in Nat

VARIABLES
  tree,     \* the committed objects: path -> Dir or the content of a file
  stack,    \* the nested calls: DoMultiOperation and the operations it runs
  result,   \* what the last call returned
  call,     \* the list it was given
  before,   \* the tree when it was made
  calls,    \* how many were made
  budget    \* how many faults may still happen

vars == <<tree, stack, result, call, before, calls, budget>>

-----------------------------------------------------------------------------
(* Paths.  A path is the sequence of its names, a name is a number; the     *)
(* root is the empty sequence.  The order is that of the strings.           *)

Dir == 0
Under(q, p) == IsStrictPrefix(p, q)
Parents(p) == {SubSeq(p, 1, n) : n \in 1 .. Len(p) - 1}
Before(p, q) ==
  \E k \in 1 .. Len(q) : /\ k <= Len(p) + 1
                         /\ \A i \in 1 .. k - 1 : p[i] = q[i]
                         /\ k <= Len(p) => p[k] < q[k]

IsDir(t, p) == p = <<>> \/ (p \in DOMAIN t /\ t[p] = Dir)
Exists(t, p) == p = <<>> \/ p \in DOMAIN t
IsEmpty(t, p) == ~\E q \in DOMAIN t : Under(q, p)

\* strings.Split of the path gives one part more than it has names; the blobber
\* counts the level of a path in the same way.
Level(p) == Len(p) + 1

\* GetRefs with an offset, on a blobber of the mask: a page of what is under p.
GetRefs(t, p, offset, isDir, level) ==
  LET all == {q \in DOMAIN t : /\ Under(q, p)
                               /\ (t[q] = Dir) = isDir
                               /\ level # 0 => Level(q) = level
                               /\ Before(offset, q)}
  IN  [i \in 1 .. Min({PageLimit, Cardinality(all)}) |->
         CHOOSE q \in all : Cardinality({r \in all : Before(r, q)}) = i - 1]

\* The path an object gets.  DestPath is the directory it goes to.
Target(op) == IF op.type = "Rename" THEN Append(Front(op.path), op.dest)
              ELSE Append(op.dest, Last(op.path))

\* path.Dir of the path with the directory of the request replaced.
SubDest(op, q) ==
  IF op.type = "Rename"
    THEN Append(Front(op.path), op.dest) \o SubSeq(Front(q), Len(op.path) + 1, Len(q) - 1)
    ELSE op.dest \o SubSeq(Front(q), Len(op.path), Len(q) - 1)

\* The operation on one object under the directory: a rename moves it.
SubOperation(op, q) ==
  CASE op.type = "Delete" -> [type |-> "Delete", path |-> q, dest |-> <<>>]
    [] op.type = "Copy" -> [type |-> "Copy", path |-> q, dest |-> SubDest(op, q)]
    [] op.type \in {"Move", "Rename"} -> [type |-> "Move", path |-> q, dest |-> SubDest(op, q)]

Put(t, p, v) == [q \in DOMAIN t \cup Parents(p) \cup {p} |->
                   IF q = p THEN v ELSE IF q \in DOMAIN t THEN t[q] ELSE Dir]

Without(t, p) == [q \in DOMAIN t \ {p} |-> t[q]]

\* What a committed change does to the tree (external).
Apply(t, op) ==
  CASE op.type = "Delete" -> Without(t, op.path)
    [] op.type = "CreateDir" -> Put(t, op.path, Dir)
    [] op.type = "Copy" -> Put(t, Target(op), t[op.path])
    [] op.type \in {"Move", "Rename"} -> Put(Without(t, op.path), Target(op), t[op.path])

-----------------------------------------------------------------------------
(* Frames of the call stack.                                               *)

\* DoMultiOperation: the operations that are left, those of the batch that still
\* run, the changes the others made, and whether the blobbers that made all of
\* them became fewer than the threshold.
Multi(ops) == [kind |-> "multi", ops |-> ops, batch |-> {}, changes |-> <<>>,
               dropped |-> FALSE, phase |-> "connect"]

\* Process of an operation on a directory that is not empty.
SubDirectories(op) ==
  [kind |-> "op", op |-> op, phase |-> "files", offset |-> <<>>, pathLevel |-> 0]

Top == Last(stack)
Below == Front(stack)
At(kind, phase) == stack # <<>> /\ Top.kind = kind /\ Top.phase = phase

Goto(frame) == stack' = Append(Below, frame)
Push(frame, callee) == stack' = Below \o <<frame, callee>>

\* An error of a nested call is the error of every call around it.
Fail == stack' = <<>> /\ result' = "error"

\* The operation on top of the stack returns to its batch.
OpReturns(err) ==
  LET m == Last(Below)
  IN  stack' = Append(Front(Below), [m EXCEPT
                 !.batch = @ \ {Top.op},
                 !.changes = IF err = "nil" THEN Append(@, Top.op) ELSE @])

Init ==
  /\ tree \in Trees
  /\ stack = <<>> /\ result = "none" /\ call = <<>> /\ before = tree
  /\ calls = 0 /\ budget = MaxFaults

Fault(kind) ==
  /\ kind \in Faults
  /\ budget > 0
  /\ budget' = budget - 1

-----------------------------------------------------------------------------
(* DoMultiOperation.                                                       *)

\* The user's call, with an operation list.
DoMultiOperation(ops) ==
  /\ stack = <<>>
  /\ calls < MaxCalls
  /\ calls' = calls + 1
  /\ stack' = <<Multi(ops)>>
  /\ result' = "none" /\ call' = ops /\ before' = tree
  /\ UNCHANGED <<tree, budget>>

\* Verify refuses to rename the root.
Invalid(op) == op.type = "Rename" /\ op.path = <<>>

\* The first lines of Process: no copy of the root, no rename to the same name.
Rejected(op) ==
  \/ op.type = "Copy" /\ op.path = <<>>
  \/ op.type = "Rename" /\ Last(op.path) = op.dest

\* GenerateParentPaths, which has the path itself too.
GenerateParentPaths(p) == Parents(p) \cup {p}

\* A variant without the check for conflicting paths.
NoConflictCheck(ops) == Min({BatchSize, Len(ops)})

\* A variant that records the paths of an operation before it looks for a conflict.
RecordedFirst(ops) ==
  Max({n \in 0 .. Min({BatchSize, Len(ops)}) :
         \A i, j \in 1 .. n : i <= j => ops[j].path \notin GenerateParentPaths(ops[i].path)})

\* How many operations make the next batch: up to one whose path is a path, or
\* the parent of a path, of an earlier one.
NextBatch(ops) ==
  Max({n \in 0 .. Min({BatchSize, Len(ops)}) :
         \A i, j \in 1 .. n : i < j => ops[j].path \notin GenerateParentPaths(ops[i].path)})

\* Connections are made and the next batch is put together; DoMultiOperation
\* returns when no operation is left.
Connect ==
  /\ At("multi", "connect")
  /\ LET n == NextBatch(Top.ops)
         ops == SubSeq(Top.ops, 1, n)
     IN  \/ /\ Top.ops = <<>>
            /\ stack' = Below
            /\ result' = IF Below = <<>> THEN "nil" ELSE result
         \/ /\ \E i \in 1 .. n : Invalid(ops[i])
            /\ Fail
         \/ /\ Top.ops # <<>> /\ ~\E i \in 1 .. n : Invalid(ops[i])
            /\ Goto([Top EXCEPT !.ops = SubSeq(@, n + 1, Len(@)), !.batch = ToSet(ops),
                                !.changes = <<>>, !.dropped = FALSE, !.phase = "process"])
            /\ UNCHANGED result
  /\ UNCHANGED <<tree, call, before, calls, budget>>

\* A path that would have a file for a parent.
Blocked(t, p) == \E q \in Parents(p) : q \in DOMAIN t /\ t[q] # Dir

\* What the blobbers answer to an operation on a file or an empty directory.
DeleteBlobberFile(t, op) ==
  IF ~Exists(t, op.path) THEN "errFileDeleted" ELSE "nil"

CreateDirInBlobber(t, op) ==
  IF Exists(t, op.path) THEN "same" ELSE IF Blocked(t, op.path) THEN "refused" ELSE "nil"

\* A destination that exists is refused, which does not matter for a directory.
CopyBlobberObject(t, op) ==
  IF ~Exists(t, op.path) \/ Blocked(t, Target(op)) THEN "refused"
  ELSE IF ~Exists(t, Target(op)) THEN "nil"
  ELSE IF IsDir(t, op.path) THEN "errNoChange" ELSE "refused"

\* A destination that exists counts as done, and nothing changes.
MoveBlobberObject(t, op) ==
  IF ~Exists(t, op.path) \/ Blocked(t, Target(op)) THEN "refused"
  ELSE IF Exists(t, Target(op)) THEN "same" ELSE "nil"

RenameBlobberObject(t, op) ==
  IF ~Exists(t, op.path) THEN "refused"
  ELSE IF Exists(t, Target(op)) THEN "same" ELSE "nil"

Outcome(t, op) ==
  CASE op.type = "Delete" -> DeleteBlobberFile(t, op)
    [] op.type = "CreateDir" -> CreateDirInBlobber(t, op)
    [] op.type = "Copy" -> CopyBlobberObject(t, op)
    [] op.type = "Move" -> MoveBlobberObject(t, op)
    [] op.type = "Rename" -> RenameBlobberObject(t, op)

\* Blobbers refuse a request.  A delete or a new directory counts every blobber
\* it asked, so all that is left of it is a mask below the threshold; the others
\* return the error of a blobber even if the rest agreed.
Refused(frame, op) ==
  \/ /\ op.type \in {"Delete", "CreateDir"}
     /\ Goto([frame EXCEPT !.batch = @ \ {op}, !.dropped = TRUE])
     /\ UNCHANGED result
  \/ /\ op.type \notin {"Delete", "CreateDir"}
     /\ Fail

\* Process of an operation of the batch.
ProcessOperation(op) ==
  /\ op \in Top.batch
  /\ \/ Rejected(op) /\ Fail
     \/ /\ ~Rejected(op) /\ op.type # "CreateDir" /\ IsDir(tree, op.path) /\ ~IsEmpty(tree, op.path)
        /\ Push(Top, SubDirectories(op))
        /\ UNCHANGED result
     \/ /\ ~Rejected(op)
        /\ op.type = "CreateDir" \/ ~IsDir(tree, op.path) \/ IsEmpty(tree, op.path)
        /\ \/ Outcome(tree, op) = "refused" /\ Refused(Top, op)
           \/ /\ Outcome(tree, op) # "refused"
              /\ Goto([Top EXCEPT !.batch = @ \ {op},
                                  !.changes = IF Outcome(tree, op) = "nil" THEN Append(@, op) ELSE @])
              /\ UNCHANGED result
  /\ UNCHANGED <<tree, call, before, calls, budget>>

RefuseOperation(op) ==
  /\ op \in Top.batch
  /\ Exists(tree, op.path) => IsEmpty(tree, op.path)
  /\ Fault("refuse")
  /\ Refused(Top, op)
  /\ UNCHANGED <<tree, call, before, calls>>

\* External: the blobbers make the changes one after another, and fail the commit
\* when one of them no longer applies.  A delete of the root sent no request for the
\* root itself, so there is nothing to fail.
Stale(t, op) ==
  /\ op.path # <<>>
  /\ Outcome(t, op) # "nil" \/ (op.type # "CreateDir" /\ ~IsEmpty(t, op.path))

After(changes, n) == FoldLeft(Apply, tree, SubSeq(changes, 1, n))
Applicable(changes) ==
  \A n \in DOMAIN changes : ~Stale(After(changes, n - 1), changes[n])

\* The batch is committed; nothing is, and nil returned, when the mask fell below
\* the threshold.
CommitBatch ==
  /\ At("multi", "process")
  /\ Top.batch = {}
  /\ \/ /\ ~Top.dropped /\ ~Applicable(Top.changes)
        /\ Fail
        /\ UNCHANGED tree
     \/ /\ Top.dropped \/ Applicable(Top.changes)
        /\ tree' = IF Top.dropped THEN tree ELSE After(Top.changes, Len(Top.changes))
        /\ Goto([Top EXCEPT !.phase = "connect"])
        /\ UNCHANGED result
  /\ UNCHANGED <<call, before, calls, budget>>

\* The connections, the lock, the status check or the commit fail.
BatchFails ==
  /\ At("multi", "process")
  /\ Top.batch = {}
  /\ Fault("batch")
  /\ Fail
  /\ UNCHANGED <<tree, call, before, calls>>

-----------------------------------------------------------------------------
(* A directory: deleteSubDirectories, copySubDirectoriees,                 *)
(* processSubDirectories.                                                  *)

SubOperations(op, page) == [i \in DOMAIN page |-> SubOperation(op, page[i])]

\* The levels of directories start at the level of the deepest file.
StartLevel(op, fileLevel) == IF fileLevel = 0 THEN Level(op.path) + 1 ELSE fileLevel

\* A variant that takes a full page for the last one.
StopAtFullPage ==
  /\ At("op", "files")
  /\ LET page == GetRefs(tree, Top.op.path, Top.offset, FALSE, 0)
     IN  Push([Top EXCEPT !.phase = "dirs", !.offset = <<>>,
                          !.pathLevel = StartLevel(Top.op, Max({0} \cup {Level(q) : q \in ToSet(page)}))],
              Multi(SubOperations(Top.op, page)))
  /\ UNCHANGED <<tree, result, call, before, calls, budget>>

\* A page of files, and the batch that works on it.
ListFiles ==
  /\ At("op", "files")
  /\ LET page == GetRefs(tree, Top.op.path, Top.offset, FALSE, 0)
         level == Max({Top.pathLevel} \cup {Level(q) : q \in ToSet(page)})
         next == IF Len(page) < PageLimit
                   THEN [Top EXCEPT !.phase = "dirs", !.offset = <<>>,
                                    !.pathLevel = StartLevel(Top.op, level)]
                   ELSE [Top EXCEPT !.offset = Last(page), !.pathLevel = level]
     IN  IF page = <<>> THEN Goto(next) ELSE Push(next, Multi(SubOperations(Top.op, page)))
  /\ UNCHANGED <<tree, result, call, before, calls, budget>>

\* A page of the directories of one level.  The offset stays as it is when the
\* level changes.
ListDirs ==
  /\ At("op", "dirs")
  /\ LET page == GetRefs(tree, Top.op.path, Top.offset, TRUE, Top.pathLevel)
         level == IF Len(page) < PageLimit THEN Top.pathLevel - 1 ELSE Top.pathLevel
     IN  IF Top.pathLevel <= Level(Top.op.path) THEN Goto([Top EXCEPT !.phase = "last"])
         ELSE IF page = <<>> THEN Goto([Top EXCEPT !.pathLevel = level])
         ELSE Push([Top EXCEPT !.offset = Last(page), !.pathLevel = level],
                   Multi(SubOperations(Top.op, page)))
  /\ UNCHANGED <<tree, result, call, before, calls, budget>>

ListFails ==
  /\ At("op", "files") \/ At("op", "dirs")
  /\ Fault("list")
  /\ Fail
  /\ UNCHANGED <<tree, call, before, calls>>

\* The directory itself.  A delete sends its request, which the blobbers refuse
\* when something is left, except for the root, for which none is sent; a move or a
\* rename deletes what is left; a copy is done.
LastStep ==
  /\ At("op", "last")
  /\ LET op == Top.op
     IN  \/ /\ op.type = "Delete" /\ op.path # <<>> /\ ~IsEmpty(tree, op.path)
            /\ stack' = Append(Front(Below), [Last(Below) EXCEPT !.batch = @ \ {op},
                                                               !.dropped = TRUE])
         \/ /\ op.type = "Delete" /\ (op.path = <<>> \/ IsEmpty(tree, op.path))
            /\ OpReturns("nil")
         \/ /\ op.type \in {"Move", "Rename"}
            /\ Push([Top EXCEPT !.phase = "return"],
                    Multi(<<[type |-> "Delete", path |-> op.path, dest |-> <<>>]>>))
         \/ /\ op.type = "Copy"
            /\ OpReturns("errNoChange")
  /\ UNCHANGED <<tree, result, call, before, calls, budget>>

Return ==
  /\ At("op", "return")
  /\ OpReturns("errNoChange")
  /\ UNCHANGED <<tree, result, call, before, calls, budget>>

-----------------------------------------------------------------------------
(* The environment.                                                        *)

Crash ==
  /\ stack # <<>>
  /\ Fault("crash")
  /\ stack' = <<>> /\ result' = "dead"
  /\ UNCHANGED <<tree, call, before, calls>>

\* Another client's batch adds a file.
Upload(p) ==
  /\ stack # <<>>
  /\ p \notin DOMAIN tree
  /\ \A q \in Parents(p) : q \in DOMAIN tree => tree[q] = Dir
  /\ Fault("upload")
  /\ tree' = Put(tree, p, 1 + Max({0} \cup {tree[q] : q \in DOMAIN tree}))
  /\ UNCHANGED <<stack, result, call, before, calls>>

Done == stack = <<>> /\ calls = MaxCalls /\ UNCHANGED vars

Step ==
  \/ Connect \/ CommitBatch \/ ListFiles \/ ListDirs \/ LastStep \/ Return
  \/ (At("multi", "process") /\ \E op \in Top.batch : ProcessOperation(op))

Next ==
  \/ \E ops \in Calls : DoMultiOperation(ops)
  \/ Step
  \/ At("multi", "process") /\ \E op \in Top.batch : RefuseOperation(op)
  \/ BatchFails \/ ListFails \/ Crash
  \/ \E p \in UploadPaths : Upload(p)
  \/ Done

Spec == Init /\ [][Next]_vars
FairSpec == Spec /\ WF_vars(Step)

-----------------------------------------------------------------------------
(* Properties.                                                             *)

Files(t) == {p \in DOMAIN t : t[p] # Dir}
FilesAt(t, p) == {q \in Files(t) : q = p \/ Under(q, p)}

\* What an operation does to the files of a tree, said without pages, levels or
\* batches: the files f, as a function, after op.
Image(op, q) == Target(op) \o SubSeq(q, Len(op.path) + 1, Len(q))
Effect(f, op) ==
  LET moved == {q \in DOMAIN f : q = op.path \/ Under(q, op.path)}
      kept == IF op.type \in {"Copy", "CreateDir"} THEN DOMAIN f ELSE DOMAIN f \ moved
      added == IF op.type \in {"Delete", "CreateDir"} THEN {} ELSE {Image(op, q) : q \in moved}
      from(p) == CHOOSE q \in moved : Image(op, q) = p
  IN  [p \in kept \cup added |-> IF p \in added THEN f[from(p)] ELSE f[p]]

\* A destination that holds something else: outside the promises below, see
\* the README.
Clash == \E i \in DOMAIN call :
           /\ call[i].type \in {"Copy", "Move", "Rename"}
           /\ \E q \in FilesAt(before, call[i].path) :
                /\ Image(call[i], q) \in DOMAIN before
                /\ before[Image(call[i], q)] # before[q]

\* Where an operation reads or writes.
Places(op) ==
  {op.path} \cup (IF op.type \in {"Copy", "Move", "Rename"} THEN {Target(op)} ELSE {})

\* Two operations that may share a batch meet in a path, and NextBatch does not see
\* it: it compares the paths of the operations and not where they lead, and a later
\* path with the parents of an earlier one and not the other way round.
Unseen == \E i, j \in DOMAIN call :
            /\ i < j /\ j - i < BatchSize
            /\ call[j].path \notin GenerateParentPaths(call[i].path)
            /\ \E p \in Places(call[i]), q \in Places(call[j]) :
                 p = q \/ Under(p, q) \/ Under(q, p)

\* A call that returns nil and met no fault left the files as if its operations
\* had been carried out one after another, each on the whole directory at once:
\* no page of a listing and no level was missed, and the batches are cut where
\* operations meet that NextBatch compares.  Calls with a pair it does not see
\* (Unseen) are left out: their operations run at once, in any order.
AsIfInOrder ==
  (stack = <<>> /\ result = "nil" /\ budget = MaxFaults /\ ~Clash /\ ~Unseen) =>
    LET f == [p \in Files(before) |-> before[p]]
    IN  [p \in Files(tree) |-> tree[p]] = FoldLeft(Effect, f, call)

\* No file is lost by a copy, a move or a rename, whatever fails and wherever the
\* program dies: what was there when the call was made is there, unless the call
\* deletes it.
NothingLost ==
  ~Clash =>
    \A p \in Files(before) :
      \/ \E i \in DOMAIN call : /\ call[i].type = "Delete"
                               /\ (p = call[i].path \/ Under(p, call[i].path))
      \/ \E q \in Files(tree) : tree[q] = before[p]

\* Every call returns: the pages and levels come to an end although the batches
\* change the tree that is listed.
CallReturns == (stack # <<>>) ~> (stack = <<>>)
=============================================================================
