-------------------------------- MODULE Sync --------------------------------
(***************************************************************************)
(* Synchronisation of a local directory with the allocation                *)
(* (zboxcore/sdk/sync.go): GetAllocationDiff compares the remote tree, the *)
(* local one and the snapshot of the remote tree that the last round left  *)
(* on disk; SaveRemoteSnapshot writes the next one.                        *)
(*                                                                         *)
(* The remote tree is the one of DirectoryOps, and a remote deletion is a  *)
(* call of its DoMultiOperation.  External: the application, which carries *)
(* out the differences in their order and saves the snapshot when all of   *)
(* them succeeded.  Content stands for hashes; the diff is for the root of *)
(* the allocation.                                                         *)
(***************************************************************************)
EXTENDS DirectoryOps, TLC

CONSTANTS
  Replicas,   \* bound: the local tree and the snapshot a behaviour starts with
  Excluded,   \* remoteExcludePath
  Filters     \* localFileFilters, names

VARIABLES
  local,      \* the local tree: path -> Dir or content
  prev,       \* the snapshot on disk; no file is an empty one
  sync,       \* where the round is
  diff,       \* the differences that are left
  round,      \* what the round started from, for the properties
  conflicts   \* the conflicts it reported

syncVars == <<local, prev, sync, diff, round, conflicts>>
allVars == <<vars, syncVars>>

NoRound == [budget |-> -1]

SyncInit ==
  /\ Init
  /\ \E r \in Replicas : r.tree = tree /\ local = r.local /\ prev = r.prev
  /\ sync = "idle" /\ diff = <<>> /\ round = NoRound /\ conflicts = {}

-----------------------------------------------------------------------------
(* Listings.                                                               *)

IsHidden(p, excluded) == \E e \in excluded : p = e \/ Under(p, e)

\* GetRemoteFileMap: what is not excluded, with all that is below.
GetRemoteFileMap == Restrict(tree, {p \in DOMAIN tree : ~IsHidden(p, Excluded)})

\* getLocalFileMap.  A filtered name is left out before the exclusion is looked
\* at, so that what is below it stays.
GetLocalFileMap ==
  Restrict(local, {p \in DOMAIN local :
                     /\ Last(p) \notin Filters
                     /\ ~IsHidden(p, {e \in Excluded : Last(e) \notin Filters})})

-----------------------------------------------------------------------------
(* findDelta, for the maps r, l and p.                                     *)

RemoteModified(r, p) == {x \in DOMAIN r \cap DOMAIN p : p[x] # r[x]}

\* A variant that compares the local files with the snapshot.
LocalSinceSnapshot(r, l, p) == {x \in DOMAIN l \cap DOMAIN p : p[x] # l[x]}

\* The local files that differ from the remote ones.
LocalModified(r, l, p) == {x \in DOMAIN l \cap DOMAIN r : r[x] # l[x]}

\* A variant that does not look for conflicts.
NoConflict(r, l, p) ==
  [x \in DOMAIN r |->
     CASE x \in LocalModified(r, l, p) -> "Update"
       [] x \notin LocalModified(r, l, p) /\ x \in DOMAIN l -> "none"
       [] x \notin DOMAIN l /\ x \in DOMAIN p -> "Delete"
       [] x \notin DOMAIN l /\ x \notin DOMAIN p -> "Download"]

RemoteOps(r, l, p) ==
  LET lMod == LocalModified(r, l, p)
      rMod == RemoteModified(r, p)
  IN  [x \in DOMAIN r |->
         CASE x \in rMod \cap lMod -> "Conflict"
           [] x \in lMod \ rMod -> "Update"
           [] x \notin lMod /\ x \in DOMAIN l -> "none"
           [] x \notin lMod \cup DOMAIN l /\ x \in DOMAIN p -> "Delete"
           [] x \notin lMod \cup DOMAIN l \cup DOMAIN p -> "Download"]

LocalOps(r, l, p) ==
  [x \in DOMAIN l \ DOMAIN r |->
     CASE x \in DOMAIN p -> "LocalDelete"
       [] x \notin DOMAIN p /\ l[x] = Dir -> "none"
       [] x \notin DOMAIN p /\ l[x] # Dir -> "Upload"]

\* The differences in the order of the paths.  A deletion below another difference
\* is dropped, and so is everything else about a directory.  (rDelMap drops some of
\* these deletions earlier, depending on the order of the map.)
FindDelta(r, l, p) ==
  LET ops == RemoteOps(r, l, p) @@ LocalOps(r, l, p)
      type == r @@ l
      paths == {x \in DOMAIN ops : ops[x] # "none"}
      sorted == [i \in 1 .. Cardinality(paths) |->
                   CHOOSE x \in paths : Cardinality({y \in paths : Before(y, x)}) = i - 1]
      keep(acc, x) ==
        IF \/ ops[x] \in {"Delete", "LocalDelete"}
              /\ ~\E i \in DOMAIN acc : x = acc[i].path \/ Under(x, acc[i].path)
           \/ ops[x] \notin {"Delete", "LocalDelete"} /\ type[x] # Dir
        THEN Append(acc, [op |-> ops[x], path |-> x]) ELSE acc
  IN  FoldLeft(keep, <<>>, sorted)

-----------------------------------------------------------------------------
(* A round.                                                                *)

GetAllocationDiff ==
  /\ sync \in {"idle", "synced", "failed"} /\ stack = <<>>
  /\ calls < MaxCalls
  /\ calls' = calls + 1
  /\ diff' = FindDelta(GetRemoteFileMap, GetLocalFileMap, prev)
  /\ round' = [tree |-> tree, local |-> local, prev |-> prev, budget |-> budget]
  /\ sync' = "apply" /\ conflicts' = {}
  /\ result' = "none" /\ call' = <<>> /\ before' = tree
  /\ UNCHANGED <<tree, stack, budget, local, prev>>

\* The round ends without a snapshot.
GiveUp == sync' = "failed" /\ diff' = <<>>

\* The remote side of an upload: a batch, like that of another client.
Store(p, content) ==
  /\ tree' = Put(tree, p, content)
  /\ before' = tree'

Difference(op) == sync = "apply" /\ diff # <<>> /\ Head(diff).op = op
Path == Head(diff).path

\* Upload and Update.
PutRemote ==
  /\ Difference("Upload") \/ Difference("Update")
  /\ \/ /\ Path \notin DOMAIN local \/ Blocked(tree, Path) \/ IsDir(tree, Path)
        /\ GiveUp
        /\ UNCHANGED <<tree, before>>
     \/ /\ Path \in DOMAIN local /\ ~Blocked(tree, Path) /\ ~IsDir(tree, Path)
        /\ Store(Path, local[Path])
        /\ diff' = Tail(diff)
        /\ UNCHANGED sync
  /\ UNCHANGED <<stack, result, call, calls, budget, local, prev, round, conflicts>>

Download ==
  /\ Difference("Download")
  /\ \/ /\ Path \notin DOMAIN tree \/ \E q \in Parents(Path) : q \in DOMAIN local /\ local[q] # Dir
        /\ GiveUp
        /\ UNCHANGED local
     \/ /\ Path \in DOMAIN tree /\ \A q \in Parents(Path) : q \in DOMAIN local => local[q] = Dir
        /\ local' = Put(local, Path, tree[Path])
        /\ diff' = Tail(diff)
        /\ UNCHANGED sync
  /\ UNCHANGED <<vars, prev, round, conflicts>>

LocalDelete ==
  /\ Difference("LocalDelete")
  /\ local' = Restrict(local, {p \in DOMAIN local : p # Path /\ ~Under(p, Path)})
  /\ diff' = Tail(diff)
  /\ UNCHANGED <<vars, prev, sync, round, conflicts>>

Conflict ==
  /\ Difference("Conflict")
  /\ conflicts' = conflicts \cup {Path}
  /\ diff' = Tail(diff)
  /\ UNCHANGED <<vars, local, prev, sync, round>>

\* Delete: DoMultiOperation is called, and returns.
CallDelete ==
  /\ Difference("Delete")
  /\ LET op == [type |-> "Delete", path |-> Path, dest |-> <<>>]
     IN  stack' = <<Multi(<<op>>)>> /\ call' = <<op>>
  /\ result' = "none" /\ before' = tree
  /\ sync' = "delete" /\ diff' = Tail(diff)
  /\ UNCHANGED <<tree, calls, budget, local, prev, round, conflicts>>

DeleteReturns ==
  /\ sync = "delete" /\ stack = <<>>
  /\ \/ result = "nil" /\ sync' = "apply" /\ UNCHANGED diff
     \/ result # "nil" /\ GiveUp
  /\ UNCHANGED <<vars, local, prev, round, conflicts>>

\* An operation of the application, or the listing for the snapshot, fails, or the
\* program dies.
RoundFails ==
  /\ sync \in {"apply", "save", "write"}
  /\ Fault(IF sync = "save" THEN "list" ELSE IF sync = "apply" THEN "batch" ELSE "crash")
  /\ GiveUp
  /\ UNCHANGED <<tree, stack, result, call, before, calls, local, prev, round, conflicts>>

Applied ==
  /\ sync = "apply" /\ diff = <<>>
  /\ sync' = "save"
  /\ UNCHANGED <<vars, local, prev, diff, round, conflicts>>

\* SaveRemoteSnapshot: the old file is removed before the new one is written.
RemoveSnapshot ==
  /\ sync = "save"
  /\ prev' = <<>>
  /\ sync' = "write"
  /\ UNCHANGED <<vars, local, diff, round, conflicts>>

WriteSnapshot ==
  /\ sync = "write"
  /\ prev' = GetRemoteFileMap
  /\ sync' = "synced"
  /\ UNCHANGED <<vars, local, diff, round, conflicts>>

\* A call of the user, between rounds.
UserCall(ops) ==
  /\ sync \in {"idle", "synced", "failed"}
  /\ DoMultiOperation(ops)
  /\ sync' = "idle" /\ round' = NoRound /\ conflicts' = {}
  /\ UNCHANGED <<local, prev, diff>>

-----------------------------------------------------------------------------
RoundStep ==
  \/ PutRemote \/ Download \/ LocalDelete \/ Conflict \/ CallDelete \/ DeleteReturns
  \/ Applied \/ RemoveSnapshot \/ WriteSnapshot

CallStep ==
  /\ \/ Step
     \/ At("multi", "process") /\ \E op \in Top.batch : RefuseOperation(op)
     \/ BatchFails \/ ListFails \/ Crash
     \/ \E p \in UploadPaths : Upload(p)
  /\ UNCHANGED syncVars

SyncDone == sync \in {"idle", "synced", "failed"} /\ Done /\ UNCHANGED syncVars

SyncNext ==
  \/ \E ops \in Calls : UserCall(ops)
  \/ GetAllocationDiff
  \/ RoundStep \/ RoundFails
  \/ CallStep
  \/ SyncDone

SyncSpec == SyncInit /\ [][SyncNext]_allVars

\* The calls and the application go on.
SyncFairSpec == SyncSpec /\ WF_allVars(Step /\ UNCHANGED syncVars) /\ WF_allVars(RoundStep)

-----------------------------------------------------------------------------
(* Properties.                                                             *)

\* What both listings show.
InView(p) == ~IsHidden(p, Excluded) /\ Last(p) \notin Filters

\* A path that is a file on one side and a directory on the other.
TypesDiffer(p) == p \in DOMAIN local /\ p \in DOMAIN tree /\ IsDir(local, p) # IsDir(tree, p)

\* After a round in which nothing went wrong each file is the same on both sides or
\* was reported as a conflict, whatever earlier rounds that failed or died had left.
\* (A path that is a file on one side and a directory on the other is left alone, with all
\* that is below it.)
SyncAgree ==
  (sync = "synced" /\ budget = round.budget) =>
    \A p \in {q \in Files(local) \cup Files(tree) : InView(q)} \ conflicts :
      \/ p \in DOMAIN local /\ p \in DOMAIN tree /\ local[p] = tree[p]
      \/ \E q \in Parents(p) \cup {p} : TypesDiffer(q)

\* The files that are new in one tree since the snapshot, while the other tree has
\* their paths as the snapshot has them.
New(this, other) ==
  {p \in Files(this) :
     /\ InView(p)
     /\ p \in DOMAIN round.prev => p \in DOMAIN other /\ this[p] # round.prev[p]
     /\ p \in DOMAIN other => p \in DOMAIN round.prev /\ other[p] = round.prev[p]
     /\ \A q \in Parents(p) : q \in DOMAIN round.prev => q \in DOMAIN other}

\* No round, finished, failed or under way, loses a file that one side alone made
\* or changed.
NewKept ==
  round # NoRound =>
    /\ \A p \in New(round.tree, round.local) : p \in DOMAIN tree /\ tree[p] = round.tree[p]
    /\ \A p \in New(round.local, round.tree) : p \in DOMAIN local /\ local[p] = round.local[p]
=============================================================================
