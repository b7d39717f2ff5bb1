---------------------------- MODULE RepairProofs ----------------------------
(***************************************************************************)
(* Proofs about Repair, for every number of blobbers, requests and faults. *)
(***************************************************************************)
EXTENDS Repair, FiniteSetTheorems, SequenceTheorems, WellFoundedInduction, TLAPS

\* The fields of a request, and where it has set the mode and the batch size.
Fields == {"recorder", "pc", "canceled", "setMode", "size", "latest", "masks", "kind",
           "res", "ops", "todo", "error"}
Active == {"list", "merge", "batches", "check", "final"}
Recorders == {"none", "put", "record", "done"}

\* The control state of the requests.
RecordInv ==
  /\ DOMAIN repair = Requests
  /\ \A r \in Requests :
       /\ DOMAIN repair[r] = Fields
       /\ repair[r].pc \in Pcs /\ repair[r].recorder \in Recorders
       /\ repair[r].setMode \in BOOLEAN

\* A request is in the channel once: its goroutine puts it there while it is
\* queued, and it stays queued until it is taken out.
QueueInv ==
  /\ chan = <<>> \/ \E r \in Requests : chan = <<r>>
  /\ \A r \in Requests : repair[r].recorder = "put" => repair[r].pc = "queued" /\ chan # <<r>>
  /\ \A r \in Requests : chan = <<r>> => repair[r].pc = "queued"

\* The client is in single client mode only for a running repair that switched to
\* it: of repairs that overlap, the one that found the mode off.
ModeInv ==
  /\ mode \in BOOLEAN
  /\ mode => \E r \in Requests : repair[r].pc \in Active /\ repair[r].setMode

\* A running repair has saved one of the two batch sizes.
SizeInv ==
  /\ batchSize \in {UserBatch, RepairBatch}
  /\ \A r \in Requests : repair[r].pc \in Active => repair[r].size \in {UserBatch, RepairBatch}

\* The versions held, known and repaired to are committed ones.
VersionInv ==
  /\ Len(history) \in Nat /\ history = [v \in 1 .. Len(history) |-> history[v]]
  /\ version \in [Blobbers -> 1 .. Len(history)]
  /\ known \in [Blobbers -> 1 .. Len(history)]
  /\ latest \in 1 .. Len(history)
  /\ \A r \in Requests : repair[r].pc \in Active => repair[r].latest \in 1 .. Len(history)

\* The listings are of versions with a mask, and the masks are disjoint.
MaskInv ==
  \A r \in Requests :
    /\ \A v, w \in DOMAIN repair[r].masks :
         v # w => repair[r].masks[v] \cap repair[r].masks[w] = {}
    /\ DOMAIN repair[r].res \subseteq DOMAIN repair[r].masks
    /\ repair[r].pc \in {"none", "queued", "dispatched", "mode"} => DOMAIN repair[r].res = {}

\* The request in progress, the blobbers left out and the budget of faults.
BoundInv ==
  /\ inProgress \in {0} \cup Requests
  /\ missed \subseteq Blobbers /\ budget \in 0 .. MaxFaults

IndInv ==
  RecordInv /\ QueueInv /\ ModeInv /\ SizeInv /\ VersionInv /\ MaskInv /\ BoundInv

-----------------------------------------------------------------------------
(* What a step does to the requests.                                       *)

\* One request changes.
Others(r) ==
  /\ DOMAIN repair' = Requests /\ DOMAIN repair'[r] = Fields
  /\ \A q \in Requests \ {r} : repair'[q] = repair[q]
  /\ repair'[r].recorder = repair[r].recorder /\ repair'[r].setMode = repair[r].setMode

\* A running repair goes on: it lists versions with a mask, and drops masks only.
Continues(r) ==
  /\ Others(r) /\ UNCHANGED <<chan, inProgress, mode, batchSize>>
  /\ repair[r].pc \in Active /\ repair'[r].pc \in Active
  /\ repair'[r].size = repair[r].size /\ repair'[r].latest = repair[r].latest
  /\ DOMAIN repair'[r].masks \subseteq DOMAIN repair[r].masks
  /\ \A v \in DOMAIN repair'[r].masks : repair'[r].masks[v] = repair[r].masks[v]
  /\ DOMAIN repair'[r].res \subseteq DOMAIN repair'[r].masks

\* A repair that has set the mode and the batch size ends.
Ends(r) ==
  /\ Others(r) /\ UNCHANGED chan
  /\ repair[r].pc \in Active /\ repair'[r].pc = "ended"
  /\ repair'[r].res = <<>> /\ repair'[r].masks = repair[r].masks
  /\ batchSize' = repair[r].size /\ mode' = (mode /\ ~repair[r].setMode) /\ inProgress' = 0

\* A repair that ends gives back the mode and the batch size.
LEMMA EndEffect ==
  ASSUME RecordInv, NEW r \in Requests, NEW e, End(r, e), repair[r].pc \in Active
  PROVE  Ends(r)
<1> DEFINE q == [repair[r] EXCEPT !.pc = "ended", !.error = e, !.res = <<>>, !.ops = <<>>]
<1>1. repair' = [repair EXCEPT ![r] = q]
  BY DEF End
<1>2. /\ DOMAIN q = Fields /\ q.pc = "ended" /\ q.res = <<>> /\ q.recorder = repair[r].recorder
      /\ q.setMode = repair[r].setMode /\ q.masks = repair[r].masks
  BY DEF RecordInv, Fields
<1>3. DOMAIN repair = Requests
  BY DEF RecordInv
<1> HIDE DEF q
<1>4. Others(r) /\ repair'[r] = q
  BY <1>1, <1>2, <1>3 DEF Others
<1> QED
  BY <1>2, <1>4 DEF Ends, End

\* Fetching a page goes on or ends the repair.
LEMMA ListEffect ==
  ASSUME RecordInv, NEW r \in Requests, NEW f, GetRefsWithVersion(r, f)
  PROVE  Continues(r) \/ Ends(r)
<1>1. repair[r].pc \in Active
  BY DEF GetRefsWithVersion, Active
<1>2. CASE End(r, TRUE)
  BY <1>1, <1>2, EndEffect
<1>3. CASE ~End(r, TRUE)
  <2>1. PICK left, res :
          /\ left \subseteq DOMAIN repair[r].masks /\ DOMAIN res = left
          /\ repair' = [repair EXCEPT ![r].pc = "merge", ![r].res = res,
                                      ![r].masks = [v \in left |-> repair[r].masks[v]]]
          /\ UNCHANGED globals
    <3> DEFINE vs == DOMAIN repair[r].masks
               first == repair[r].res = <<>>
               left == IF first THEN vs \ f ELSE vs
    <3>1. PICK from \in [vs -> Blobbers] :
            LET page(v) == GetRefs(from[v], Kinds[repair[r].kind], IF first THEN 0 ELSE repair[r].res[v].offset)
                res == [v \in left |-> CASE first -> FirstPage(page(v))
                                         [] ~first /\ v \in f -> repair[r].res[v]
                                         [] ~first /\ v \notin f -> LaterPage(repair[r].res[v], page(v))]
            IN  /\ repair' = [repair EXCEPT ![r].pc = "merge", ![r].res = res,
                                            ![r].masks = [v \in left |-> repair[r].masks[v]]]
                /\ UNCHANGED globals
      BY <1>3, Zenon DEF GetRefsWithVersion
    <3> DEFINE page(v) == GetRefs(from[v], Kinds[repair[r].kind], IF first THEN 0 ELSE repair[r].res[v].offset)
               res == [v \in left |-> CASE first -> FirstPage(page(v))
                                         [] ~first /\ v \in f -> repair[r].res[v]
                                         [] ~first /\ v \notin f -> LaterPage(repair[r].res[v], page(v))]
    <3>2. left \subseteq vs /\ DOMAIN res = left
      OBVIOUS
    <3>3. /\ repair' = [repair EXCEPT ![r].pc = "merge", ![r].res = res,
                                      ![r].masks = [v \in left |-> repair[r].masks[v]]]
          /\ UNCHANGED globals
      BY <3>1, Zenon
    <3> HIDE DEF left, res
    <3> QED
      BY <3>2, <3>3, Zenon
  <2> DEFINE q == [repair[r] EXCEPT !.pc = "merge", !.res = res,
                                    !.masks = [v \in left |-> repair[r].masks[v]]]
  <2>2. repair' = [repair EXCEPT ![r] = q]
    BY <2>1
  <2>3. /\ DOMAIN q = Fields /\ q.pc = "merge" /\ q.res = res /\ q.recorder = repair[r].recorder
        /\ q.setMode = repair[r].setMode /\ q.masks = [v \in left |-> repair[r].masks[v]]
        /\ q.size = repair[r].size /\ q.latest = repair[r].latest
    BY DEF RecordInv, Fields
  <2>4. DOMAIN repair = Requests
    BY DEF RecordInv
  <2> HIDE DEF q
  <2>5. Others(r) /\ repair'[r] = q
    BY <2>2, <2>3, <2>4 DEF Others
  <2>6. /\ DOMAIN q.masks = left /\ \A v \in left : q.masks[v] = repair[r].masks[v]
        /\ DOMAIN q.res = left
    BY <2>1, <2>3
  <2>7. UNCHANGED <<chan, inProgress, mode, batchSize>> /\ q.pc \in Active
    BY <2>1, <2>3 DEF globals, Active
  <2> QED
    BY <1>1, <2>1, <2>3, <2>5, <2>6, <2>7 DEF Continues
<1> QED
  BY <1>2, <1>3

\* Merging the listings goes on or ends the repair.
LEMMA MergeEffect ==
  ASSUME RecordInv, MaskInv, NEW r \in Requests, RepairObjects(r)
  PROVE  Continues(r) \/ Ends(r)
<1>1. repair[r].pc \in Active
  BY DEF RepairObjects, Active
<1>2. CASE End(r, TRUE)
  BY <1>1, <1>2, EndEffect
<1>3. CASE ~End(r, TRUE)
  <2>1. \A at : /\ DOMAIN Matched(repair[r].res, at) = DOMAIN repair[r].res
                /\ DOMAIN Trimmed(repair[r].res, at, repair[r].latest) = DOMAIN repair[r].res
    BY DEF Matched, Trimmed
  <2>2. PICK ops, res :
          /\ DOMAIN res = DOMAIN repair[r].res
          /\ repair' = [repair EXCEPT ![r].pc = "batches", ![r].ops = ops, ![r].res = res]
          /\ UNCHANGED globals
    <3> DEFINE top == repair[r].res[repair[r].latest]
               m(order) == Merge(Kinds[repair[r].kind], top.refs, repair[r].res, order, repair[r].masks)
               rest(order) == [i \in DOMAIN order |->
                                 Rest(Kinds[repair[r].kind], top.refs, repair[r].res[order[i]],
                                      m(order).at[order[i]], repair[r].masks[order[i]])]
               ops(order) == m(order).ops \o (IF top.done THEN FlattenSeq(rest(order)) ELSE <<>>)
               res(order) == IF top.done THEN Matched(repair[r].res, m(order).at)
                             ELSE Trimmed(repair[r].res, m(order).at, repair[r].latest)
    <3>1. PICK order :
            /\ repair' = [repair EXCEPT ![r].pc = "batches", ![r].ops = ops(order),
                                        ![r].res = res(order)]
            /\ UNCHANGED globals
      BY <1>3, Zenon DEF RepairObjects
    <3>2. DOMAIN res(order) = DOMAIN repair[r].res
      BY <2>1
    <3> HIDE DEF ops, res
    <3> QED
      BY <3>1, <3>2, Zenon
  <2> DEFINE q == [repair[r] EXCEPT !.pc = "batches", !.ops = ops, !.res = res]
  <2>3. repair' = [repair EXCEPT ![r] = q]
    BY <2>2
  <2>4. /\ DOMAIN q = Fields /\ q.pc = "batches" /\ q.res = res /\ q.recorder = repair[r].recorder
        /\ q.setMode = repair[r].setMode /\ q.masks = repair[r].masks
        /\ q.size = repair[r].size /\ q.latest = repair[r].latest
    BY DEF RecordInv, Fields
  <2>5. DOMAIN repair = Requests /\ DOMAIN repair[r].res \subseteq DOMAIN repair[r].masks
    BY DEF RecordInv, MaskInv
  <2> HIDE DEF q
  <2>6. Others(r) /\ repair'[r] = q
    BY <2>3, <2>4, <2>5 DEF Others
  <2> QED
    BY <1>1, <2>2, <2>4, <2>5, <2>6 DEF Continues, Active, globals
<1> QED
  BY <1>2, <1>3

\* A repair batch goes on or ends the repair.
LEMMA BatchEffect ==
  ASSUME RecordInv, MaskInv, NEW r \in Requests, NEW f, RepairOperation(r, f)
  PROVE  Continues(r) \/ Ends(r)
<1>1. repair[r].pc = "batches" /\ repair[r].pc \in Active
  BY DEF RepairOperation, Active
<1>2. CASE End(r, TRUE)
  BY <1>1, <1>2, EndEffect
<1>3. CASE ~End(r, TRUE)
  <2>1. PICK ops : repair' = [repair EXCEPT ![r].ops = ops] /\ UNCHANGED globals
    <3> DEFINE ops == SubSeq(repair[r].ops, Len(NextBatch(repair[r].ops)) + 1, Len(repair[r].ops))
    <3>1. repair' = [repair EXCEPT ![r].ops = ops] /\ UNCHANGED globals
      BY <1>3, Zenon DEF RepairOperation
    <3> HIDE DEF ops
    <3> QED
      BY <3>1, Zenon
  <2> DEFINE q == [repair[r] EXCEPT !.ops = ops]
  <2>2. repair' = [repair EXCEPT ![r] = q]
    BY <2>1
  <2>3. /\ DOMAIN q = Fields /\ q.pc = repair[r].pc /\ q.res = repair[r].res
        /\ q.recorder = repair[r].recorder
        /\ q.setMode = repair[r].setMode /\ q.masks = repair[r].masks
        /\ q.size = repair[r].size /\ q.latest = repair[r].latest
    BY DEF RecordInv, Fields
  <2>4. DOMAIN repair = Requests /\ DOMAIN repair[r].res \subseteq DOMAIN repair[r].masks
    BY DEF RecordInv, MaskInv
  <2> HIDE DEF q
  <2>5. Others(r) /\ repair'[r] = q
    BY <2>2, <2>3, <2>4 DEF Others
  <2> QED
    BY <1>1, <2>1, <2>3, <2>4, <2>5 DEF Continues, globals
<1> QED
  BY <1>2, <1>3

\* The end of a round goes on.
LEMMA RoundEffect ==
  ASSUME RecordInv, MaskInv, NEW r \in Requests, RoundDone(r)
  PROVE  Continues(r)
<1> DEFINE complete == \A v \in DOMAIN repair[r].res : repair[r].res[v].done
           next == repair[r].kind + 1
           p == IF complete /\ next > Len(Kinds) THEN "check" ELSE "list"
           turn == complete /\ next <= Len(Kinds)
<1>0. DOMAIN repair = Requests /\ DOMAIN repair[r] = Fields
      /\ DOMAIN repair[r].res \subseteq DOMAIN repair[r].masks
  BY DEF RecordInv, MaskInv
<1>1. repair' = [repair EXCEPT ![r].pc = p, ![r].kind = IF turn THEN next ELSE @,
                               ![r].res = IF complete THEN <<>> ELSE @]
  BY Zenon DEF RoundDone
<1>2. p \in {"check", "list"}
  OBVIOUS
<1> HIDE DEF p, turn, next, complete
<1>3. /\ DOMAIN repair' = Requests /\ DOMAIN repair'[r] = Fields /\ repair'[r].pc = p
      /\ repair'[r].recorder = repair[r].recorder
      /\ repair'[r].setMode = repair[r].setMode /\ repair'[r].masks = repair[r].masks
      /\ repair'[r].size = repair[r].size /\ repair'[r].latest = repair[r].latest
      /\ repair'[r].res \in {<<>>, repair[r].res}
      /\ \A q \in Requests \ {r} : repair'[q] = repair[q]
  BY <1>0, <1>1 DEF Fields
<1>4. DOMAIN repair'[r].res \subseteq DOMAIN repair[r].masks
  BY <1>0, <1>3
<1> QED
  BY <1>2, <1>3, <1>4 DEF Continues, Others, globals, RoundDone, Active

\* The check of the version goes on or ends the repair.
LEMMA CheckEffect ==
  ASSUME RecordInv, MaskInv, NEW r \in Requests, CheckVersion(r)
  PROVE  Continues(r) \/ Ends(r)
<1>1. repair[r].pc = "check" /\ repair[r].pc \in Active
  BY DEF CheckVersion, Active
<1>2. CASE End(r, TRUE)
  BY <1>1, <1>2, EndEffect
<1>3. CASE ~End(r, TRUE)
  <2>1. PICK todo : repair' = [repair EXCEPT ![r].pc = "final", ![r].todo = todo] /\ UNCHANGED globals
    BY <1>3, Zenon DEF CheckVersion
  <2> DEFINE q == [repair[r] EXCEPT !.pc = "final", !.todo = todo]
  <2>2. repair' = [repair EXCEPT ![r] = q]
    BY <2>1
  <2>3. /\ DOMAIN q = Fields /\ q.pc = "final" /\ q.res = repair[r].res
        /\ q.recorder = repair[r].recorder
        /\ q.setMode = repair[r].setMode /\ q.masks = repair[r].masks
        /\ q.size = repair[r].size /\ q.latest = repair[r].latest
    BY DEF RecordInv, Fields
  <2>4. DOMAIN repair = Requests /\ DOMAIN repair[r].res \subseteq DOMAIN repair[r].masks
    BY DEF RecordInv, MaskInv
  <2> HIDE DEF q
  <2>5. Others(r) /\ repair'[r] = q
    BY <2>2, <2>3, <2>4 DEF Others
  <2> QED
    BY <1>1, <2>1, <2>3, <2>4, <2>5 DEF Continues, globals, Active
<1> QED
  BY <1>2, <1>3

\* A final commit goes on, whether it succeeds or not.
LEMMA FinalEffect ==
  ASSUME RecordInv, MaskInv, NEW r \in Requests, NEW b \in Blobbers,
         FinalCommit(r, b) \/ FinalCommitFails(r, b)
  PROVE  Continues(r)
<1>1. PICK todo, e : repair' = [repair EXCEPT ![r].todo = todo, ![r].error = e]
  <2>1. CASE FinalCommit(r, b)
    <3> DEFINE e == repair[r].error \/ version[b] > repair[r].latest
    <3>1. repair' = [repair EXCEPT ![r].todo = @ \ {b}, ![r].error = @ \/ version[b] > repair[r].latest]
      BY <2>1 DEF FinalCommit
    <3>2. repair' = [repair EXCEPT ![r].todo = repair[r].todo \ {b}, ![r].error = e]
      BY <3>1 DEF RecordInv, Fields
    <3> HIDE DEF e
    <3> QED
      BY <3>2, Zenon
  <2>2. CASE FinalCommitFails(r, b)
    BY <2>2 DEF FinalCommitFails
  <2> QED
    BY <2>1, <2>2
<1> DEFINE q == [repair[r] EXCEPT !.todo = todo, !.error = e]
<1>2. repair' = [repair EXCEPT ![r] = q]
  BY <1>1
<1>3. /\ DOMAIN q = Fields /\ q.pc = repair[r].pc /\ q.res = repair[r].res
      /\ q.recorder = repair[r].recorder
      /\ q.setMode = repair[r].setMode /\ q.masks = repair[r].masks
      /\ q.size = repair[r].size /\ q.latest = repair[r].latest
  BY DEF RecordInv, Fields
<1>4. DOMAIN repair = Requests /\ DOMAIN repair[r].res \subseteq DOMAIN repair[r].masks
  BY DEF RecordInv, MaskInv
<1> HIDE DEF q
<1>5. Others(r) /\ repair'[r] = q
  BY <1>2, <1>3, <1>4 DEF Others
<1>6. repair[r].pc \in Active /\ UNCHANGED globals
  BY DEF FinalCommit, FinalCommitFails, Active
<1> QED
  BY <1>3, <1>4, <1>5, <1>6 DEF Continues, globals

\* iterateDir starts the work with the mode and the batch size set, or returns.
IterateEffect(r) ==
  /\ Others(r) /\ repair[r].pc = "mode" /\ repair'[r].res = repair[r].res /\ UNCHANGED chan
  /\ \/ /\ repair'[r].pc = "list" /\ mode' = (mode \/ repair[r].setMode)
        /\ repair'[r].size = batchSize /\ repair'[r].latest = latest /\ batchSize' = RepairBatch
        /\ repair'[r].masks = [v \in VersionsOf |-> {b \in Blobbers : known[b] = v}]
        /\ inProgress' = inProgress
     \/ /\ repair'[r].pc = "ended" /\ mode' = (mode /\ ~repair[r].setMode)
        /\ repair'[r].masks = repair[r].masks /\ batchSize' = batchSize /\ inProgress' = 0

\* Grouping the blobbers switches the mode or ends the repair.
LEMMA IterateDirEffect ==
  ASSUME RecordInv, NEW r \in Requests, IterateDir(r)
  PROVE  IterateEffect(r)
<1> DEFINE masks == [v \in VersionsOf |-> {b \in Blobbers : known[b] = v}]
           enough == latest \in VersionsOf /\ Cardinality(masks[latest]) >= DataShards
<1>0. DOMAIN repair = Requests /\ DOMAIN repair[r] = Fields
  BY DEF RecordInv
<1>1. CASE /\ repair' = [repair EXCEPT ![r].pc = "list", ![r].size = batchSize,
                            ![r].latest = latest, ![r].masks = masks]
           /\ mode' = (mode \/ repair[r].setMode) /\ batchSize' = RepairBatch
           /\ UNCHANGED <<chan, inProgress>>
  <2> DEFINE q == [repair[r] EXCEPT !.pc = "list", !.size = batchSize,
                                    !.latest = latest, !.masks = masks]
  <2> HIDE DEF masks
  <2>1. repair' = [repair EXCEPT ![r] = q]
    BY <1>1
  <2>2. /\ DOMAIN q = Fields /\ q.pc = "list" /\ q.res = repair[r].res
        /\ q.recorder = repair[r].recorder /\ q.setMode = repair[r].setMode
        /\ q.masks = masks /\ q.size = batchSize /\ q.latest = latest
    BY <1>0 DEF Fields
  <2> HIDE DEF q
  <2>3. Others(r) /\ repair'[r] = q
    BY <1>0, <2>1, <2>2 DEF Others
  <2> QED
    BY <1>1, <2>2, <2>3 DEF IterateEffect, IterateDir, masks
<1>2. CASE /\ repair' = [repair EXCEPT ![r].pc = "ended", ![r].error = ~enough]
           /\ mode' = (mode /\ ~repair[r].setMode) /\ inProgress' = 0
           /\ UNCHANGED <<chan, batchSize>>
  <2> DEFINE q == [repair[r] EXCEPT !.pc = "ended", !.error = ~enough]
  <2> HIDE DEF masks, enough
  <2>1. repair' = [repair EXCEPT ![r] = q]
    BY <1>2
  <2>2. /\ DOMAIN q = Fields /\ q.pc = "ended" /\ q.res = repair[r].res
        /\ q.recorder = repair[r].recorder /\ q.setMode = repair[r].setMode
        /\ q.masks = repair[r].masks
    BY <1>0 DEF Fields
  <2> HIDE DEF q
  <2>3. Others(r) /\ repair'[r] = q
    BY <1>0, <2>1, <2>2 DEF Others
  <2> QED
    BY <1>2, <2>2, <2>3 DEF IterateEffect, IterateDir
<1> QED
  BY <1>1, <1>2, Zenon DEF IterateDir

\* The steps, by what they do to the requests.
LEMMA StepEffects ==
  ASSUME RecordInv, MaskInv, [Next]_vars
  PROVE  \/ \E r \in Requests : \/ StartRepair(r) \/ PutRequest(r) \/ RecordRequest(r)
                                \/ DispatchWork(r) \/ ProcessRepair(r) \/ IterateEffect(r)
                                \/ Continues(r) \/ Ends(r)
         \/ CancelRepair \/ Crash
         \/ UNCHANGED <<repair, chan, inProgress, mode, batchSize>>
<1> DEFINE Kind(r) == \/ StartRepair(r) \/ PutRequest(r) \/ RecordRequest(r)
                      \/ DispatchWork(r) \/ ProcessRepair(r) \/ IterateEffect(r)
                      \/ Continues(r) \/ Ends(r)
<1>1. ASSUME NEW r \in Requests, Step(r) PROVE Kind(r)
  <2>1. CASE PutRequest(r) \/ RecordRequest(r) \/ DispatchWork(r) \/ ProcessRepair(r)
    BY <2>1
  <2>2. CASE IterateDir(r)
    BY <2>2, IterateDirEffect
  <2>3. CASE GetRefsWithVersion(r, {}) \/ RepairObjects(r) \/ RepairOperation(r, {})
    BY <2>3, ListEffect, MergeEffect, BatchEffect
  <2>4. CASE RoundDone(r) \/ CheckVersion(r) \/ \E b \in Blobbers : FinalCommit(r, b)
    BY <2>4, RoundEffect, CheckEffect, FinalEffect
  <2>5. CASE Finish(r)
    <3>1. repair[r].pc \in Active /\ End(r, repair[r].error)
      BY <2>5 DEF Finish, Active
    <3> QED
      BY <3>1, EndEffect
  <2> QED
    BY <1>1, <2>1, <2>2, <2>3, <2>4, <2>5 DEF Step
<1>2. ASSUME NEW r \in Requests, OperationFails(r) PROVE Kind(r)
  <2>1. repair[r].pc \in Active /\ End(r, TRUE)
    BY <1>2 DEF OperationFails, Active
  <2> QED
    BY <2>1, EndEffect
<1>3. ASSUME NEW r \in Requests, NEW f, GetRefsWithVersion(r, f) PROVE Kind(r)
  BY <1>3, ListEffect
<1>4. ASSUME NEW r \in Requests, NEW b \in Blobbers, RepairOperation(r, {b}) PROVE Kind(r)
  BY <1>4, BatchEffect
<1>5. ASSUME NEW r \in Requests, NEW b \in Blobbers, FinalCommitFails(r, b) PROVE Kind(r)
  BY <1>5, FinalEffect
<1>6. ASSUME NEW p \in WritePaths, Write(p)
      PROVE  UNCHANGED <<repair, chan, inProgress, mode, batchSize>>
  BY <1>6 DEF Write, globals
<1>7. UNCHANGED vars => UNCHANGED <<repair, chan, inProgress, mode, batchSize>>
  BY DEF vars, globals
<1> HIDE DEF Kind
<1>8. \/ \E r \in Requests : StartRepair(r) \/ Kind(r)
      \/ CancelRepair \/ Crash \/ UNCHANGED <<repair, chan, inProgress, mode, batchSize>>
  BY <1>1, <1>2, <1>3, <1>4, <1>5, <1>6, <1>7 DEF Next, Done
<1> QED
  BY <1>8 DEF Kind

-----------------------------------------------------------------------------
(* The invariant is inductive.                                             *)

\* Requests stay records with a place each.
LEMMA RecordStep ==
  ASSUME IndInv, [Next]_vars
  PROVE  RecordInv'
<1> USE DEF IndInv, RecordInv, BoundInv, ModeInv, Fields, Pcs, Recorders, Active, globals
<1>1. ASSUME NEW r \in Requests, StartRepair(r) PROVE RecordInv'
  BY <1>1 DEF StartRepair
<1>2. ASSUME NEW r \in Requests, PutRequest(r) PROVE RecordInv'
  BY <1>2 DEF PutRequest
<1>3. ASSUME NEW r \in Requests, RecordRequest(r) PROVE RecordInv'
  BY <1>3 DEF RecordRequest
<1>4. ASSUME NEW r \in Requests, DispatchWork(r) PROVE RecordInv'
  BY <1>4 DEF DispatchWork
<1>5. ASSUME NEW r \in Requests, ProcessRepair(r) PROVE RecordInv'
  BY <1>5 DEF ProcessRepair
<1>6. ASSUME NEW r \in Requests, IterateEffect(r) PROVE RecordInv'
  BY <1>6 DEF IterateEffect, Others
<1>7. ASSUME NEW r \in Requests, Continues(r) PROVE RecordInv'
  BY <1>7 DEF Continues, Others
<1>8. ASSUME NEW r \in Requests, Ends(r) PROVE RecordInv'
  BY <1>8 DEF Ends, Others
<1>9. CASE CancelRepair
  BY <1>9 DEF CancelRepair, Fault
<1>10. CASE Crash
  BY <1>10 DEF Crash, Fault, Request
<1>11. CASE UNCHANGED <<repair, chan, inProgress, mode, batchSize>>
  BY <1>11
<1> QED
  BY <1>1, <1>2, <1>3, <1>4, <1>5, <1>6, <1>7, <1>8, <1>9, <1>10, <1>11, StepEffects

\* A request is put into the channel once.
LEMMA QueueStep ==
  ASSUME IndInv, [Next]_vars
  PROVE  QueueInv'
<1>0. RecordInv /\ QueueInv /\ BoundInv /\ MaskInv
  BY DEF IndInv
<1>a. RecordInv'
  BY RecordStep
<1> USE <1>0, <1>a DEF RecordInv, QueueInv, BoundInv, Fields, Active, globals
<1>1. ASSUME NEW r \in Requests, StartRepair(r) PROVE QueueInv'
  BY <1>1 DEF StartRepair
<1>2. ASSUME NEW r \in Requests, PutRequest(r) PROVE QueueInv'
  BY <1>2 DEF PutRequest
<1>3. ASSUME NEW r \in Requests, RecordRequest(r) PROVE QueueInv'
  BY <1>3 DEF RecordRequest
<1>4. ASSUME NEW r \in Requests, DispatchWork(r) PROVE QueueInv'
  BY <1>4 DEF DispatchWork
<1>5. ASSUME NEW r \in Requests, ProcessRepair(r) PROVE QueueInv'
  BY <1>5 DEF ProcessRepair
<1>6. ASSUME NEW r \in Requests, IterateEffect(r) PROVE QueueInv'
  BY <1>6 DEF IterateEffect, Others
<1>7. ASSUME NEW r \in Requests, Continues(r) PROVE QueueInv'
  BY <1>7 DEF Continues, Others
<1>8. ASSUME NEW r \in Requests, Ends(r) PROVE QueueInv'
  BY <1>8 DEF Ends, Others
<1>9. CASE CancelRepair
  BY <1>9 DEF CancelRepair, Fault
<1>10. CASE Crash
  BY <1>10 DEF Crash, Fault, Request
<1>11. CASE UNCHANGED <<repair, chan, inProgress, mode, batchSize>>
  BY <1>11
<1> QED
  BY <1>1, <1>2, <1>3, <1>4, <1>5, <1>6, <1>7, <1>8, <1>9, <1>10, <1>11, StepEffects

\* The mode is switched back by the repair that switched it.
LEMMA ModeStep ==
  ASSUME IndInv, [Next]_vars
  PROVE  ModeInv'
<1>0. RecordInv /\ QueueInv /\ ModeInv /\ BoundInv /\ MaskInv
  BY DEF IndInv
<1>a. \A r \in Requests : repair'[r].setMode \in BOOLEAN /\ repair'[r].pc \in Pcs
  BY RecordStep DEF RecordInv
<1> USE <1>0, <1>a DEF RecordInv, ModeInv, BoundInv, Fields, Active, globals
<1>1. ASSUME NEW r \in Requests, StartRepair(r) PROVE ModeInv'
  BY <1>1 DEF StartRepair
<1>2. ASSUME NEW r \in Requests, PutRequest(r) PROVE ModeInv'
  BY <1>2 DEF PutRequest
<1>3. ASSUME NEW r \in Requests, RecordRequest(r) PROVE ModeInv'
  BY <1>3 DEF RecordRequest
<1>4. ASSUME NEW r \in Requests, DispatchWork(r) PROVE ModeInv'
  BY <1>4 DEF DispatchWork, QueueInv
<1>5. ASSUME NEW r \in Requests, ProcessRepair(r) PROVE ModeInv'
  BY <1>5 DEF ProcessRepair
<1>6. ASSUME NEW r \in Requests, IterateEffect(r) PROVE ModeInv'
  BY <1>6 DEF IterateEffect, Others
<1>7. ASSUME NEW r \in Requests, Continues(r) PROVE ModeInv'
  BY <1>7 DEF Continues, Others
<1>8. ASSUME NEW r \in Requests, Ends(r) PROVE ModeInv'
  BY <1>8 DEF Ends, Others
<1>9. CASE CancelRepair
  BY <1>9 DEF CancelRepair, Fault
<1>10. CASE Crash
  BY <1>10 DEF Crash, Fault, Request
<1>11. CASE UNCHANGED <<repair, chan, inProgress, mode, batchSize>>
  BY <1>11
<1> QED
  BY <1>1, <1>2, <1>3, <1>4, <1>5, <1>6, <1>7, <1>8, <1>9, <1>10, <1>11, StepEffects

\* A repair saves a batch size that some repair or the user set.
LEMMA SizeStep ==
  ASSUME IndInv, [Next]_vars
  PROVE  SizeInv'
<1>0. RecordInv /\ QueueInv /\ SizeInv /\ BoundInv /\ MaskInv
  BY DEF IndInv
<1> USE <1>0 DEF RecordInv, SizeInv, BoundInv, Fields, Active, globals
<1>1. ASSUME NEW r \in Requests, StartRepair(r) PROVE SizeInv'
  BY <1>1 DEF StartRepair
<1>2. ASSUME NEW r \in Requests, PutRequest(r) PROVE SizeInv'
  BY <1>2 DEF PutRequest
<1>3. ASSUME NEW r \in Requests, RecordRequest(r) PROVE SizeInv'
  BY <1>3 DEF RecordRequest
<1>4. ASSUME NEW r \in Requests, DispatchWork(r) PROVE SizeInv'
  BY <1>4 DEF DispatchWork, QueueInv
<1>5. ASSUME NEW r \in Requests, ProcessRepair(r) PROVE SizeInv'
  BY <1>5 DEF ProcessRepair
<1>6. ASSUME NEW r \in Requests, IterateEffect(r) PROVE SizeInv'
  BY <1>6 DEF IterateEffect, Others
<1>7. ASSUME NEW r \in Requests, Continues(r) PROVE SizeInv'
  BY <1>7 DEF Continues, Others
<1>8. ASSUME NEW r \in Requests, Ends(r) PROVE SizeInv'
  BY <1>8 DEF Ends, Others
<1>9. CASE CancelRepair
  BY <1>9 DEF CancelRepair, Fault
<1>10. CASE Crash
  BY <1>10 DEF Crash, Fault, Request
<1>11. CASE UNCHANGED <<repair, chan, inProgress, mode, batchSize>>
  BY <1>11
<1> QED
  BY <1>1, <1>2, <1>3, <1>4, <1>5, <1>6, <1>7, <1>8, <1>9, <1>10, <1>11, StepEffects

\* Listings stay within disjoint masks.
LEMMA MaskStep ==
  ASSUME IndInv, [Next]_vars
  PROVE  MaskInv'
<1>0. RecordInv /\ QueueInv /\ BoundInv /\ MaskInv
  BY DEF IndInv
<1> USE <1>0 DEF RecordInv, MaskInv, BoundInv, Fields, Active, globals
<1>1. ASSUME NEW r \in Requests, StartRepair(r) PROVE MaskInv'
  BY <1>1 DEF StartRepair
<1>2. ASSUME NEW r \in Requests, PutRequest(r) PROVE MaskInv'
  BY <1>2 DEF PutRequest
<1>3. ASSUME NEW r \in Requests, RecordRequest(r) PROVE MaskInv'
  BY <1>3 DEF RecordRequest
<1>4. ASSUME NEW r \in Requests, DispatchWork(r) PROVE MaskInv'
  BY <1>4 DEF DispatchWork, QueueInv
<1>5. ASSUME NEW r \in Requests, ProcessRepair(r) PROVE MaskInv'
  BY <1>5 DEF ProcessRepair
<1>6. ASSUME NEW r \in Requests, IterateEffect(r) PROVE MaskInv'
  <2>1. CASE repair'[r].masks = repair[r].masks
    BY <1>6, <2>1 DEF IterateEffect, Others
  <2>2. CASE repair'[r].masks = [v \in VersionsOf |-> {b \in Blobbers : known[b] = v}]
    <3> DEFINE m == [v \in VersionsOf |-> {b \in Blobbers : known[b] = v}]
    <3>1. \A v, w \in DOMAIN m : v # w => m[v] \cap m[w] = {}
      OBVIOUS
    <3> HIDE DEF m
    <3>2. DOMAIN repair'[r].res = {}
      BY <1>6 DEF IterateEffect
    <3> QED
      BY <1>6, <2>2, <3>1, <3>2 DEF IterateEffect, Others, m
  <2> QED
    BY <1>6, <2>1, <2>2 DEF IterateEffect
<1>7. ASSUME NEW r \in Requests, Continues(r) PROVE MaskInv'
  BY <1>7 DEF Continues, Others
<1>8. ASSUME NEW r \in Requests, Ends(r) PROVE MaskInv'
  BY <1>8 DEF Ends, Others
<1>9. CASE CancelRepair
  BY <1>9 DEF CancelRepair, Fault
<1>10. CASE Crash
  <2>1. \A r \in Requests :
          repair'[r] = repair[r] \/ (repair'[r].masks = <<>> /\ repair'[r].res = <<>>)
    BY <1>10 DEF Crash, Request
  <2>2. DOMAIN <<>> = {}
    OBVIOUS
  <2> QED
    BY <2>1, <2>2
<1>11. CASE UNCHANGED <<repair, chan, inProgress, mode, batchSize>>
  BY <1>11
<1> QED
  BY <1>1, <1>2, <1>3, <1>4, <1>5, <1>6, <1>7, <1>8, <1>9, <1>10, <1>11, StepEffects

\* The channel and the request in progress stay within their bounds.
LEMMA BoundStep ==
  ASSUME IndInv, [Next]_vars
  PROVE  BoundInv'
<1>0. RecordInv /\ BoundInv /\ MaskInv
  BY DEF IndInv
<1>a. 0 \in {0} \cup Requests
  OBVIOUS
<1>1. inProgress' \in {0} \cup Requests
  <2> USE <1>0, <1>a DEF BoundInv, globals
  <2>1. ASSUME NEW r \in Requests, StartRepair(r) PROVE inProgress' \in {0} \cup Requests
    BY <2>1 DEF StartRepair
  <2>2. ASSUME NEW r \in Requests, PutRequest(r) PROVE inProgress' \in {0} \cup Requests
    BY <2>2 DEF PutRequest
  <2>3. ASSUME NEW r \in Requests, RecordRequest(r) PROVE inProgress' \in {0} \cup Requests
    BY <2>3 DEF RecordRequest
  <2>4. ASSUME NEW r \in Requests, DispatchWork(r) PROVE inProgress' \in {0} \cup Requests
    BY <2>4 DEF DispatchWork
  <2>5. ASSUME NEW r \in Requests, ProcessRepair(r) PROVE inProgress' \in {0} \cup Requests
    BY <2>5 DEF ProcessRepair
  <2>6. ASSUME NEW r \in Requests, IterateEffect(r) PROVE inProgress' \in {0} \cup Requests
    BY <2>6 DEF IterateEffect, Others
  <2>7. ASSUME NEW r \in Requests, Continues(r) PROVE inProgress' \in {0} \cup Requests
    BY <2>7 DEF Continues, Others
  <2>8. ASSUME NEW r \in Requests, Ends(r) PROVE inProgress' \in {0} \cup Requests
    BY <2>8 DEF Ends, Others
  <2>9. CASE CancelRepair
    BY <2>9 DEF CancelRepair, Fault
  <2>10. CASE Crash
    BY <2>10 DEF Crash, Fault, Request
  <2>11. CASE UNCHANGED <<repair, chan, inProgress, mode, batchSize>>
    BY <2>11
  <2> QED
    BY <2>1, <2>2, <2>3, <2>4, <2>5, <2>6, <2>7, <2>8, <2>9, <2>10, <2>11, StepEffects
<1>2. missed' \subseteq Blobbers /\ budget' \in 0 .. MaxFaults
  <2> DEFINE Goal == missed' \subseteq Blobbers /\ budget' \in 0 .. MaxFaults
  <2>0. /\ missed \subseteq Blobbers /\ budget \in 0 .. MaxFaults
        /\ \A k : Fault(k) => budget' \in 0 .. MaxFaults
    BY <1>0, BoundsAssumption DEF BoundInv, Fault
  <2>1. ASSUME NEW r \in Requests,
               \/ StartRepair(r) \/ PutRequest(r) \/ RecordRequest(r) \/ DispatchWork(r)
               \/ ProcessRepair(r) \/ IterateDir(r) \/ RepairObjects(r) \/ RoundDone(r)
               \/ CheckVersion(r) \/ Finish(r)
        PROVE  Goal
    BY <2>0, <2>1 DEF StartRepair, PutRequest, RecordRequest, DispatchWork, ProcessRepair,
       IterateDir, RepairObjects, RoundDone, CheckVersion, Finish
  <2>2. ASSUME NEW r \in Requests, NEW b \in Blobbers, FinalCommit(r, b) \/ FinalCommitFails(r, b)
        PROVE  Goal
    BY <2>0, <2>2 DEF FinalCommit, FinalCommitFails
  <2>3. ASSUME NEW r \in Requests, NEW f, GetRefsWithVersion(r, f) PROVE Goal
    <3>1. missed' = missed /\ (budget' = budget \/ Fault("list"))
      BY <2>3, Zenon DEF GetRefsWithVersion
    <3> QED
      BY <2>0, <3>1
  <2>4. ASSUME NEW r \in Requests, NEW f, RepairOperation(r, f) PROVE Goal
    <3>1. budget' = budget \/ Fault("commit")
      BY <2>4, Zenon DEF RepairOperation
    <3>2. missed' \subseteq Blobbers
      <4>1. CASE missed' = missed
        BY <2>0, <4>1
      <4>2. CASE missed' # missed
        <5>1. \E a, m : missed' = missed \cup ((a \cap {b \in Blobbers : version[b] = known[b]}) \ m)
          BY <2>4, <4>2, Zenon DEF RepairOperation
        <5> QED
          BY <2>0, <5>1
      <4> QED
        BY <4>1, <4>2
    <3> QED
      BY <2>0, <3>1, <3>2
  <2>5. ASSUME NEW r \in Requests, OperationFails(r) PROVE Goal
    BY <2>0, <2>5 DEF OperationFails
  <2>6. CancelRepair \/ Crash => Goal
    BY <2>0 DEF CancelRepair, Crash
  <2>7. ASSUME NEW p \in WritePaths, Write(p) PROVE Goal
    BY <2>0, <2>7 DEF Write
  <2>8. UNCHANGED vars => Goal
    BY <2>0 DEF vars
  <2> HIDE DEF Goal
  <2>9. ASSUME NEW r \in Requests, Step(r) PROVE Goal
    BY <2>1, <2>2, <2>3, <2>4, <2>9 DEF Step
  <2>10. Goal
    BY <2>1, <2>2, <2>3, <2>4, <2>5, <2>6, <2>7, <2>8, <2>9 DEF Next, Done
  <2> QED
    BY <2>10 DEF Goal
<1> QED
  BY <1>1, <1>2 DEF BoundInv

\* A set of versions that is not empty has a highest one.
LEMMA MaxOf ==
  ASSUME NEW n \in Nat, NEW S \in SUBSET (1 .. n), S # {}
  PROVE  Max(S) \in S /\ \A y \in S : y <= Max(S)
<1> DEFINE below == {k \in Nat : n - k \in S}
<1>1. below # {}
  <2>1. PICK v \in S : v \in 1 .. n
    OBVIOUS
  <2>2. n - v \in Nat /\ n - (n - v) = v
    BY <2>1
  <2> QED
    BY <2>1, <2>2
<1>2. PICK x \in below : \A y \in below : <<y, x>> \notin OpToRel(<, Nat)
  BY <1>1, NatLessThanWellFounded, WFMin
<1>3. \A y \in below : ~(y < x)
  BY <1>2 DEF OpToRel
<1>4. ASSUME NEW w \in S PROVE n - x >= w
  <2>1. w \in 1 .. n /\ n - w \in Nat /\ n - (n - w) = w
    OBVIOUS
  <2>2. ~(n - w < x)
    BY <1>3, <2>1
  <2> QED
    BY <2>1, <2>2
<1>5. Max(S) \in S /\ \A y \in S : Max(S) >= y
  BY <1>4 DEF Max
<1> HIDE DEF below
<1>6. \A y \in S : y \in Int
  OBVIOUS
<1> QED
  BY <1>5, <1>6

\* The newest version is a committed one.
LEMMA NewestCommitted ==
  ASSUME VersionInv
  PROVE  Newest \in 1 .. Len(history)
<1>1. {version[b] : b \in Blobbers} \in SUBSET (1 .. Len(history)) /\ Len(history) \in Nat
  BY DEF VersionInv
<1>2. Blobbers # {}
  BY ShardsAssumption, FS_EmptySet
<1> QED
  BY <1>1, <1>2, MaxOf DEF Newest

\* The version a repair has for the latest one is set when it starts its work.
LEMMA TargetStep ==
  ASSUME IndInv, [Next]_vars
  PROVE  \A q \in Requests : repair'[q].pc \in Active => repair'[q].latest \in 1 .. Len(history)
<1> DEFINE Goal == \A q \in Requests : repair'[q].pc \in Active => repair'[q].latest \in 1 .. Len(history)
<1>0. RecordInv /\ QueueInv /\ BoundInv /\ MaskInv /\ latest \in 1 .. Len(history)
  BY DEF IndInv, VersionInv
<1>a. \A q \in Requests : repair[q].pc \in Active => repair[q].latest \in 1 .. Len(history)
  BY DEF IndInv, VersionInv
<1> USE <1>0, <1>a DEF RecordInv, BoundInv, Fields, Active, globals
<1>1. ASSUME NEW r \in Requests, StartRepair(r) PROVE Goal
  BY <1>1 DEF StartRepair
<1>2. ASSUME NEW r \in Requests, PutRequest(r) PROVE Goal
  BY <1>2 DEF PutRequest
<1>3. ASSUME NEW r \in Requests, RecordRequest(r) PROVE Goal
  BY <1>3 DEF RecordRequest
<1>4. ASSUME NEW r \in Requests, DispatchWork(r) PROVE Goal
  BY <1>4 DEF DispatchWork, QueueInv
<1>5. ASSUME NEW r \in Requests, ProcessRepair(r) PROVE Goal
  BY <1>5 DEF ProcessRepair
<1>6. ASSUME NEW r \in Requests, IterateEffect(r) PROVE Goal
  BY <1>6 DEF IterateEffect, Others
<1>7. ASSUME NEW r \in Requests, Continues(r) PROVE Goal
  BY <1>7 DEF Continues, Others
<1>8. ASSUME NEW r \in Requests, Ends(r) PROVE Goal
  BY <1>8 DEF Ends, Others
<1>9. CASE CancelRepair
  BY <1>9 DEF CancelRepair, Fault
<1>10. CASE Crash
  <2>1. \A q \in Requests : repair'[q] = repair[q] \/ repair'[q].pc = "dead"
    BY <1>10 DEF Crash, Request
  <2> QED
    BY <2>1
<1>11. CASE UNCHANGED <<repair, chan, inProgress, mode, batchSize>>
  BY <1>11
<1> QED
  BY <1>1, <1>2, <1>3, <1>4, <1>5, <1>6, <1>7, <1>8, <1>9, <1>10, <1>11, StepEffects

\* Versions stay committed ones.
LEMMA VersionStep ==
  ASSUME IndInv, [Next]_vars
  PROVE  VersionInv'
<1>0. VersionInv /\ \A r \in Requests : repair'[r].pc \in Active => repair'[r].latest \in 1 .. Len(history)
  BY TargetStep DEF IndInv
<1>a. Newest \in 1 .. Len(history) /\ Len(history) \in Nat
  BY <1>0, NewestCommitted DEF VersionInv
<1>b. CheckAllocStatus => /\ known' \in [Blobbers -> 1 .. Len(history)]
                          /\ latest' \in 1 .. Len(history)
  BY <1>0, <1>a DEF CheckAllocStatus, VersionInv
<1>1. ASSUME history' = history, version' \in [Blobbers -> 1 .. Len(history)],
             (known' = known /\ latest' = latest) \/ CheckAllocStatus
      PROVE  VersionInv'
  BY <1>0, <1>b, <1>1 DEF VersionInv
<1>2. ASSUME NEW r \in Requests, NEW b \in Blobbers, FinalCommit(r, b) PROVE VersionInv'
  <2>1. /\ version[b] \in 1 .. Len(history) /\ repair[r].latest \in 1 .. Len(history)
        /\ version' = [version EXCEPT ![b] = Max({version[b], repair[r].latest})]
        /\ UNCHANGED <<history, known, latest>>
    BY <1>0, <1>2 DEF FinalCommit, VersionInv, IndInv, Active
  <2>2. Max({version[b], repair[r].latest}) \in 1 .. Len(history)
    BY <1>a, <2>1, MaxOf
  <2>3. version' \in [Blobbers -> 1 .. Len(history)]
    BY <1>0, <2>1, <2>2 DEF VersionInv
  <2> QED
    BY <1>1, <2>1, <2>3
<1>3. ASSUME NEW p \in WritePaths, Write(p) PROVE VersionInv'
  <2>1. PICK tree : history' = Append(history, tree)
    BY <1>3, Zenon DEF Write
  <2>2. /\ Len(history') = Len(history) + 1
        /\ history' = [v \in 1 .. Len(history') |-> history'[v]]
    <3> DEFINE S == {history[v] : v \in 1 .. Len(history)} \cup {tree}
    <3>1. history \in [1 .. Len(history) -> S] /\ Len(history) \in Nat
      BY <1>0 DEF VersionInv
    <3>2. history \in Seq(S) /\ tree \in S
      BY <3>1, SeqDef
    <3> HIDE DEF S
    <3>3. history' \in Seq(S) /\ Len(history') = Len(history) + 1
      BY <2>1, <3>2
    <3> QED
      BY <3>3, LenProperties
  <2>3. /\ version' = [b \in Blobbers |-> IF version[b] = Newest THEN Newest + 1 ELSE version[b]]
        /\ UNCHANGED <<known, latest>>
    BY <1>3 DEF Write
  <2>4. 1 .. Len(history) \subseteq 1 .. Len(history') /\ Newest + 1 \in 1 .. Len(history')
    BY <1>a, <2>2
  <2>5. version' \in [Blobbers -> 1 .. Len(history')]
    BY <1>0, <2>3, <2>4 DEF VersionInv
  <2>6. Len(history') \in Nat
    BY <1>a, <2>2
  <2> QED
    BY <1>0, <2>2, <2>3, <2>4, <2>5, <2>6 DEF VersionInv
<1> DEFINE Same == UNCHANGED <<version, history>> /\ (UNCHANGED <<known, latest>> \/ CheckAllocStatus)
<1>4. Same => VersionInv'
  BY <1>0, <1>1 DEF VersionInv
<1>5. ASSUME NEW r \in Requests,
             \/ StartRepair(r) \/ PutRequest(r) \/ RecordRequest(r) \/ DispatchWork(r)
             \/ ProcessRepair(r) \/ IterateDir(r) \/ RepairObjects(r) \/ RoundDone(r)
             \/ CheckVersion(r) \/ Finish(r) \/ OperationFails(r)
      PROVE  Same
  BY <1>5 DEF StartRepair, PutRequest, RecordRequest, DispatchWork, ProcessRepair,
     IterateDir, RepairObjects, RoundDone, CheckVersion, Finish, OperationFails, blobs
<1>6. ASSUME NEW r \in Requests, NEW b \in Blobbers, FinalCommitFails(r, b) PROVE Same
  BY <1>6 DEF FinalCommitFails, blobs
<1>7. ASSUME NEW r \in Requests, NEW f, GetRefsWithVersion(r, f) PROVE Same
  BY <1>7, Zenon DEF GetRefsWithVersion, blobs
<1>8. ASSUME NEW r \in Requests, NEW f, RepairOperation(r, f) PROVE Same
  BY <1>8, Zenon DEF RepairOperation
<1>9. CancelRepair \/ Crash \/ UNCHANGED vars => Same
  BY DEF CancelRepair, Crash, vars, blobs
<1> HIDE DEF Same
<1>10. ASSUME NEW r \in Requests, Step(r) PROVE VersionInv'
  BY <1>2, <1>4, <1>5, <1>7, <1>8, <1>10 DEF Step
<1> QED
  BY <1>3, <1>4, <1>5, <1>6, <1>7, <1>8, <1>9, <1>10 DEF Next, Done

\* No repair runs at first.
LEMMA InitIndInv == Init => IndInv
<1> SUFFICES ASSUME Init PROVE IndInv
  OBVIOUS
<1>1. PICK c \in Cases :
        /\ history = c.history /\ version = c.version
        /\ known = c.version /\ latest = Max({c.version[b] : b \in Blobbers})
        /\ repair = [r \in Requests |->
                      IF r <= c.requests THEN Request ELSE [Request EXCEPT !.pc = "dead"]]
        /\ chan = <<>> /\ inProgress = 0 /\ mode = FALSE /\ batchSize = UserBatch
        /\ missed = {} /\ budget = MaxFaults
  BY DEF Init
<1>2. \A r \in Requests :
        /\ DOMAIN repair[r] = Fields /\ repair[r].pc \in {"none", "dead"}
        /\ repair[r].recorder = "none" /\ repair[r].setMode = FALSE
        /\ repair[r].masks = <<>> /\ repair[r].res = <<>>
  BY <1>1 DEF Request, Fields
<1>3. RecordInv /\ QueueInv /\ ModeInv /\ SizeInv
  BY <1>1, <1>2 DEF RecordInv, QueueInv, ModeInv, SizeInv, Active, Pcs, Recorders
<1>4. MaskInv
  <2>1. DOMAIN <<>> = {}
    OBVIOUS
  <2> QED
    BY <1>2, <2>1 DEF MaskInv
<1>5. BoundInv
  BY <1>1, BoundsAssumption DEF BoundInv
<1>6. VersionInv
  <2>1. /\ Len(history) \in Nat /\ history = [v \in 1 .. Len(history) |-> history[v]]
        /\ version \in [Blobbers -> 1 .. Len(history)]
    BY <1>1, CasesAssumption
  <2>2. {version[b] : b \in Blobbers} \in SUBSET (1 .. Len(history)) /\ Blobbers # {}
    BY <2>1, ShardsAssumption, FS_EmptySet
  <2>3. Max({version[b] : b \in Blobbers}) \in 1 .. Len(history)
    <3> DEFINE S == {version[b] : b \in Blobbers}
    <3>1. S \in SUBSET (1 .. Len(history)) /\ S # {}
      BY <2>2
    <3> HIDE DEF S
    <3>2. Max(S) \in S
      BY <2>1, <3>1, MaxOf
    <3> QED
      BY <3>1, <3>2 DEF S
  <2> QED
    BY <1>1, <1>2, <2>1, <2>3 DEF VersionInv, Active
<1> QED
  BY <1>3, <1>4, <1>5, <1>6 DEF IndInv

\* The invariant is inductive.
LEMMA IndInvAlways == Spec => []IndInv
<1>1. IndInv /\ [Next]_vars => IndInv'
  BY RecordStep, QueueStep, ModeStep, SizeStep, MaskStep, VersionStep, BoundStep DEF IndInv
<1> QED
  BY <1>1, InitIndInv, PTL DEF Spec

\* The variables of the repair model keep their types: the blobbers hold versions
\* that clients committed, the masks of iterateDir are disjoint, listings are of
\* versions with a mask, and the batch size is the user's or that of repairs,
\* however repairs overlap, fail or are cancelled.
THEOREM TypeCorrect == Spec => []TypeOK
<1>1. IndInv => TypeOK
  <2> SUFFICES ASSUME IndInv PROVE TypeOK
    OBVIOUS
  <2>1. /\ \A b \in Blobbers : version[b] \in DOMAIN history
        /\ known \in [Blobbers -> Nat] /\ latest \in Nat
    <3>1. /\ Len(history) \in Nat /\ DOMAIN history = 1 .. Len(history)
          /\ version \in [Blobbers -> 1 .. Len(history)]
          /\ known \in [Blobbers -> 1 .. Len(history)] /\ latest \in 1 .. Len(history)
      BY DEF IndInv, VersionInv
    <3> QED
      BY <3>1
  <2>2. Len(chan) <= 1
    <3>1. CASE chan = <<>>
      BY <3>1
    <3>2. CASE \E r \in Requests : chan = <<r>>
      BY <3>2
    <3> QED
      BY <3>1, <3>2 DEF IndInv, QueueInv
  <2> QED
    BY <2>1, <2>2 DEF IndInv, RecordInv, ModeInv, SizeInv, MaskInv, BoundInv, TypeOK, Recorders
<1> QED
  BY <1>1, IndInvAlways, PTL

\* When no repair runs the client is back in the mode the user chose: of repairs
\* that overlap only the one that found singleClientMode off switches it on, and
\* its deferred calls switch it off while it still runs.
THEOREM ModeRestoredHolds == Spec => []ModeRestored
<1>1. IndInv => ModeRestored
  BY DEF IndInv, ModeInv, ModeRestored, Idle, Active
<1> QED
  BY <1>1, IndInvAlways, PTL
-----------------------------------------------------------------------------
(* Repairs that meet no fault.                                             *)

\* The blobbers of a repair are split by their versions, those of the latest one still
\* have it, and there is another version.
Split(r) ==
  /\ repair[r].latest = latest /\ latest \in DOMAIN repair[r].masks
  /\ Cardinality(DOMAIN repair[r].masks) # 1
  /\ \A b \in Blobbers : \E v \in DOMAIN repair[r].masks : b \in repair[r].masks[v]
  /\ \A b \in Blobbers : b \in repair[r].masks[latest] => version[b] = latest

\* A repair that nobody disturbed: the final commit goes to every blobber that does not
\* have the latest version, and a repair that ends without an error has none left.
OnCourse(r) ==
  /\ ~repair[r].canceled
  /\ repair[r].pc # "ended" => ~repair[r].error
  /\ repair[r].pc \in Active => Split(r)
  /\ repair[r].pc = "final" => \A b \in Blobbers \ repair[r].todo : version[b] = latest
  /\ repair[r].pc = "ended" /\ ~repair[r].error => \A b \in Blobbers : version[b] = latest

\* The client knows the newest version, and no version it knows of is ahead of the blobber.
LatestInv ==
  /\ \A b \in Blobbers : known[b] <= version[b] /\ version[b] <= latest
  /\ \E b \in Blobbers : version[b] = latest

CourseInv == budget = MaxFaults => LatestInv /\ \A r \in Requests : OnCourse(r)

\* A repair that met no fault and reports no error leaves no blobber behind: each has the
\* newest version, also while other repairs still run.
VersionsTaken ==
  budget = MaxFaults =>
    \A r \in Requests : repair[r].pc = "ended" /\ ~repair[r].error =>
      \A b \in Blobbers : version[b] = Newest

\* What the newest version is, where the client knows it.
LEMMA NewestIsLatest ==
  ASSUME VersionInv, LatestInv
  PROVE  Newest = latest
<1> DEFINE S == {version[b] : b \in Blobbers}
<1>1. /\ Len(history) \in Nat /\ version \in [Blobbers -> 1 .. Len(history)]
      /\ latest \in 1 .. Len(history)
  BY DEF VersionInv
<1>2. S \in SUBSET (1 .. Len(history)) /\ latest \in S /\ \A y \in S : y <= latest
  BY <1>1 DEF LatestInv
<1> HIDE DEF S
<1>3. Max(S) \in S /\ latest <= Max(S)
  BY <1>1, <1>2, MaxOf
<1>4. Max(S) \in 1 .. Len(history) /\ Max(S) <= latest
  BY <1>2, <1>3
<1>5. Max(S) = latest
  BY <1>1, <1>3, <1>4
<1> QED
  BY <1>5 DEF S, Newest

\* A step without a fault, when there has been none before.
LEMMA CleanStep ==
  ASSUME IndInv, [Next]_vars, budget' = MaxFaults
  PROVE  /\ budget = MaxFaults
         /\ (\E r \in Requests : StartRepair(r) \/ Step(r)) \/ UNCHANGED vars
<1>1. budget \in 0 .. MaxFaults /\ MaxFaults \in Nat
  BY BoundsAssumption DEF IndInv, BoundInv
<1>2. \A k : ~Fault(k)
  BY <1>1 DEF Fault
<1>3. ~CancelRepair /\ ~Crash /\ \A p \in WritePaths : ~Write(p)
  BY <1>2 DEF CancelRepair, Crash, Write
<1>4. \A r \in Requests : ~OperationFails(r) /\ \A b \in Blobbers : ~FinalCommitFails(r, b)
  BY <1>2 DEF OperationFails, FinalCommitFails
<1>5. ASSUME NEW r \in Requests, NEW f, f # {} PROVE ~GetRefsWithVersion(r, f) /\ ~RepairOperation(r, f)
  BY <1>2, <1>5, Zenon DEF GetRefsWithVersion, RepairOperation
<1>6. (\E r \in Requests : StartRepair(r) \/ Step(r)) \/ UNCHANGED vars
  <2>1. \A b : {b} # {}
    OBVIOUS
  <2>2. ASSUME NEW r \in Requests,
               \/ \E f \in (SUBSET DOMAIN history) \ {{}} : GetRefsWithVersion(r, f)
               \/ \E b \in Blobbers : RepairOperation(r, {b}) \/ FinalCommitFails(r, b)
        PROVE  FALSE
    <3>1. \A b \in Blobbers : ~RepairOperation(r, {b}) /\ ~FinalCommitFails(r, b)
      BY <1>4, <1>5, <2>1
    <3>2. \A f \in (SUBSET DOMAIN history) \ {{}} : f # {}
      OBVIOUS
    <3>3. \A f \in (SUBSET DOMAIN history) \ {{}} : ~GetRefsWithVersion(r, f)
      BY <1>5, <3>2
    <3> QED
      BY <2>2, <3>1, <3>3
  <2> QED
    BY <1>3, <1>4, <2>2 DEF Next, Done
<1>7. ASSUME NEW r \in Requests, StartRepair(r) \/ Step(r) PROVE budget' = budget
  <2>1. CASE \/ StartRepair(r) \/ PutRequest(r) \/ RecordRequest(r) \/ DispatchWork(r)
             \/ ProcessRepair(r) \/ IterateDir(r) \/ RepairObjects(r) \/ RoundDone(r)
             \/ CheckVersion(r) \/ Finish(r) \/ \E b \in Blobbers : FinalCommit(r, b)
    BY <2>1 DEF StartRepair, PutRequest, RecordRequest, DispatchWork, ProcessRepair,
       IterateDir, RepairObjects, RoundDone, CheckVersion, Finish, FinalCommit
  <2>2. CASE GetRefsWithVersion(r, {})
    BY <1>2, <2>2, Zenon DEF GetRefsWithVersion
  <2>3. CASE RepairOperation(r, {})
    BY <1>2, <2>3, Zenon DEF RepairOperation
  <2> QED
    BY <1>7, <2>1, <2>2, <2>3 DEF Step
<1> QED
  BY <1>6, <1>7 DEF vars

\* What is looked at of a request.
Keeps(q) ==
  /\ repair'[q].pc = repair[q].pc /\ repair'[q].canceled = repair[q].canceled
  /\ repair'[q].error = repair[q].error /\ repair'[q].latest = repair[q].latest
  /\ repair'[q].masks = repair[q].masks /\ repair'[q].todo = repair[q].todo

\* The client goes on knowing the newest version, and nobody leaves it.
Stays ==
  /\ latest' = latest
  /\ \A b \in Blobbers : version[b] = latest => version'[b] = latest

LEMMA CourseKept ==
  ASSUME NEW q \in Requests, OnCourse(q), Stays, Keeps(q)
  PROVE  OnCourse(q)'
<1>1. Split(q) => Split(q)'
  BY DEF Split, Stays, Keeps
<1> QED
  BY <1>1 DEF OnCourse, Stays, Keeps

\* The blobbers tell the client nothing new, and no other step changes what it knows.
LEMMA LatestKept ==
  ASSUME IndInv, LatestInv, NEW r \in Requests, StartRepair(r) \/ Step(r),
         \A q \in Requests : OnCourse(q)
  PROVE  LatestInv' /\ Stays
<1>0. /\ VersionInv /\ version \in [Blobbers -> 1 .. Len(history)] /\ Len(history) \in Nat
      /\ known \in [Blobbers -> 1 .. Len(history)] /\ latest \in 1 .. Len(history)
  BY DEF IndInv, VersionInv
<1>1. Newest = latest
  BY <1>0, NewestIsLatest
<1>2. CheckAllocStatus => known' = version /\ latest' = latest
  BY <1>1 DEF CheckAllocStatus
<1>3. CASE UNCHANGED version /\ (UNCHANGED <<known, latest>> \/ CheckAllocStatus)
  <2>1. latest' = latest /\ version' = version /\ known' \in {known, version}
    BY <1>2, <1>3
  <2>2. \A b \in Blobbers : version[b] <= version[b]
    BY <1>0
  <2> QED
    BY <2>1, <2>2 DEF LatestInv, Stays
<1>4. ASSUME NEW b \in Blobbers, FinalCommit(r, b) PROVE LatestInv' /\ Stays
  <2>1. /\ version' = [version EXCEPT ![b] = Max({version[b], repair[r].latest})]
        /\ UNCHANGED <<known, latest>> /\ repair[r].pc = "final"
    BY <1>4 DEF FinalCommit
  <2>2. repair[r].latest = latest
    BY <2>1 DEF OnCourse, Split, Active
  <2>3. Max({version[b], latest}) = latest
    <3> DEFINE S == {version[b], latest}
    <3>1. S \in SUBSET (1 .. Len(history)) /\ S # {} /\ latest \in S /\ \A y \in S : y <= latest
      BY <1>0 DEF LatestInv
    <3> HIDE DEF S
    <3>2. Max(S) \in S /\ latest <= Max(S)
      BY <1>0, <3>1, MaxOf
    <3>3. Max(S) \in 1 .. Len(history) /\ Max(S) <= latest
      BY <3>1, <3>2
    <3>4. Max(S) = latest
      BY <1>0, <3>2, <3>3
    <3> QED
      BY <3>4 DEF S
  <2>4. version' = [version EXCEPT ![b] = latest]
    BY <2>1, <2>2, <2>3
  <2>5. \A c \in Blobbers : version'[c] = IF c = b THEN latest ELSE version[c]
    BY <1>0, <2>4
  <2>6. \A c \in Blobbers : known[c] <= version'[c] /\ version'[c] <= latest
    <3> SUFFICES ASSUME NEW c \in Blobbers PROVE known[c] <= version'[c] /\ version'[c] <= latest
      OBVIOUS
    <3>1. known[c] <= version[c] /\ version[c] <= latest /\ known[c] \in Nat /\ version[c] \in Nat /\ latest \in Nat
      BY <1>0 DEF LatestInv
    <3> QED
      BY <2>5, <3>1
  <2> QED
    BY <2>1, <2>5, <2>6 DEF LatestInv, Stays
<1>5. CASE \/ StartRepair(r) \/ PutRequest(r) \/ RecordRequest(r) \/ DispatchWork(r)
           \/ ProcessRepair(r) \/ IterateDir(r) \/ RepairObjects(r) \/ RoundDone(r)
           \/ CheckVersion(r) \/ Finish(r)
  <2>1. UNCHANGED version /\ (UNCHANGED <<known, latest>> \/ CheckAllocStatus)
    BY <1>5 DEF StartRepair, PutRequest, RecordRequest, DispatchWork, ProcessRepair,
       IterateDir, RepairObjects, RoundDone, CheckVersion, Finish, blobs
  <2> QED
    BY <1>3, <2>1
<1>6. CASE GetRefsWithVersion(r, {}) \/ RepairOperation(r, {})
  <2>1. UNCHANGED version /\ UNCHANGED <<known, latest>>
    BY <1>6, Zenon DEF GetRefsWithVersion, RepairOperation, blobs
  <2> QED
    BY <1>3, <2>1
<1> QED
  BY <1>4, <1>5, <1>6 DEF Step

\* Only one request changes in a step.
LEMMA CourseOne ==
  ASSUME NEW r \in Requests, \A q \in Requests : OnCourse(q), Stays,
         \A q \in Requests \ {r} : repair'[q] = repair[q], OnCourse(r)'
  PROVE  \A q \in Requests : OnCourse(q)'
<1>1. ASSUME NEW q \in Requests \ {r} PROVE OnCourse(q)'
  BY <1>1, CourseKept DEF Keeps
<1> QED
  BY <1>1

\* A repair that ends with an error is no concern.
LEMMA CourseEnds ==
  ASSUME RecordInv, NEW r \in Requests, OnCourse(r), NEW e, End(r, e),
         e \/ (Stays /\ \A b \in Blobbers : version[b] = latest)
  PROVE  repair'[r].error = e /\ OnCourse(r)' /\ \A q \in Requests \ {r} : repair'[q] = repair[q]
<1> DEFINE q == [repair[r] EXCEPT !.pc = "ended", !.error = e, !.res = <<>>, !.ops = <<>>]
<1>0. DOMAIN repair = Requests /\ DOMAIN repair[r] = Fields
  BY DEF RecordInv
<1>1. repair' = [repair EXCEPT ![r] = q]
  BY DEF End
<1>2. q.pc = "ended" /\ q.error = e /\ q.canceled = repair[r].canceled
  BY <1>0 DEF Fields
<1> HIDE DEF q
<1>3. repair'[r] = q /\ \A h \in Requests \ {r} : repair'[h] = repair[h]
  BY <1>0, <1>1
<1>4. repair'[r].pc = "ended" /\ repair'[r].error = e /\ ~repair'[r].canceled
  BY <1>2, <1>3 DEF OnCourse
<1>5. ~e => \A b \in Blobbers : version'[b] = latest'
  BY DEF Stays
<1> QED
  BY <1>3, <1>4, <1>5 DEF OnCourse, Active

\* Until it lists, a repair has nothing to keep.
LEMMA CourseBefore ==
  ASSUME IndInv, LatestInv, NEW r \in Requests, OnCourse(r), Stays,
         StartRepair(r) \/ PutRequest(r) \/ RecordRequest(r) \/ DispatchWork(r) \/ ProcessRepair(r)
  PROVE  /\ repair'[r].error = repair[r].error
         /\ OnCourse(r)' /\ \A q \in Requests \ {r} : repair'[q] = repair[q]
<1>0. DOMAIN repair = Requests /\ DOMAIN repair[r] = Fields /\ ~repair[r].canceled
  BY DEF IndInv, RecordInv, OnCourse
<1>1. CASE PutRequest(r) \/ RecordRequest(r)
  <2>1. PICK w : repair' = [repair EXCEPT ![r].recorder = w]
    BY <1>1 DEF PutRequest, RecordRequest
  <2>2. Keeps(r) /\ \A q \in Requests \ {r} : repair'[q] = repair[q]
    BY <1>0, <2>1 DEF Keeps, Fields
  <2> QED
    BY <2>2, CourseKept DEF Keeps
<1>2. CASE StartRepair(r) \/ DispatchWork(r) \/ ProcessRepair(r)
  <2>1. repair[r].pc \in {"none", "queued", "dispatched"}
    BY <1>2 DEF StartRepair, DispatchWork, ProcessRepair, IndInv, QueueInv
  <2>2. ~repair[r].error
    BY <2>1 DEF OnCourse
  <2>3. /\ repair'[r].pc \in {"queued", "dispatched", "mode"}
        /\ repair'[r].error = repair[r].error /\ repair'[r].canceled = repair[r].canceled
        /\ \A q \in Requests \ {r} : repair'[q] = repair[q]
    <3>1. CASE StartRepair(r)
      BY <1>0, <3>1 DEF StartRepair, Fields
    <3>2. CASE DispatchWork(r)
      BY <1>0, <3>2 DEF DispatchWork, Fields
    <3>3. CASE ProcessRepair(r)
      BY <1>0, <3>3 DEF ProcessRepair, Fields
    <3> QED
      BY <1>2, <3>1, <3>2, <3>3
  <2> QED
    BY <1>0, <2>2, <2>3 DEF OnCourse, Active
<1> QED
  BY <1>1, <1>2

\* iterateDir puts every blobber into the mask of the version it is known to have.
LEMMA CourseIterate ==
  ASSUME IndInv, LatestInv, NEW r \in Requests, OnCourse(r), Stays, IterateDir(r)
  PROVE  /\ Cardinality({b \in Blobbers : known[b] = latest}) >= DataShards => ~repair'[r].error
         /\ OnCourse(r)' /\ \A q \in Requests \ {r} : repair'[q] = repair[q]
<1> DEFINE masks == [v \in VersionsOf |-> {b \in Blobbers : known[b] = v}]
           enough == latest \in VersionsOf /\ Cardinality(masks[latest]) >= DataShards
<1>0. /\ DOMAIN repair = Requests /\ DOMAIN repair[r] = Fields /\ ~repair[r].canceled
      /\ repair[r].pc = "mode" /\ ~repair[r].error
  BY DEF IndInv, RecordInv, OnCourse, IterateDir
<1>t. /\ version \in [Blobbers -> 1 .. Len(history)] /\ Len(history) \in Nat
      /\ known \in [Blobbers -> 1 .. Len(history)] /\ latest \in 1 .. Len(history)
  BY DEF IndInv, VersionInv
<1>v. \A b \in Blobbers : known[b] = latest => version[b] = latest
  <2> SUFFICES ASSUME NEW b \in Blobbers, known[b] = latest PROVE version[b] = latest
    OBVIOUS
  <2>1. known[b] <= version[b] /\ version[b] <= latest /\ version[b] \in Nat /\ latest \in Nat
    BY <1>t DEF LatestInv
  <2> QED
    BY <2>1
<1>1. CASE /\ enough /\ Cardinality(VersionsOf) > 1
           /\ repair' = [repair EXCEPT ![r].pc = "list", ![r].size = batchSize,
                            ![r].latest = latest, ![r].masks = masks]
  <2>1. DOMAIN masks = VersionsOf /\ latest \in VersionsOf /\ Cardinality(VersionsOf) # 1
    BY <1>1
  <2>2. \A b \in Blobbers : known[b] \in VersionsOf /\ b \in masks[known[b]]
    BY DEF VersionsOf
  <2>3. \A b \in Blobbers : b \in masks[latest] => version[b] = latest
    BY <2>1, <1>v
  <2> HIDE DEF masks
  <2> DEFINE q == [repair[r] EXCEPT !.pc = "list", !.size = batchSize,
                                    !.latest = latest, !.masks = masks]
  <2>4. repair' = [repair EXCEPT ![r] = q]
    BY <1>1
  <2>5. /\ q.pc = "list" /\ q.latest = latest /\ q.masks = masks
        /\ q.canceled = repair[r].canceled /\ q.error = repair[r].error
    BY <1>0 DEF Fields
  <2> HIDE DEF q
  <2>6. repair'[r] = q /\ \A h \in Requests \ {r} : repair'[h] = repair[h]
    BY <1>0, <2>4
  <2>7. Split(r)'
    <3>1. repair'[r].masks = masks /\ repair'[r].latest = latest /\ latest' = latest
      BY <2>5, <2>6 DEF Stays
    <3>2. \A b \in Blobbers : \E v \in DOMAIN masks : b \in masks[v]
      BY <2>1, <2>2
    <3>3. \A b \in Blobbers : b \in masks[latest] => version'[b] = latest
      BY <2>3 DEF Stays
    <3> QED
      BY <2>1, <3>1, <3>2, <3>3 DEF Split
  <2> QED
    BY <1>0, <2>5, <2>6, <2>7 DEF OnCourse
<1>2. CASE /\ ~enough \/ Cardinality(VersionsOf) = 1
           /\ repair' = [repair EXCEPT ![r].pc = "ended", ![r].error = ~enough]
  <2>1. ASSUME enough PROVE \A b \in Blobbers : version'[b] = latest
    <3>1. Cardinality(VersionsOf) = 1 /\ latest \in VersionsOf
      BY <1>2, <2>1
    <3>2. IsFiniteSet(VersionsOf)
      <4>1. VersionsOf \subseteq 1 .. Len(history)
        BY <1>t DEF VersionsOf
      <4>2. IsFiniteSet(1 .. Len(history))
        BY <1>t, FS_Interval
      <4> QED
        BY <4>1, <4>2, FS_Subset
    <3>3. PICK x : VersionsOf = {x}
      BY <3>1, <3>2, FS_Singleton
    <3>4. \A b \in Blobbers : known[b] = latest
      BY <3>1, <3>3 DEF VersionsOf
    <3> QED
      BY <3>4, <1>v DEF Stays
  <2> DEFINE q == [repair[r] EXCEPT !.pc = "ended", !.error = ~enough]
  <2> HIDE DEF enough
  <2>2. repair' = [repair EXCEPT ![r] = q]
    BY <1>2
  <2>3. q.pc = "ended" /\ q.error = ~enough /\ q.canceled = repair[r].canceled
    BY <1>0 DEF Fields
  <2> HIDE DEF q
  <2>4. repair'[r] = q /\ \A h \in Requests \ {r} : repair'[h] = repair[h]
    BY <1>0, <2>2
  <2>5. latest' = latest /\ enough \in BOOLEAN
    BY DEF Stays, enough
  <2>6. ASSUME Cardinality({b \in Blobbers : known[b] = latest}) >= DataShards PROVE enough
    <3>1. {b \in Blobbers : known[b] = latest} # {}
      BY <2>6, ShardsAssumption, FS_EmptySet
    <3>2. latest \in VersionsOf
      BY <3>1 DEF VersionsOf
    <3>3. masks[latest] = {b \in Blobbers : known[b] = latest}
      BY <3>2
    <3> QED
      BY <2>6, <3>2, <3>3 DEF enough
  <2> QED
    BY <1>0, <2>1, <2>3, <2>4, <2>5, <2>6 DEF OnCourse, Active
<1> QED
  BY <1>1, <1>2, Zenon DEF IterateDir

\* A repair at work keeps its masks, and goes on to the next phase.
LEMMA CourseWork ==
  ASSUME NEW r \in Requests, OnCourse(r), Stays, repair[r].pc \in Active,
         repair'[r].pc \in {"list", "merge", "batches", "check"},
         repair'[r].canceled = repair[r].canceled, repair'[r].error = repair[r].error,
         repair'[r].latest = repair[r].latest, repair'[r].masks = repair[r].masks
  PROVE  OnCourse(r)'
<1>1. Split(r) /\ ~repair[r].canceled /\ ~repair[r].error
  BY DEF OnCourse, Active
<1>2. Split(r)'
  BY <1>1 DEF Split, Stays
<1> QED
  BY <1>1, <1>2 DEF OnCourse

\* Without a fault no version is left out of the listings, so every mask is kept.
LEMMA CourseList ==
  ASSUME RecordInv, NEW r \in Requests, OnCourse(r), Stays, GetRefsWithVersion(r, {})
  PROVE  /\ repair'[r].error = repair[r].error
         /\ OnCourse(r)' /\ \A q \in Requests \ {r} : repair'[q] = repair[q]
<1>0. /\ DOMAIN repair = Requests /\ DOMAIN repair[r] = Fields
      /\ repair[r].pc = "list" /\ repair[r].pc \in Active
  BY DEF RecordInv, GetRefsWithVersion, Active
<1>1. Split(r)
  BY <1>0 DEF OnCourse
<1> DEFINE vs == DOMAIN repair[r].masks
           first == repair[r].res = <<>>
           left == IF first THEN vs \ {} ELSE vs
<1>2. left = vs
  OBVIOUS
<1>3. ~(repair[r].latest \notin left \/ Cardinality(left) = 1)
  BY <1>1, <1>2 DEF Split
<1>4. PICK res : repair' = [repair EXCEPT ![r].pc = "merge", ![r].res = res,
                                          ![r].masks = [v \in left |-> repair[r].masks[v]]]
  <2>1. PICK from \in [vs -> Blobbers] :
          LET page(v) == GetRefs(from[v], Kinds[repair[r].kind], IF first THEN 0 ELSE repair[r].res[v].offset)
              res == [v \in left |-> CASE first -> FirstPage(page(v))
                                       [] ~first /\ v \in {} -> repair[r].res[v]
                                       [] ~first /\ v \notin {} -> LaterPage(repair[r].res[v], page(v))]
          IN  \/ repair' = [repair EXCEPT ![r].pc = "merge", ![r].res = res,
                                          ![r].masks = [v \in left |-> repair[r].masks[v]]]
              \/ repair[r].latest \notin left \/ Cardinality(left) = 1
    BY Zenon DEF GetRefsWithVersion
  <2> DEFINE page(v) == GetRefs(from[v], Kinds[repair[r].kind], IF first THEN 0 ELSE repair[r].res[v].offset)
             res == [v \in left |-> CASE first -> FirstPage(page(v))
                                       [] ~first /\ v \in {} -> repair[r].res[v]
                                       [] ~first /\ v \notin {} -> LaterPage(repair[r].res[v], page(v))]
  <2>2. repair' = [repair EXCEPT ![r].pc = "merge", ![r].res = res,
                                 ![r].masks = [v \in left |-> repair[r].masks[v]]]
    BY <1>3, <2>1, Zenon
  <2> HIDE DEF left, res
  <2> QED
    BY <2>2, Zenon
<1> DEFINE m == [v \in left |-> repair[r].masks[v]]
           q == [repair[r] EXCEPT !.pc = "merge", !.res = res, !.masks = m]
<1> HIDE DEF left, m
<1>5. repair' = [repair EXCEPT ![r] = q]
  BY <1>4 DEF m
<1>6. /\ q.pc = "merge" /\ q.masks = m /\ q.latest = repair[r].latest
      /\ q.canceled = repair[r].canceled /\ q.error = repair[r].error
  BY <1>0 DEF Fields
<1> HIDE DEF q
<1>7. repair'[r] = q /\ \A h \in Requests \ {r} : repair'[h] = repair[h]
  BY <1>0, <1>5
<1>8. OnCourse(r)'
  <2>1. /\ DOMAIN m = DOMAIN repair[r].masks
        /\ \A v \in DOMAIN repair[r].masks : m[v] = repair[r].masks[v]
    BY <1>2 DEF m
  <2>2. Split(r)'
    <3>1. repair'[r].masks = m /\ repair'[r].latest = repair[r].latest /\ latest' = latest
      BY <1>6, <1>7 DEF Stays
    <3>2. /\ repair[r].latest = latest /\ latest \in DOMAIN m /\ Cardinality(DOMAIN m) # 1
          /\ \A b \in Blobbers : \E v \in DOMAIN m : b \in m[v]
      BY <1>1, <2>1 DEF Split
    <3>3. \A b \in Blobbers : b \in m[latest] => version'[b] = latest
      BY <1>1, <2>1 DEF Split, Stays
    <3> QED
      BY <3>1, <3>2, <3>3 DEF Split
  <2>3. ~repair[r].canceled /\ ~repair[r].error
    BY <1>0 DEF OnCourse
  <2> QED
    BY <1>6, <1>7, <2>2, <2>3 DEF OnCourse
<1> QED
  BY <1>6, <1>7, <1>8

\* The merge, the batches and the end of a round.
LEMMA CourseMerge ==
  ASSUME RecordInv, NEW r \in Requests, OnCourse(r), Stays, RepairObjects(r)
  PROVE  /\ repair'[r].error = repair[r].error
         /\ OnCourse(r)' /\ \A q \in Requests \ {r} : repair'[q] = repair[q]
<1>0. /\ DOMAIN repair = Requests /\ DOMAIN repair[r] = Fields
      /\ repair[r].pc = "merge" /\ repair[r].pc \in Active /\ ~repair[r].canceled
  BY DEF RecordInv, RepairObjects, Active, OnCourse
<1>1. PICK ops, res : repair' = [repair EXCEPT ![r].pc = "batches", ![r].ops = ops, ![r].res = res]
  <2> DEFINE top == repair[r].res[repair[r].latest]
             m(order) == Merge(Kinds[repair[r].kind], top.refs, repair[r].res, order, repair[r].masks)
             rest(order) == [i \in DOMAIN order |->
                               Rest(Kinds[repair[r].kind], top.refs, repair[r].res[order[i]],
                                    m(order).at[order[i]], repair[r].masks[order[i]])]
             ops(order) == m(order).ops \o (IF top.done THEN FlattenSeq(rest(order)) ELSE <<>>)
             res(order) == IF top.done THEN Matched(repair[r].res, m(order).at)
                           ELSE Trimmed(repair[r].res, m(order).at, repair[r].latest)
  <2>1. PICK order : repair' = [repair EXCEPT ![r].pc = "batches", ![r].ops = ops(order),
                                              ![r].res = res(order)]
    BY <1>0, Zenon DEF RepairObjects
  <2> HIDE DEF ops, res
  <2> QED
    BY <2>1, Zenon
<1> DEFINE q == [repair[r] EXCEPT !.pc = "batches", !.ops = ops, !.res = res]
<1>2. repair' = [repair EXCEPT ![r] = q]
  BY <1>1
<1>3. /\ q.pc = "batches" /\ q.masks = repair[r].masks /\ q.latest = repair[r].latest
      /\ q.canceled = repair[r].canceled /\ q.error = repair[r].error
  BY <1>0 DEF Fields
<1> HIDE DEF q
<1>4. repair'[r] = q /\ \A h \in Requests \ {r} : repair'[h] = repair[h]
  BY <1>0, <1>2
<1>5. OnCourse(r)'
  BY <1>0, <1>3, <1>4, CourseWork
<1> QED
  BY <1>3, <1>4, <1>5

\* Every upload of the next batch finds the file on a blobber of the newest version.
SourcesThere(r) ==
  LET ops == SelectSeq(NextBatch(repair[r].ops), Changes)
  IN  \A i \in DOMAIN ops : ops[i].type = "upload" => Sources(ops[i].path) # {}

\* A batch ends the repair only for want of a file to upload.
LEMMA CourseBatch ==
  ASSUME RecordInv, NEW r \in Requests, OnCourse(r), Stays, RepairOperation(r, {})
  PROVE  /\ SourcesThere(r) => repair'[r].error = repair[r].error
         /\ OnCourse(r)' /\ \A q \in Requests \ {r} : repair'[q] = repair[q]
<1>0. /\ DOMAIN repair = Requests /\ DOMAIN repair[r] = Fields
      /\ repair[r].pc = "batches" /\ repair[r].pc \in Active
  BY DEF RecordInv, RepairOperation, Active
<1>1. CASE End(r, TRUE) /\ ~SourcesThere(r)
  BY <1>1, CourseEnds
<1>2. CASE ~(End(r, TRUE) /\ ~SourcesThere(r))
  <2>1. PICK ops : repair' = [repair EXCEPT ![r].ops = ops]
    <3> DEFINE ops == SubSeq(repair[r].ops, Len(NextBatch(repair[r].ops)) + 1, Len(repair[r].ops))
    <3>1. repair' = [repair EXCEPT ![r].ops = ops]
      BY <1>2, Zenon DEF RepairOperation, SourcesThere
    <3> HIDE DEF ops
    <3> QED
      BY <3>1, Zenon
  <2> DEFINE q == [repair[r] EXCEPT !.ops = ops]
  <2>2. repair' = [repair EXCEPT ![r] = q]
    BY <2>1
  <2>3. /\ q.pc = repair[r].pc /\ q.masks = repair[r].masks /\ q.latest = repair[r].latest
        /\ q.canceled = repair[r].canceled /\ q.error = repair[r].error
    BY <1>0 DEF Fields
  <2> HIDE DEF q
  <2>4. repair'[r] = q /\ \A h \in Requests \ {r} : repair'[h] = repair[h]
    BY <1>0, <2>2
  <2>5. OnCourse(r)'
    BY <1>0, <2>3, <2>4, CourseWork
  <2> QED
    BY <2>3, <2>4, <2>5
<1> QED
  BY <1>1, <1>2

LEMMA CourseRound ==
  ASSUME RecordInv, NEW r \in Requests, OnCourse(r), Stays, RoundDone(r)
  PROVE  /\ repair'[r].error = repair[r].error
         /\ OnCourse(r)' /\ \A q \in Requests \ {r} : repair'[q] = repair[q]
<1> DEFINE complete == \A v \in DOMAIN repair[r].res : repair[r].res[v].done
           next == repair[r].kind + 1
           p == IF complete /\ next > Len(Kinds) THEN "check" ELSE "list"
           turn == complete /\ next <= Len(Kinds)
<1>0. /\ DOMAIN repair = Requests /\ DOMAIN repair[r] = Fields /\ repair[r].pc \in Active
  BY DEF RecordInv, RoundDone, Active
<1>1. repair' = [repair EXCEPT ![r].pc = p, ![r].kind = IF turn THEN next ELSE @,
                               ![r].res = IF complete THEN <<>> ELSE @]
  BY Zenon DEF RoundDone
<1>2. p \in {"check", "list"}
  OBVIOUS
<1> HIDE DEF p, turn, next, complete
<1>3. /\ repair'[r].pc = p /\ repair'[r].masks = repair[r].masks
      /\ repair'[r].latest = repair[r].latest
      /\ repair'[r].canceled = repair[r].canceled /\ repair'[r].error = repair[r].error
      /\ \A q \in Requests \ {r} : repair'[q] = repair[q]
  BY <1>0, <1>1 DEF Fields
<1>4. OnCourse(r)'
  BY <1>0, <1>2, <1>3, CourseWork
<1> QED
  BY <1>3, <1>4

\* The version has not changed, and the final commit is for all blobbers that did not have it.
LEMMA CourseCheck ==
  ASSUME RecordInv, NEW r \in Requests, OnCourse(r), Stays, CheckVersion(r)
  PROVE  /\ repair'[r].error = repair[r].error
         /\ OnCourse(r)' /\ \A q \in Requests \ {r} : repair'[q] = repair[q]
<1>0. /\ DOMAIN repair = Requests /\ DOMAIN repair[r] = Fields
      /\ repair[r].pc = "check" /\ repair[r].pc \in Active
  BY DEF RecordInv, CheckVersion, Active
<1>1. Split(r) /\ ~repair[r].canceled /\ ~repair[r].error
  BY <1>0 DEF OnCourse
<1> DEFINE todo == UNION {repair[r].masks[v] : v \in DOMAIN repair[r].masks \ {repair[r].latest}}
<1>2. repair' = [repair EXCEPT ![r].pc = "final", ![r].todo = todo]
  <2>1. latest' = repair[r].latest
    BY <1>1 DEF Split, Stays
  <2> QED
    BY <2>1, Zenon DEF CheckVersion
<1>3. \A b \in Blobbers \ todo : version[b] = latest
  <2> SUFFICES ASSUME NEW b \in Blobbers, b \notin todo PROVE version[b] = latest
    OBVIOUS
  <2>1. PICK v \in DOMAIN repair[r].masks : b \in repair[r].masks[v]
    BY <1>1 DEF Split
  <2>2. v = latest
    BY <2>1, <1>1 DEF Split
  <2> QED
    BY <2>1, <2>2, <1>1 DEF Split
<1> HIDE DEF todo
<1> DEFINE q == [repair[r] EXCEPT !.pc = "final", !.todo = todo]
<1>4. repair' = [repair EXCEPT ![r] = q]
  BY <1>2
<1>5. /\ q.pc = "final" /\ q.todo = todo /\ q.masks = repair[r].masks /\ q.latest = repair[r].latest
      /\ q.canceled = repair[r].canceled /\ q.error = repair[r].error
  BY <1>0 DEF Fields
<1> HIDE DEF q
<1>6. repair'[r] = q /\ \A h \in Requests \ {r} : repair'[h] = repair[h]
  BY <1>0, <1>4
<1>7. Split(r)'
  BY <1>1, <1>5, <1>6 DEF Split, Stays
<1>8. latest' = latest /\ \A b \in Blobbers \ todo : version'[b] = latest
  BY <1>3 DEF Stays
<1>9. OnCourse(r)'
  BY <1>1, <1>5, <1>6, <1>7, <1>8 DEF OnCourse
<1> QED
  BY <1>5, <1>6, <1>9

\* Each final commit gives one more blobber the newest version.
LEMMA CourseFinal ==
  ASSUME IndInv, LatestInv, NEW r \in Requests, OnCourse(r), Stays, LatestInv',
         NEW b \in Blobbers, FinalCommit(r, b)
  PROVE  OnCourse(r)' /\ \A q \in Requests \ {r} : repair'[q] = repair[q]
<1>0. /\ DOMAIN repair = Requests /\ DOMAIN repair[r] = Fields
      /\ repair[r].pc = "final" /\ repair[r].pc \in Active
  BY DEF IndInv, RecordInv, FinalCommit, Active
<1>1. Split(r) /\ ~repair[r].canceled /\ ~repair[r].error
  BY <1>0 DEF OnCourse
<1>2. version'[b] = latest
  <2>1. /\ version \in [Blobbers -> 1 .. Len(history)] /\ Len(history) \in Nat
        /\ latest \in 1 .. Len(history)
    BY DEF IndInv, VersionInv
  <2>2. version'[b] = Max({version[b], latest})
    BY <1>1, <2>1 DEF FinalCommit, Split
  <2>3. Max({version[b], latest}) \in {version[b], latest} /\ latest <= Max({version[b], latest})
    BY <2>1, MaxOf
  <2>4. version'[b] <= latest'  /\ latest' = latest
    BY DEF LatestInv, Stays
  <2>5. version'[b] \in Nat /\ latest \in Nat
    BY <2>1, <2>2, <2>3
  <2> QED
    BY <2>2, <2>3, <2>4, <2>5
<1>a. ~(repair[r].error \/ version[b] > repair[r].latest)
  <2>1. repair[r].latest = latest /\ version[b] <= latest
    BY <1>1 DEF Split, LatestInv
  <2>2. version[b] \in Int /\ latest \in Int
    BY DEF IndInv, VersionInv
  <2>3. ~(version[b] > repair[r].latest)
    BY <2>1, <2>2
  <2> QED
    BY <1>1, <2>3
<1> DEFINE ahead == version[b] > repair[r].latest
           q == [repair[r] EXCEPT !.todo = repair[r].todo \ {b}, !.error = repair[r].error \/ ahead]
<1>3. repair' = [repair EXCEPT ![r] = q]
  BY DEF FinalCommit
<1>4. /\ q.pc = "final" /\ q.todo = repair[r].todo \ {b} /\ q.masks = repair[r].masks
      /\ q.latest = repair[r].latest
      /\ q.canceled = repair[r].canceled /\ ~q.error
  BY <1>0, <1>a DEF Fields
<1> HIDE DEF q
<1>5. repair'[r] = q /\ \A h \in Requests \ {r} : repair'[h] = repair[h]
  BY <1>0, <1>3
<1>6. Split(r)'
  BY <1>1, <1>4, <1>5 DEF Split, Stays
<1>7. latest' = latest /\ \A c \in Blobbers \ repair'[r].todo : version'[c] = latest
  BY <1>0, <1>2, <1>4, <1>5 DEF OnCourse, Stays
<1>8. OnCourse(r)'
  BY <1>1, <1>4, <1>5, <1>6, <1>7 DEF OnCourse
<1> QED
  BY <1>4, <1>5, <1>8

LEMMA CourseFinish ==
  ASSUME RecordInv, NEW r \in Requests, OnCourse(r), Stays, Finish(r)
  PROVE  repair'[r].error = repair[r].error /\ OnCourse(r)' /\ \A q \in Requests \ {r} : repair'[q] = repair[q]
<1>1. repair[r].pc = "final" /\ repair[r].todo = {} /\ End(r, repair[r].error)
  BY DEF Finish
<1>2. ~repair[r].error /\ \A b \in Blobbers : version[b] = latest
  BY <1>1 DEF OnCourse
<1> QED
  BY <1>1, <1>2, CourseEnds

\* A step without a fault keeps every repair on its course.
LEMMA CourseStep ==
  ASSUME IndInv, CourseInv, [Next]_vars
  PROVE  CourseInv'
<1> SUFFICES ASSUME budget' = MaxFaults PROVE LatestInv' /\ \A q \in Requests : OnCourse(q)'
  BY DEF CourseInv
<1>1. LatestInv /\ \A q \in Requests : OnCourse(q)
  BY CleanStep DEF CourseInv
<1>2. CASE UNCHANGED vars
  <2>1. UNCHANGED <<version, known, latest, repair>>
    BY <1>2 DEF vars
  <2>2. LatestInv'
    BY <1>1, <2>1 DEF LatestInv
  <2>3. \A q \in Requests : Keeps(q) /\ Stays
    BY <2>1 DEF Keeps, Stays
  <2> QED
    BY <1>1, <2>2, <2>3, CourseKept
<1>3. ASSUME NEW r \in Requests, StartRepair(r) \/ Step(r)
      PROVE  LatestInv' /\ \A q \in Requests : OnCourse(q)'
  <2>1. LatestInv' /\ Stays
    BY <1>1, <1>3, LatestKept
  <2>2. OnCourse(r) /\ RecordInv
    BY <1>1 DEF IndInv
  <2>3. OnCourse(r)' /\ \A q \in Requests \ {r} : repair'[q] = repair[q]
    <3>1. CASE StartRepair(r) \/ PutRequest(r) \/ RecordRequest(r) \/ DispatchWork(r) \/ ProcessRepair(r)
      BY <1>1, <2>1, <2>2, <3>1, CourseBefore
    <3>2. CASE IterateDir(r)
      BY <1>1, <2>1, <2>2, <3>2, CourseIterate
    <3>3. CASE GetRefsWithVersion(r, {})
      BY <2>1, <2>2, <3>3, CourseList
    <3>4. CASE RepairObjects(r)
      BY <2>1, <2>2, <3>4, CourseMerge
    <3>5. CASE RepairOperation(r, {})
      BY <2>1, <2>2, <3>5, CourseBatch
    <3>6. CASE RoundDone(r) \/ CheckVersion(r) \/ Finish(r)
      BY <2>1, <2>2, <3>6, CourseRound, CourseCheck, CourseFinish
    <3>7. ASSUME NEW b \in Blobbers, FinalCommit(r, b)
          PROVE  OnCourse(r)' /\ \A q \in Requests \ {r} : repair'[q] = repair[q]
      BY <1>1, <2>1, <2>2, <3>7, CourseFinal
    <3> QED
      BY <1>3, <3>1, <3>2, <3>3, <3>4, <3>5, <3>6, <3>7 DEF Step
  <2> QED
    BY <1>1, <2>1, <2>3, CourseOne
<1> QED
  BY <1>2, <1>3, CleanStep

\* At first the client knows the versions of the blobbers.
LEMMA CourseInit == Init => CourseInv
<1> SUFFICES ASSUME Init PROVE LatestInv /\ \A r \in Requests : OnCourse(r)
  BY DEF CourseInv
<1>1. PICK c \in Cases :
        /\ version = c.version /\ known = c.version /\ latest = Max({c.version[b] : b \in Blobbers})
        /\ repair = [r \in Requests |->
                      IF r <= c.requests THEN Request ELSE [Request EXCEPT !.pc = "dead"]]
  BY DEF Init
<1>2. \A r \in Requests : repair[r].pc \in {"none", "dead"} /\ ~repair[r].canceled /\ ~repair[r].error
  BY <1>1 DEF Request
<1>3. LatestInv
  <2> DEFINE S == {version[b] : b \in Blobbers}
  <2>1. version \in [Blobbers -> 1 .. Len(history)] /\ Len(history) \in Nat /\ Blobbers # {}
    BY InitIndInv, ShardsAssumption, FS_EmptySet DEF IndInv, VersionInv
  <2>2. S \in SUBSET (1 .. Len(history)) /\ S # {}
    BY <2>1
  <2>3. latest = Max(S)
    BY <1>1
  <2> HIDE DEF S
  <2>4. latest \in S /\ \A y \in S : y <= latest
    BY <2>1, <2>2, <2>3, MaxOf
  <2>5. \A b \in Blobbers : version[b] <= version[b]
    BY <2>1
  <2> QED
    BY <1>1, <2>4, <2>5 DEF LatestInv, S
<1> QED
  BY <1>2, <1>3 DEF OnCourse, Active

LEMMA CourseAlways == Spec => [](IndInv /\ CourseInv)
<1>1. IndInv /\ CourseInv /\ [Next]_vars => CourseInv'
  BY CourseStep
<1> QED
  BY <1>1, CourseInit, IndInvAlways, PTL DEF Spec

\* A repair that met no fault and reports no error has brought every blobber to the newest
\* version (iterateDir and its final commit): no page, kind of object or overlapping repair
\* makes it leave a blobber out.
THEOREM VersionsTakenHolds == Spec => []VersionsTaken
<1>1. IndInv /\ CourseInv => VersionsTaken
  <2> SUFFICES ASSUME IndInv, CourseInv, budget = MaxFaults, NEW r \in Requests,
                      repair[r].pc = "ended", ~repair[r].error, NEW b \in Blobbers
               PROVE  version[b] = Newest
    BY DEF VersionsTaken
  <2>1. LatestInv /\ OnCourse(r) /\ VersionInv
    BY DEF CourseInv, IndInv
  <2> QED
    BY <2>1, NewestIsLatest DEF OnCourse
<1> QED
  BY <1>1, CourseAlways, PTL
=============================================================================
