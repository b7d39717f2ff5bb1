--------------------------- MODULE MultiOperation ---------------------------
(***************************************************************************)
(* MultiOperation.Process (zboxcore/sdk/multi_operation_worker.go) with    *)
(* the commit requests of commitworker.go and the status check and the     *)
(* rollbacks of rollback.go: a batch of operations, processed by the       *)
(* blobbers of its mask, is committed under the allocation's lock as the   *)
(* next version, and rolled back where it was committed when too few       *)
(* blobbers took it.                                                       *)
(*                                                                         *)
(* Each connection runs one batch; a probe is a client that only calls     *)
(* InitAllocation, whose CheckAllocStatus takes no lock.  The lock is the  *)
(* exclusive one that WriteMarkerMutex shows, or the commit mutex of the   *)
(* client in single client mode.  The blobber's store is outside the       *)
(* repository: it takes a commit of the version after its own, and a       *)
(* rollback to the version before.                                         *)
(***************************************************************************)
EXTENDS VersionMarkers, Sequences

CONSTANTS
  Conns,         \* connections, each with a batch to commit
  Probes,        \* clients that initialise the allocation
  NoConn,        \* nobody holds the lock
  Thresh,        \* mo.consensusThresh
  Modes,         \* the values of singleClientMode
  MaxOps,        \* bound: the operations of a batch
  Faults,        \* what may go wrong; see FaultKinds
  MaxFaults      \* bound: how many times something goes wrong

FaultKinds == {"op", "lock", "unreachable", "refresh", "refuse", "lost", "late",
               "rollback", "crash"}

ASSUME ProcessesAssumption ==
  /\ NoConn \notin Conns \cup Probes /\ "client" \notin Conns \cup Probes
  /\ Conns \cap Probes = {}
ASSUME ModeAssumption == Modes \subseteq BOOLEAN
ASSUME BoundsAssumption ==
  /\ Thresh \in Nat /\ Thresh >= DataShards   \* getConsensuses, SetConsensusThreshold
  /\ MaxOps \in Nat \ {0} /\ MaxFaults \in Nat /\ Faults \subseteq FaultKinds
  /\ IsFiniteSet(Conns) /\ Cardinality(Conns) <= MaxVersion

Checkers == Conns \cup Probes

VARIABLES
  singleClientMode,   \* one client makes all the batches
  log,                \* external: the batches each blobber has committed
  inflight,           \* external: commit requests a blobber may still execute
  owner,              \* who holds the lock of the allocation
  pc,                 \* where Process, or the status check of a probe, is
  todo,               \* blobbers whose goroutine has not finished
  result,             \* what Process returned
  doubt,              \* history: blobbers that answered a batch with an error
  budget,             \* how many faults may still happen
  checkStatus,        \* checkStatus of each object
  rollbackMask,       \* commits that were acknowledged
  mask,               \* mo.operationMask
  marker,             \* the version markers a status check has read
  errCnt,             \* rollbacks of the status check that failed
  ops,                \* operations of the batch that have been processed
  changeCount,        \* those of them that changed something
  blobberVersion,     \* Blobbers[i].AllocationVersion of each object
  allocationVersion   \* allocationVersion of each object

storeVars == <<log, inflight>>
objVars == <<blobberVersion, allocationVersion, checkStatus>>
checkVars == <<marker, errCnt>>
faultVars == <<doubt, budget>>
opVars == <<mask, ops, changeCount>>
vars == <<singleClientMode, storeVars, owner, pc, opVars, objVars, checkVars, todo, rollbackMask,
          result, faultVars>>

\* The Allocation objects: one for each client.
Objs == Checkers \cup {"client"}
Obj(t) == IF singleClientMode /\ t \in Conns THEN "client" ELSE t

Statuses == {"Commit", "Repair", "Broken", "Rollback"}
Phases == {"idle", "ops", "lock", "read", "rolling", "commit", "hang", "undo", "done"} \cup Statuses
Results == {"none", "nil", "error", "repair", "retry", "completed", "crashed"}

TypeOK ==
  /\ singleClientMode \in Modes
  /\ \A b \in Blobbers : log[b] \in Seq(Conns) /\ Len(log[b]) <= MaxVersion
  /\ inflight \subseteq Conns \X Blobbers \X Versions
  /\ owner \in Conns \cup {NoConn}
  /\ pc \in [Checkers -> Phases]
  /\ mask \in [Conns -> SUBSET Blobbers]
  /\ ops \in [Conns -> 0 .. MaxOps]
  /\ \A c \in Conns : changeCount[c] \in 0 .. ops[c]
  /\ blobberVersion \in [Objs -> [Blobbers -> Versions]]
  /\ allocationVersion \in [Objs -> Versions]
  /\ checkStatus \in [Objs -> BOOLEAN]
  /\ marker \in [Checkers -> [Blobbers -> Markers]]
  /\ todo \in [Checkers -> SUBSET Blobbers]
  /\ errCnt \in [Checkers -> 0 .. Cardinality(Blobbers)]
  /\ rollbackMask \in [Conns -> SUBSET Blobbers]
  /\ result \in [Conns -> Results]
  /\ doubt \in [Conns -> SUBSET Blobbers]
  /\ budget \in 0 .. MaxFaults

\* A new allocation: no blobber has a version marker.
Init ==
  /\ singleClientMode \in Modes
  /\ log = [b \in Blobbers |-> <<>>]
  /\ inflight = {}
  /\ owner = NoConn
  /\ pc = [t \in Checkers |-> "idle"]
  /\ mask = [c \in Conns |-> {}]
  /\ ops = [c \in Conns |-> 0]
  /\ changeCount = [c \in Conns |-> 0]
  /\ blobberVersion = [o \in Objs |-> [b \in Blobbers |-> 0]]
  /\ allocationVersion = [o \in Objs |-> 0]
  /\ checkStatus = [o \in Objs |-> FALSE]
  /\ marker = [t \in Checkers |-> [b \in Blobbers |-> NoMarker]]
  /\ todo = [t \in Checkers |-> {}]
  /\ errCnt = [t \in Checkers |-> 0]
  /\ rollbackMask = [c \in Conns |-> {}]
  /\ result = [c \in Conns |-> "none"]
  /\ doubt = [c \in Conns |-> {}]
  /\ budget = MaxFaults

\* The environment spends one of its faults.
Fault(kind) ==
  /\ kind \in Faults
  /\ budget > 0
  /\ budget' = budget - 1

\* External: the version marker of a blobber (one without commits has none, or
\* one of version 0), a commit and a rollback.
MarkersOf(b) == IF log[b] = <<>> THEN {NoMarker, 0} ELSE {Len(log[b])}
Committed(b, c) == [log EXCEPT ![b] = Append(@, c)]
RolledBack(b) == [log EXCEPT ![b] = SubSeq(@, 1, Len(@) - 1)]

-----------------------------------------------------------------------------
(* CheckAllocStatus, by a connection that holds the lock or by a probe.    *)

\* InitAllocation of another client.
StartProbe(p) ==
  /\ pc[p] = "idle"
  /\ pc' = [pc EXCEPT ![p] = "read"]
  /\ todo' = [todo EXCEPT ![p] = Blobbers]
  /\ UNCHANGED <<singleClientMode, storeVars, owner, opVars, objVars, checkVars, rollbackMask,
                 result, faultVars>>

\* GetWritemarker, and the version of the blobber when it has a marker.
ReadMarker(t, b) ==
  /\ pc[t] = "read"
  /\ b \in todo[t]
  /\ \/ \E m \in MarkersOf(b) :
          /\ marker' = [marker EXCEPT ![t][b] = m]
          /\ blobberVersion' = [blobberVersion EXCEPT ![Obj(t)][b] =
                                  IF m = NoMarker THEN @ ELSE m]
          /\ UNCHANGED budget
     \/ /\ Fault("unreachable")
        /\ marker' = [marker EXCEPT ![t][b] = Unreachable]
        /\ UNCHANGED blobberVersion
  /\ todo' = [todo EXCEPT ![t] = @ \ {b}]
  /\ UNCHANGED <<singleClientMode, storeVars, owner, pc, opVars,
                 allocationVersion, checkStatus,
                 errCnt, rollbackMask, result, doubt>>

\* The markers are read: the decision, see VersionMarkers.
Decide(t) ==
  /\ pc[t] = "read"
  /\ todo[t] = {}
  /\ \/ /\ TooManyErrors(marker[t])
        /\ pc' = [pc EXCEPT ![t] = "Broken"]
        /\ UNCHANGED <<allocationVersion, todo>>
     \/ /\ ~TooManyErrors(marker[t])
        /\ MayCommit(marker[t])
        /\ pc' = [pc EXCEPT ![t] = "Commit"]
        /\ allocationVersion' = [allocationVersion EXCEPT ![Obj(t)] =
                                   IF Seen(marker[t]) = {} THEN @ ELSE Highest(marker[t])]
        /\ UNCHANGED todo
     \/ /\ ~TooManyErrors(marker[t])
        /\ MayRollback(marker[t])
        /\ pc' = [pc EXCEPT ![t] = "rolling"]
        /\ todo' = [todo EXCEPT ![t] = At(marker[t], Highest(marker[t]))]
        /\ UNCHANGED allocationVersion
  /\ UNCHANGED <<singleClientMode, storeVars, owner, opVars, blobberVersion,
                 checkStatus, checkVars,
                 rollbackMask, result, faultVars>>

\* A variant that counts every try of a rollback that fails.
CountEveryTry(t, b) ==
  /\ pc[t] = "rolling"
  /\ b \in todo[t]
  /\ errCnt' = [errCnt EXCEPT ![t] = @ + 1]
  /\ UNCHANGED <<singleClientMode, storeVars, owner, pc, opVars, objVars,
                 marker, todo, rollbackMask,
                 result, faultVars>>

\* processRollback to the version before the marker that was read: the blobber
\* refuses when it is no longer at that version, and a failed request may have
\* been executed.
RollbackLatest(t, b) ==
  /\ pc[t] = "rolling"
  /\ b \in todo[t]
  /\ todo' = [todo EXCEPT ![t] = @ \ {b}]
  /\ LET takes == log[b] # <<>> /\ Len(log[b]) = marker[t][b]
     IN  \/ /\ takes
            /\ log' = RolledBack(b)
            /\ UNCHANGED <<errCnt, budget>>
         \/ /\ ~takes
            /\ errCnt' = [errCnt EXCEPT ![t] = @ + 1]
            /\ UNCHANGED <<log, budget>>
         \/ /\ takes
            /\ Fault("rollback")
            /\ errCnt' = [errCnt EXCEPT ![t] = @ + 1]
            /\ log' \in {log, RolledBack(b)}
  /\ UNCHANGED <<singleClientMode, inflight, owner, pc, opVars, objVars, marker, rollbackMask,
                 result, doubt>>

RollbacksDone(t) ==
  /\ pc[t] = "rolling"
  /\ todo[t] = {}
  /\ pc' = [pc EXCEPT ![t] = RollbackStatus(marker[t], errCnt[t])]
  /\ UNCHANGED <<singleClientMode, storeVars, owner, opVars, objVars,
                 checkVars, todo, rollbackMask,
                 result, faultVars>>

-----------------------------------------------------------------------------
(* Process.                                                                *)

\* Process returns r; what it holds of the lock is released.
Return(c, r) ==
  /\ pc' = [pc EXCEPT ![c] = "done"]
  /\ result' = [result EXCEPT ![c] = r]
  /\ owner' = IF owner = c THEN NoConn ELSE owner

\* DoMultiOperation: the blobbers a connection could be made to.
CreateConnections(c) ==
  /\ pc[c] = "idle"
  /\ \E m \in SUBSET Blobbers :
       /\ mask' = [mask EXCEPT ![c] = m]
       /\ \/ /\ Cardinality(m) < Thresh
             /\ Return(c, "error")
          \/ /\ Cardinality(m) >= Thresh
             /\ pc' = [pc EXCEPT ![c] = "ops"]
             /\ UNCHANGED <<result, owner>>
  /\ UNCHANGED <<singleClientMode, storeVars, ops, changeCount, objVars, checkVars, todo,
                 rollbackMask, faultVars>>

\* One operation of the batch returns: with the blobbers it succeeded on, which
\* are at least the threshold, or with errNoChange or errFileDeleted.
ProcessOperation(c) ==
  /\ pc[c] = "ops"
  /\ ops[c] < MaxOps
  /\ ops' = [ops EXCEPT ![c] = @ + 1]
  /\ \/ /\ \E m \in SUBSET Blobbers : /\ Cardinality(m) >= Thresh
                                      /\ mask' = [mask EXCEPT ![c] = @ \cap m]
        /\ changeCount' = [changeCount EXCEPT ![c] = @ + 1]
     \/ UNCHANGED <<mask, changeCount>>
  /\ UNCHANGED <<singleClientMode, storeVars, owner, pc, objVars, checkVars,
                 todo, rollbackMask,
                 result, faultVars>>

\* Any other error of an operation ends the context and is returned.
OperationsFailed(c) ==
  /\ pc[c] = "ops"
  /\ Fault("op")
  /\ Return(c, "error")
  /\ UNCHANGED <<singleClientMode, storeVars, opVars, objVars, checkVars, todo,
                 rollbackMask, doubt>>

\* swg.Wait: a mask below the threshold is not an error, because every error in
\* errsSlice has also ended the context.
OperationsDone(c) ==
  /\ pc[c] = "ops"
  /\ ops[c] > 0
  /\ \/ /\ Cardinality(mask[c]) < Thresh \/ changeCount[c] = 0
        /\ Return(c, "nil")
     \/ /\ Cardinality(mask[c]) >= Thresh /\ changeCount[c] > 0
        /\ pc' = [pc EXCEPT ![c] = "lock"]
        /\ UNCHANGED <<result, owner>>
  /\ UNCHANGED <<singleClientMode, storeVars, opVars, objVars, checkVars, todo,
                 rollbackMask, faultVars>>

\* Lock: the write-marker lock drops the blobbers it could not ask from the
\* mask (one of the locks it counts may be a lead blobber outside the mask);
\* then the status check, unless an earlier batch made it unnecessary.
LockTaken(c) ==
  /\ pc[c] = "lock"
  /\ owner = NoConn
  /\ owner' = c
  /\ \E m \in SUBSET mask[c] :
       /\ IF singleClientMode THEN m = mask[c] ELSE Cardinality(m) + 1 >= Thresh
       /\ mask' = [mask EXCEPT ![c] = m]
  /\ IF checkStatus[Obj(c)]
       THEN pc' = [pc EXCEPT ![c] = "Commit"] /\ UNCHANGED todo
       ELSE /\ pc' = [pc EXCEPT ![c] = "read"]
            /\ todo' = [todo EXCEPT ![c] = Blobbers]
  /\ UNCHANGED <<singleClientMode, storeVars, ops, changeCount, objVars,
                 checkVars, rollbackMask, result, faultVars>>

LockFailed(c) ==
  /\ pc[c] = "lock"
  /\ ~singleClientMode
  /\ Fault("lock")
  /\ Return(c, "error")
  /\ UNCHANGED <<singleClientMode, storeVars, opVars, objVars, checkVars, todo,
                 rollbackMask, doubt>>

\* A variant that forgets to unlock when the status check fails.
ReturnLocked(c) ==
  /\ pc[c] \in {"Broken", "Repair", "Rollback"}
  /\ c \in Conns
  /\ pc' = [pc EXCEPT ![c] = "done"]
  /\ result' = [result EXCEPT ![c] = "error"]
  /\ UNCHANGED <<singleClientMode, storeVars, owner, opVars, objVars,
                 checkVars, todo, rollbackMask, faultVars>>

\* The status check did not say Commit: unlock and return its error.
StatusReturned(c) ==
  /\ c \in Conns
  /\ \/ pc[c] = "Broken" /\ Return(c, "error") /\ UNCHANGED checkStatus
     \/ pc[c] = "Repair" /\ Return(c, "repair") /\ UNCHANGED checkStatus
     \/ /\ pc[c] = "Rollback"
        /\ Return(c, "retry")
        /\ checkStatus' = [checkStatus EXCEPT ![Obj(c)] = @ \/ singleClientMode]
  /\ UNCHANGED <<singleClientMode, storeVars, opVars, blobberVersion,
                 allocationVersion, checkVars,
                 todo, rollbackMask, faultVars>>

\* A variant that commits to the blobbers of every version.
CommitAnyVersion(c) ==
  /\ c \in Conns
  /\ pc[c] = "Commit"
  /\ Cardinality(mask[c]) >= Thresh
  /\ pc' = [pc EXCEPT ![c] = "commit"]
  /\ todo' = [todo EXCEPT ![c] = mask[c]]
  /\ UNCHANGED <<singleClientMode, storeVars, owner, opVars, objVars,
                 checkVars, rollbackMask, result, faultVars>>

\* Only the blobbers at the allocation's version get a commit request; with
\* too few of them Process fails.  The refresh of the lock shares the mask: a
\* blobber it drops between wg.Add and the loop gets no request, and wg.Wait
\* never returns.
SendCommits(c) ==
  /\ c \in Conns
  /\ pc[c] = "Commit"
  /\ checkStatus' = [checkStatus EXCEPT ![Obj(c)] = @ \/ singleClientMode]
  /\ LET active == {b \in mask[c] : blobberVersion[Obj(c)][b] = allocationVersion[Obj(c)]}
     IN  /\ mask' = [mask EXCEPT ![c] = active]
         /\ \/ /\ Cardinality(active) < Thresh
               /\ Return(c, "error")
               /\ UNCHANGED <<todo, budget>>
            \/ /\ Cardinality(active) >= Thresh
               /\ \/ /\ pc' = [pc EXCEPT ![c] = "commit"]
                     /\ todo' = [todo EXCEPT ![c] = active]
                     /\ UNCHANGED budget
                  \/ /\ ~singleClientMode
                     /\ Fault("refresh")
                     /\ pc' = [pc EXCEPT ![c] = "hang"]
                     /\ \E b \in active : todo' = [todo EXCEPT ![c] = active \ {b}]
               /\ UNCHANGED <<owner, result>>
  /\ UNCHANGED <<singleClientMode, storeVars, ops, changeCount, blobberVersion,
                 allocationVersion, checkVars,
                 rollbackMask, doubt>>

\* commitBlobber: the request is executed and acknowledged, or it is not
\* executed, or it is executed without the client learning of it, now or when
\* the client has gone on.  A request that timed out is not tried again.
CommitBlobber(c, b) ==
  /\ pc[c] \in {"commit", "hang"}
  /\ b \in todo[c]
  /\ todo' = [todo EXCEPT ![c] = @ \ {b}]
  /\ LET version == blobberVersion[Obj(c)][b] + 1
         takes == version = Len(log[b]) + 1
     IN  \/ /\ takes
            /\ log' = Committed(b, c)
            /\ rollbackMask' = [rollbackMask EXCEPT ![c] = @ \cup {b}]
            /\ UNCHANGED <<inflight, faultVars>>
         \/ /\ ~takes
            /\ UNCHANGED <<storeVars, rollbackMask, faultVars>>
         \/ /\ \/ Fault("refuse") /\ UNCHANGED storeVars
               \/ /\ Fault("lost") /\ takes
                  /\ log' = Committed(b, c) /\ UNCHANGED inflight
               \/ /\ Fault("late") /\ takes
                  /\ inflight' = inflight \cup {<<c, b, version>>} /\ UNCHANGED log
            /\ doubt' = [doubt EXCEPT ![c] = @ \cup {b}]
            /\ UNCHANGED rollbackMask
  /\ UNCHANGED <<singleClientMode, owner, pc, opVars, objVars, checkVars, result>>

\* A variant that reports success before it looks at the consensus.
CompletedWithoutConsensus(c) ==
  /\ pc[c] = "commit"
  /\ todo[c] = {}
  /\ Return(c, "completed")
  /\ UNCHANGED <<singleClientMode, storeVars, opVars, objVars, checkVars, todo,
                 rollbackMask, faultVars>>

\* A variant that does not roll back what was committed.
NoUndo(c) ==
  /\ pc[c] = "commit"
  /\ todo[c] = {}
  /\ Return(c, IF Cardinality(rollbackMask[c]) >= Thresh THEN "completed" ELSE "error")
  /\ UNCHANGED <<singleClientMode, storeVars, opVars, objVars, checkVars, todo,
                 rollbackMask, faultVars>>

\* wg.Wait after the commits: with the consensus the batch is completed, and in
\* single client mode the client counts the versions up; without it the
\* blobbers that acknowledged are rolled back.
CommitsDone(c) ==
  /\ pc[c] = "commit"
  /\ todo[c] = {}
  /\ \/ /\ Cardinality(rollbackMask[c]) >= Thresh
        /\ Return(c, "completed")
        /\ IF singleClientMode
             THEN /\ blobberVersion' = [blobberVersion EXCEPT ![Obj(c)] =
                       [b \in Blobbers |-> IF b \in rollbackMask[c] THEN @[b] + 1 ELSE @[b]]]
                  /\ allocationVersion' = [allocationVersion EXCEPT ![Obj(c)] = @ + 1]
             ELSE UNCHANGED <<blobberVersion, allocationVersion>>
        /\ UNCHANGED todo
     \/ /\ Cardinality(rollbackMask[c]) < Thresh
        /\ rollbackMask[c] # {}
        /\ pc' = [pc EXCEPT ![c] = "undo"]
        /\ todo' = [todo EXCEPT ![c] = rollbackMask[c]]
        /\ UNCHANGED <<owner, result, blobberVersion, allocationVersion>>
     \/ /\ Cardinality(rollbackMask[c]) < Thresh
        /\ rollbackMask[c] = {}
        /\ Return(c, "error")
        /\ UNCHANGED <<todo, blobberVersion, allocationVersion>>
  /\ UNCHANGED <<singleClientMode, storeVars, opVars, checkStatus, checkVars,
                 rollbackMask, faultVars>>

\* RollbackWithMask at one blobber: it reads the marker again and rolls back
\* whatever version that is; its failures are only logged.
UndoBlobber(c, b) ==
  /\ pc[c] = "undo"
  /\ b \in todo[c]
  /\ todo' = [todo EXCEPT ![c] = @ \ {b}]
  /\ \/ /\ log[b] # <<>>
        /\ log' = RolledBack(b)
        /\ UNCHANGED faultVars
     \/ /\ log[b] = <<>>
        /\ UNCHANGED <<log, faultVars>>
     \/ /\ \/ Fault("unreachable") /\ UNCHANGED log
           \/ Fault("rollback") /\ log[b] # <<>> /\ log' \in {log, RolledBack(b)}
        /\ doubt' = [doubt EXCEPT ![c] = @ \cup {b}]
  /\ UNCHANGED <<singleClientMode, inflight, owner, pc, opVars, objVars,
                 checkVars, rollbackMask, result>>

UndoDone(c) ==
  /\ pc[c] = "undo"
  /\ todo[c] = {}
  /\ Return(c, "error")
  /\ UNCHANGED <<singleClientMode, storeVars, opVars, objVars, checkVars, todo,
                 rollbackMask, faultVars>>

-----------------------------------------------------------------------------
(* The environment.                                                        *)

\* The client of a connection dies; its lock lapses later.
Crash(c) ==
  /\ c \in Conns
  /\ ~singleClientMode
  /\ pc[c] \notin {"idle", "done"}
  /\ Fault("crash")
  /\ pc' = [pc EXCEPT ![c] = "done"]
  /\ result' = [result EXCEPT ![c] = "crashed"]
  /\ todo' = [todo EXCEPT ![c] = {}]
  /\ UNCHANGED <<singleClientMode, storeVars, owner, opVars, objVars,
                 checkVars, rollbackMask, doubt>>

LockLapses ==
  /\ ~singleClientMode
  /\ owner # NoConn
  /\ pc[owner] = "done"
  /\ owner' = NoConn
  /\ UNCHANGED <<singleClientMode, storeVars, pc, opVars, objVars, checkVars,
                 todo, rollbackMask,
                 result, faultVars>>

\* External: a request whose client has given up is executed.
LateCommit ==
  \E r \in inflight :
    /\ inflight' = inflight \ {r}
    /\ log' = IF Len(log[r[2]]) + 1 = r[3] THEN Committed(r[2], r[1]) ELSE log
    /\ UNCHANGED <<singleClientMode, owner, pc, opVars, objVars, checkVars, todo, rollbackMask,
                   result, faultVars>>

CheckSteps(t) ==
  \/ Decide(t) \/ RollbacksDone(t)
  \/ \E b \in Blobbers : ReadMarker(t, b) \/ RollbackLatest(t, b)

ProcessSteps(c) ==
  \/ ProcessOperation(c) \/ OperationsDone(c)
  \/ LockTaken(c) \/ LockFailed(c) \/ StatusReturned(c) \/ SendCommits(c)
  \/ CommitsDone(c) \/ UndoDone(c)
  \/ \E b \in Blobbers : CommitBlobber(c, b) \/ UndoBlobber(c, b)

Next ==
  \/ \E c \in Conns : \/ CreateConnections(c) \/ OperationsFailed(c)
                      \/ ProcessSteps(c) \/ Crash(c)
  \/ \E t \in Checkers : CheckSteps(t)
  \/ \E p \in Probes : StartProbe(p)
  \/ LockLapses
  \/ LateCommit

Spec == Init /\ [][Next]_vars

\* Requests are answered or time out, the lock of a dead client lapses, and
\* the lock is given to everyone who keeps asking for it.
Fairness ==
  /\ \A c \in Conns : WF_vars(ProcessSteps(c)) /\ SF_vars(LockTaken(c))
  /\ \A t \in Checkers : WF_vars(CheckSteps(t))
  /\ WF_vars(LockLapses)

FairSpec == Spec /\ Fairness

-----------------------------------------------------------------------------
(* What a batch promises.                                                  *)

\* The blobbers that have the batch.
Holding(c) == {b \in Blobbers : \E i \in 1 .. Len(log[b]) : log[b][i] = c}

\* A batch reported completed is on a threshold of blobbers, and stays there:
\* no later batch, status check or late request takes it away.
AckedKept ==
  \A c \in Conns : result[c] = "completed" => Cardinality(Holding(c)) >= Thresh

\* Two blobbers at the same version have the same batches: what CheckAllocStatus
\* takes for granted when it compares versions only.
VersionAgreement ==
  \A b, d \in Blobbers : \A i \in 1 .. Len(log[b]) :
    i <= Len(log[d]) => log[b][i] = log[d][i]

\* A batch reported failed is left only on blobbers that answered its commit or
\* its rollback with an error.
FailedUndone ==
  \A c \in Conns : result[c] \in {"error", "repair", "retry", "nil"} =>
    Holding(c) \subseteq doubt[c]

\* The longest log of a blobber, and what the caller of a batch was told.
Longest ==
  CHOOSE l \in {log[b] : b \in Blobbers} : \A b \in Blobbers : Len(log[b]) <= Len(l)
Told(c) == CASE result[c] = "none" -> "none"
             [] result[c] = "completed" -> "completed"
             [] OTHER -> "error"

\* The batches of all clients behave like the one history of BatchHistory: the
\* blobbers' commits, rollbacks and status checks under the lock are appends and
\* withdrawals of the last batch, and a completed batch is never withdrawn,
\* overtaken or built around.
History == INSTANCE BatchHistory WITH
             Batches <- Conns, history <- Longest, outcome <- [c \in Conns |-> Told(c)]
OneHistory == History!Spec

\* Every batch returns: no connection waits for ever for a lock, a status check,
\* a commit or a rollback.
ProcessReturns == \A c \in Conns : pc[c] # "idle" ~> pc[c] = "done"
=============================================================================
