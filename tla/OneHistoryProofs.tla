-------------------------- MODULE OneHistoryProofs --------------------------
(***************************************************************************)
(* MultiOperation implements BatchHistory: the batches of clients that     *)
(* commit under the lock behave like one history.  For every number of     *)
(* clients, blobbers and faults; the faults are those of a blobber that is *)
(* reachable for the status check and executes a request, if at all,       *)
(* before the client gives up on it.                                       *)
(***************************************************************************)
EXTENDS MultiOperationProofs

\* Each client has its own Allocation object and commits a batch; no client
\* reads the versions without the lock; a blobber answers the status check and
\* executes no request late.  Without one of these VersionAgreement or AckedKept
\* fails.
Undisturbed ==
  /\ Probes = {} /\ Modes = {FALSE}
  /\ "unreachable" \notin Faults /\ "late" \notin Faults

\* No version is known before the status check.
Clean(c) == allocationVersion[c] = 0 /\ \A b \in Blobbers : blobberVersion[c][b] = 0

\* The versions that the status check has read are still those of the blobbers.
ReadPart(c) ==
  /\ allocationVersion[c] = 0
  /\ \A b \in Blobbers :
       IF b \in todo[c] THEN blobberVersion[c][b] = 0
       ELSE marker[c][b] \in MarkersOf(b) /\ blobberVersion[c][b] = Len(log[b])

\* The status check never rolls a completed batch back.
RollPart(c) ==
  \A b \in todo[c] : log[b] # <<>> => result[log[b][Len(log[b])]] # "completed"

\* No blobber is beyond the version of the allocation.
CommitPart(c) ==
  \A b \in Blobbers : blobberVersion[c][b] = Len(log[b]) /\ Len(log[b]) <= allocationVersion[c]

\* The batch is the only one at the next version.
TakePart(c) ==
  \A b \in Blobbers :
    \/ Len(log[b]) <= allocationVersion[c]
    \/ Len(log[b]) = allocationVersion[c] + 1 /\ log[b][Len(log[b])] = c

\* A blobber still to be asked is at the version of the allocation, one that
\* acknowledged or is still to undo the batch has it.
AskPart(c) ==
  /\ \A b \in todo[c] : Len(log[b]) = allocationVersion[c]
  /\ \A b \in rollbackMask[c] : Len(log[b]) = allocationVersion[c] + 1
UndoPart(c) == \A b \in todo[c] : Len(log[b]) = allocationVersion[c] + 1

\* What a client relies on, phase by phase.
Part(c) ==
  /\ pc[c] \in {"idle", "ops", "lock"} => Clean(c)
  /\ pc[c] = "read" => ReadPart(c)
  /\ pc[c] = "rolling" => RollPart(c)
  /\ pc[c] = "Commit" => CommitPart(c)
  /\ pc[c] \in Committing \cup {"undo"} => TakePart(c)
  /\ pc[c] \in Committing => AskPart(c)
  /\ pc[c] = "undo" => UndoPart(c)

\* No client shares its object, no request is under way unseen, and a client that
\* has been told a result is done.
OwnInv ==
  /\ ~singleClientMode /\ inflight = {}
  /\ \A c \in Conns : ~checkStatus[c]
  /\ \A c \in Conns : result[c] # "none" => pc[c] = "done"

\* The inductive invariant: the two promises, and what they rest on.
HistoryInv ==
  /\ OwnInv
  /\ VersionAgreement
  /\ AckedKept
  /\ \A c \in Conns : Part(c)

-----------------------------------------------------------------------------
(* Each step keeps what a connection relies on.                            *)

\* Each client keeps to its own object, and a result is final.
LEMMA OwnNext ==
  ASSUME Undisturbed, StoreInv, OwnInv, [Next]_vars
  PROVE  OwnInv'
<1>0. /\ pc \in [Checkers -> Phases] /\ result \in [Conns -> Results]
      /\ checkStatus \in [Objs -> BOOLEAN] /\ Conns \subseteq Objs /\ Checkers = Conns
  BY DEF StoreInv, TypeInv, TypeOK, Checkers, Objs, Undisturbed
<1>a. \A c \in Conns : Obj(c) = c
  BY DEF OwnInv, Obj
<1> USE <1>0, <1>a DEF Undisturbed, OwnInv, storeVars, objVars
<1>1. ASSUME NEW c \in Conns, CreateConnections(c) PROVE OwnInv'
  BY <1>1 DEF CreateConnections, Return
<1>2. ASSUME NEW c \in Conns, ProcessOperation(c) PROVE OwnInv'
  BY <1>2 DEF ProcessOperation
<1>3. ASSUME NEW c \in Conns, OperationsFailed(c) PROVE OwnInv'
  BY <1>3 DEF OperationsFailed, Fault, Return
<1>4. ASSUME NEW c \in Conns, OperationsDone(c) PROVE OwnInv'
  BY <1>4 DEF OperationsDone, Return
<1>5. ASSUME NEW c \in Conns, LockTaken(c) PROVE OwnInv'
  BY <1>5 DEF LockTaken
<1>6. ASSUME NEW c \in Conns, LockFailed(c) PROVE OwnInv'
  BY <1>6 DEF LockFailed, Fault, Return
<1>7. ASSUME NEW c \in Conns, StatusReturned(c) PROVE OwnInv'
  BY <1>7 DEF StatusReturned, Return
<1>8. ASSUME NEW c \in Conns, SendCommits(c) PROVE OwnInv'
  BY <1>8 DEF SendCommits, Fault, Return
<1>9. ASSUME NEW c \in Conns, NEW b \in Blobbers, CommitBlobber(c, b) PROVE OwnInv'
  BY <1>9 DEF CommitBlobber, Fault
<1>10. ASSUME NEW c \in Conns, CommitsDone(c) PROVE OwnInv'
  BY <1>10 DEF CommitsDone, Return
<1>11. ASSUME NEW c \in Conns, NEW b \in Blobbers, UndoBlobber(c, b) PROVE OwnInv'
  BY <1>11 DEF UndoBlobber, Fault
<1>12. ASSUME NEW c \in Conns, UndoDone(c) PROVE OwnInv'
  BY <1>12 DEF UndoDone, Return
<1>13. ASSUME NEW c \in Conns, Crash(c) PROVE OwnInv'
  BY <1>13 DEF Crash, Fault
<1>14. ASSUME NEW p \in Probes, StartProbe(p) PROVE OwnInv'
  BY <1>14 DEF StartProbe
<1>15. ASSUME NEW t \in Checkers, NEW b \in Blobbers, ReadMarker(t, b) PROVE OwnInv'
  BY <1>15 DEF ReadMarker, Fault
<1>16. ASSUME NEW t \in Checkers, Decide(t) PROVE OwnInv'
  BY <1>16 DEF Decide
<1>17. ASSUME NEW t \in Checkers, NEW b \in Blobbers, RollbackLatest(t, b) PROVE OwnInv'
  BY <1>17 DEF RollbackLatest, Fault
<1>18. ASSUME NEW t \in Checkers, RollbacksDone(t) PROVE OwnInv'
  BY <1>18 DEF RollbacksDone
<1>19. CASE LockLapses
  BY <1>19 DEF LockLapses
<1>20. CASE LateCommit
  BY <1>20 DEF LateCommit
<1>21. CASE UNCHANGED vars
  BY <1>21 DEF vars
<1> QED
  BY <1>1, <1>2, <1>3, <1>4, <1>5, <1>6, <1>7, <1>8, <1>9, <1>10, <1>11, <1>12,
     <1>13, <1>14, <1>15, <1>16, <1>17, <1>18, <1>19, <1>20, <1>21 DEF Next,
     CheckSteps, ProcessSteps

\* A connection that is not at work, or whose state does not change.
LEMMA PartFrame ==
  ASSUME StoreInv, NEW c \in Conns, Part(c), log' = log,
         pc'[c] = pc[c], todo'[c] = todo[c], marker'[c] = marker[c],
         blobberVersion'[c] = blobberVersion[c], allocationVersion'[c] = allocationVersion[c],
         rollbackMask'[c] = rollbackMask[c],
         pc[c] = "rolling" => \A x \in Conns : result'[x] = "completed" => result[x] = "completed"
  PROVE  Part(c)'
<1>1. pc[c] = "read" => (ReadPart(c) => ReadPart(c)')
  BY DEF ReadPart, MarkersOf
<1>2. pc[c] = "rolling" => (RollPart(c) => RollPart(c)')
  <2>1. \A b \in todo[c] : b \in Blobbers
    BY DEF StoreInv, TypeInv, TypeOK, Checkers
  <2>2. \A b \in todo[c] : log[b] # <<>> => log[b][Len(log[b])] \in Conns
    BY <2>1, RolledBackLog DEF StoreInv, TypeInv
  <2> QED
    BY <2>2 DEF RollPart
<1>3. Clean(c) => Clean(c)'
  BY DEF Clean
<1>4. CommitPart(c) => CommitPart(c)'
  BY DEF CommitPart
<1>5. TakePart(c) => TakePart(c)'
  BY DEF TakePart
<1>6. (AskPart(c) => AskPart(c)') /\ (UndoPart(c) => UndoPart(c)')
  BY DEF AskPart, UndoPart
<1> QED
  BY <1>1, <1>2, <1>3, <1>4, <1>5, <1>6 DEF Part, Committing

\* A batch outside the lock depends on no log.
LEMMA PartUnlocked ==
  ASSUME NEW c \in Conns, Part(c), pc'[c] = pc[c], pc[c] \notin Locked,
         blobberVersion'[c] = blobberVersion[c], allocationVersion'[c] = allocationVersion[c]
  PROVE  Part(c)'
BY DEF Part, Clean, Locked, Committing, Statuses

\* A batch that has ended asks nothing of the logs.
LEMMA PartDone ==
  ASSUME NEW c \in Conns, pc'[c] \in {"done", "Broken", "Repair", "Rollback"}
  PROVE  Part(c)'
BY DEF Part, Committing

\* The blobbers that have the batch on top of a log of the highest version are
\* all at that version.
LEMMA HoldersAtTop ==
  ASSUME StoreInv, VersionAgreement, NEW b \in Blobbers, log[b] # <<>>,
         \A e \in Blobbers : Len(log[e]) <= Len(log[b])
  PROVE  /\ log[b][Len(log[b])] \in Conns
         /\ Holding(log[b][Len(log[b])]) \subseteq {e \in Blobbers : Len(log[e]) = Len(log[b])}
<1> DEFINE h == Len(log[b])
           c == log[b][h]
<1>1. h \in Nat \ {0} /\ c \in Conns /\ \A e \in Blobbers : Len(log[e]) \in Nat
  BY RolledBackLog, LenProperties DEF StoreInv, TypeInv
<1>2. ASSUME NEW e \in Holding(c) PROVE e \in Blobbers /\ Len(log[e]) = h
  <2>1. e \in Blobbers /\ Len(log[e]) <= h
    BY DEF Holding
  <2>2. PICK i \in 1 .. Len(log[e]) : log[e][i] = c
    BY DEF Holding
  <2>3. i \in 1 .. h /\ h \in 1 .. h
    BY <1>1, <2>1, <2>2
  <2>4. log[b][i] = c
    BY <2>1, <2>2, <2>3 DEF VersionAgreement
  <2>5. i = h
    BY <2>3, <2>4 DEF StoreInv, OnceInv
  <2> QED
    BY <1>1, <2>1, <2>5
<1> QED
  BY <1>1, <1>2

\* When the markers are read, they are the versions of the blobbers.
LEMMA MarkersRead ==
  ASSUME StoreInv, NEW c \in Conns, ReadPart(c), todo[c] = {}
  PROVE  /\ \A b \in Blobbers : /\ blobberVersion[c][b] = Len(log[b]) /\ Len(log[b]) \in Nat
                                /\ log[b] # <<>> => marker[c][b] = Len(log[b])
                                /\ marker[c][b] \in {NoMarker, Len(log[b])}
         /\ Seen(marker[c]) = {} => \A b \in Blobbers : Len(log[b]) = 0
         /\ Seen(marker[c]) # {} => \A b \in Blobbers : Len(log[b]) <= Highest(marker[c])
<1>1. \A b \in Blobbers : /\ Len(log[b]) \in Nat /\ Len(log[b]) <= MaxVersion
                          /\ log[b] = <<>> => Len(log[b]) = 0
                          /\ marker[c][b] \in MarkersOf(b) /\ blobberVersion[c][b] = Len(log[b])
  BY LenProperties DEF StoreInv, TypeInv, TypeOK, ReadPart
<1>2. \A b \in Blobbers : /\ log[b] # <<>> => marker[c][b] = Len(log[b])
                          /\ marker[c][b] \in {NoMarker, Len(log[b])}
  BY <1>1 DEF MarkersOf
<1>3. \A b \in Blobbers : log[b] # <<>> => Len(log[b]) \in Seen(marker[c])
  BY <1>1, <1>2, ShardsAssumption DEF Seen, At, Versions
<1>4. Seen(marker[c]) = {} => \A b \in Blobbers : Len(log[b]) = 0
  BY <1>1, <1>3
<1>5. ASSUME Seen(marker[c]) # {}, NEW b \in Blobbers
      PROVE  Len(log[b]) <= Highest(marker[c])
  <2>1. Highest(marker[c]) \in Nat /\ \A v \in Seen(marker[c]) : v <= Highest(marker[c])
    BY <1>5, HighestExists, ShardsAssumption DEF Versions
  <2> QED
    BY <1>1, <1>3, <2>1
<1> QED
  BY <1>1, <1>2, <1>4, <1>5

\* The version that the status check rolls back is that of no completed batch:
\* a threshold of blobbers would be at it.
LEMMA RollbackSafe ==
  ASSUME StoreInv, VersionAgreement, AckedKept, NEW c \in Conns, ReadPart(c), todo[c] = {},
         MayRollback(marker[c]),
         NEW b \in At(marker[c], Highest(marker[c])), log[b] # <<>>
  PROVE  result[log[b][Len(log[b])]] # "completed"
<1> DEFINE h == Highest(marker[c])
<1>1. /\ b \in Blobbers /\ marker[c][b] = h /\ h \in Versions
      /\ Seen(marker[c]) # {} /\ ~(Cardinality(At(marker[c], h)) >= DataShards)
  <2>1. Seen(marker[c]) # {} /\ Highest(marker[c]) \notin Readable(marker[c])
    BY DEF MayRollback
  <2>2. Highest(marker[c]) \in Versions
    BY <2>1, HighestExists
  <2> QED
    BY <2>1, <2>2 DEF Readable, At
<1>2. Len(log[b]) = h /\ \A e \in Blobbers : Len(log[e]) <= h
  BY <1>1, MarkersRead
<1> HIDE DEF h
<1>3. /\ log[b][Len(log[b])] \in Conns
      /\ Holding(log[b][Len(log[b])]) \subseteq {e \in Blobbers : Len(log[e]) = Len(log[b])}
  BY <1>1, <1>2, HoldersAtTop
<1> DEFINE c0 == log[b][Len(log[b])]
<1>4. \A e \in Holding(c0) : log[e] # <<>>
  BY DEF Holding
<1>5. Holding(c0) \subseteq At(marker[c], h)
  BY <1>2, <1>3, <1>4, MarkersRead DEF At
<1>6. /\ Cardinality(Holding(c0)) <= Cardinality(At(marker[c], h))
      /\ Cardinality(Holding(c0)) \in Nat /\ Cardinality(At(marker[c], h)) \in Nat
  <2>1. At(marker[c], h) \subseteq Blobbers
    BY DEF At
  <2> QED
    BY <1>5, <2>1, BlobberSets, FS_Subset, FS_CardinalityType
<1>7. ~(Cardinality(Holding(c0)) >= Thresh)
  BY <1>1, <1>6, BoundsAssumption, ShardsAssumption
<1> QED
  BY <1>3, <1>7 DEF AckedKept

\* A step that leaves the logs alone.
LEMMA PartControl ==
  ASSUME Undisturbed, StoreInv, HistoryInv, [Next]_vars, log' = log, NEW d \in Conns
  PROVE  Part(d)'
<1>0. /\ pc \in [Checkers -> Phases] /\ todo \in [Checkers -> SUBSET Blobbers]
      /\ rollbackMask \in [Conns -> SUBSET Blobbers] /\ result \in [Conns -> Results]
      /\ marker \in [Checkers -> [Blobbers -> Markers]]
      /\ blobberVersion \in [Objs -> [Blobbers -> Versions]]
      /\ allocationVersion \in [Objs -> Versions] /\ Conns \subseteq Objs /\ Checkers = Conns
  BY DEF StoreInv, TypeInv, TypeOK, Checkers, Objs, Undisturbed
<1>a. \A c \in Conns : Obj(c) = c /\ Part(c) /\ ~checkStatus[c]
  BY DEF HistoryInv, OwnInv, Obj
<1>b. ~singleClientMode /\ inflight = {} /\ "unreachable" \notin Faults
  BY DEF HistoryInv, OwnInv, Undisturbed
<1>c. \A b \in Blobbers : Len(log[b]) \in Nat
  BY LenProperties DEF StoreInv, TypeInv
<1>f. ASSUME pc'[d] = pc[d], todo'[d] = todo[d], marker'[d] = marker[d],
             blobberVersion'[d] = blobberVersion[d], allocationVersion'[d] = allocationVersion[d],
             rollbackMask'[d] = rollbackMask[d],
             pc[d] = "rolling" => \A x \in Conns : result'[x] = "completed" => result[x] = "completed"
      PROVE  Part(d)'
  BY <1>a, <1>f, PartFrame
<1>g. ASSUME pc'[d] \in {"done", "Broken", "Repair", "Rollback"} PROVE Part(d)'
  BY <1>g, PartDone
<1> USE <1>0 DEF opVars, objVars, checkVars
<1>1. ASSUME NEW c \in Conns, CreateConnections(c) PROVE Part(d)'
  <2>1. CASE d # c
    BY <1>1, <2>1, <1>f DEF CreateConnections, Return
  <2>2. CASE d = c
    BY <1>1, <1>a, <2>2 DEF CreateConnections, Return, Part, Clean, Committing
  <2> QED
    BY <2>1, <2>2
<1>2. ASSUME NEW c \in Conns, ProcessOperation(c) PROVE Part(d)'
  BY <1>2, <1>f DEF ProcessOperation
<1>3. ASSUME NEW c \in Conns, OperationsFailed(c) PROVE Part(d)'
  <2>1. CASE d # c
    BY <1>3, <2>1, <1>f DEF OperationsFailed, Return
  <2>2. CASE d = c
    BY <1>3, <1>g, <2>2 DEF OperationsFailed, Return
  <2> QED
    BY <2>1, <2>2
<1>4. ASSUME NEW c \in Conns, OperationsDone(c) PROVE Part(d)'
  <2>1. CASE d # c
    BY <1>4, <2>1, <1>f DEF OperationsDone, Return
  <2>2. CASE d = c
    BY <1>4, <1>a, <2>2 DEF OperationsDone, Return, Part, Clean, Committing
  <2> QED
    BY <2>1, <2>2
<1>5. ASSUME NEW c \in Conns, LockTaken(c) PROVE Part(d)'
  <2>1. CASE d # c
    BY <1>5, <2>1, <1>f DEF LockTaken
  <2>2. CASE d = c
    <3>1. /\ pc'[c] = "read" /\ todo'[c] = Blobbers /\ Clean(c)
          /\ UNCHANGED <<blobberVersion, allocationVersion>>
      BY <1>5, <1>a DEF LockTaken, Part
    <3>2. ReadPart(c)'
      BY <3>1 DEF ReadPart, Clean
    <3> QED
      BY <2>2, <3>1, <3>2 DEF Part, Committing
  <2> QED
    BY <2>1, <2>2
<1>6. ASSUME NEW c \in Conns, LockFailed(c) PROVE Part(d)'
  <2>1. CASE d # c
    BY <1>6, <2>1, <1>f DEF LockFailed, Return
  <2>2. CASE d = c
    BY <1>6, <1>g, <2>2 DEF LockFailed, Return
  <2> QED
    BY <2>1, <2>2
<1>7. ASSUME NEW c \in Conns, StatusReturned(c) PROVE Part(d)'
  <2>1. CASE d # c
    BY <1>7, <2>1, <1>f DEF StatusReturned, Return
  <2>2. CASE d = c
    BY <1>7, <1>g, <2>2 DEF StatusReturned, Return
  <2> QED
    BY <2>1, <2>2
<1>8. ASSUME NEW c \in Conns, SendCommits(c) PROVE Part(d)'
  <2>1. /\ pc[c] = "Commit" /\ UNCHANGED <<blobberVersion, allocationVersion, rollbackMask, marker>>
        /\ \A u \in Conns \ {c} : pc'[u] = pc[u] /\ todo'[u] = todo[u] /\ result'[u] = result[u]
        /\ \/ pc'[c] = "done"
           \/ /\ pc'[c] \in Committing
              /\ \A b \in todo'[c] : b \in Blobbers /\ blobberVersion[c][b] = allocationVersion[c]
    <3>1. mask[c] \subseteq Blobbers
      BY DEF StoreInv, TypeInv, TypeOK
    <3> QED
      BY <1>8, <1>a, <3>1 DEF SendCommits, Return, Committing
  <2>2. CASE d # c
    <3>1. pc[d] \notin Locked
      BY <2>1, <2>2, <1>8, ProcessesAssumption DEF StoreInv, LockInv, Locked, Statuses
    <3> QED
      BY <1>a, <2>1, <2>2, <3>1, PartUnlocked
  <2>3. CASE d = c
    <3>1. CommitPart(c) /\ rollbackMask[c] = {}
      BY <1>a, <2>1 DEF Part, StoreInv, CountInv, Before, Statuses
    <3>2. TakePart(c)'
      BY <2>1, <3>1 DEF TakePart, CommitPart
    <3>3. pc'[c] \in Committing => AskPart(c)'
      BY <2>1, <3>1 DEF AskPart, CommitPart, Committing
    <3> QED
      BY <2>1, <2>3, <3>2, <3>3 DEF Part, Committing
  <2> QED
    BY <2>2, <2>3
<1>9. ASSUME NEW c \in Conns, NEW b \in Blobbers, CommitBlobber(c, b) PROVE Part(d)'
  <2>1. Committed(b, c) # log
    BY <1>c, CommittedLog DEF StoreInv, TypeInv
  <2>2. /\ UNCHANGED <<pc, blobberVersion, allocationVersion, rollbackMask, marker, result>>
        /\ todo' = [todo EXCEPT ![c] = @ \ {b}] /\ pc[c] \in Committing
    BY <1>9, <2>1 DEF CommitBlobber, Committing
  <2>3. CASE d # c
    BY <1>f, <2>2, <2>3
  <2>4. CASE d = c
    <3>1. TakePart(c)' /\ AskPart(c)'
      BY <1>a, <2>2 DEF Part, TakePart, AskPart
    <3> QED
      BY <2>2, <2>4, <3>1 DEF Part, Committing
  <2> QED
    BY <2>3, <2>4
<1>10. ASSUME NEW c \in Conns, CommitsDone(c) PROVE Part(d)'
  <2>1. /\ pc[c] = "commit" /\ UNCHANGED <<blobberVersion, allocationVersion, rollbackMask, marker>>
        /\ \A u \in Conns \ {c} : pc'[u] = pc[u] /\ todo'[u] = todo[u]
        /\ pc'[c] = "done" \/ (pc'[c] = "undo" /\ todo'[c] = rollbackMask[c])
    BY <1>10, <1>b DEF CommitsDone, Return
  <2>2. CASE d # c
    <3>1. pc[d] \notin Locked
      BY <2>1, <2>2, ProcessesAssumption DEF StoreInv, LockInv, Locked, Statuses
    <3> QED
      BY <1>a, <2>1, <2>2, <3>1, PartUnlocked
  <2>3. CASE d = c
    <3>1. TakePart(c)' /\ (pc'[c] = "undo" => UndoPart(c)')
      BY <1>a, <2>1 DEF Part, TakePart, AskPart, UndoPart, Committing
    <3> QED
      BY <2>1, <2>3, <3>1 DEF Part, Committing
  <2> QED
    BY <2>2, <2>3
<1>11. ASSUME NEW c \in Conns, NEW b \in Blobbers, UndoBlobber(c, b) PROVE Part(d)'
  <2>1. /\ UNCHANGED <<pc, blobberVersion, allocationVersion, rollbackMask, marker, result>>
        /\ todo' = [todo EXCEPT ![c] = @ \ {b}] /\ pc[c] = "undo"
    BY <1>11 DEF UndoBlobber
  <2>2. CASE d # c
    BY <1>f, <2>1, <2>2
  <2>3. CASE d = c
    <3>1. TakePart(c)' /\ UndoPart(c)'
      BY <1>a, <2>1 DEF Part, TakePart, UndoPart
    <3> QED
      BY <2>1, <2>3, <3>1 DEF Part, Committing
  <2> QED
    BY <2>2, <2>3
<1>12. ASSUME NEW c \in Conns, UndoDone(c) PROVE Part(d)'
  <2>1. CASE d # c
    BY <1>12, <2>1, <1>f DEF UndoDone, Return
  <2>2. CASE d = c
    BY <1>12, <1>g, <2>2 DEF UndoDone, Return
  <2> QED
    BY <2>1, <2>2
<1>13. ASSUME NEW c \in Conns, Crash(c) PROVE Part(d)'
  <2>1. CASE d # c
    BY <1>13, <2>1, <1>f DEF Crash
  <2>2. CASE d = c
    BY <1>13, <1>g, <2>2 DEF Crash
  <2> QED
    BY <2>1, <2>2
<1>14. ASSUME NEW p \in Probes, StartProbe(p) PROVE Part(d)'
  BY <1>14 DEF Undisturbed
<1>15. ASSUME NEW t \in Checkers, NEW b \in Blobbers, ReadMarker(t, b) PROVE Part(d)'
  <2>1. PICK m \in MarkersOf(b) :
          /\ UNCHANGED <<pc, allocationVersion, rollbackMask, result>>
          /\ marker' = [marker EXCEPT ![t][b] = m]
          /\ blobberVersion' = [blobberVersion EXCEPT ![t][b] = IF m = NoMarker THEN @ ELSE m]
          /\ todo' = [todo EXCEPT ![t] = @ \ {b}] /\ pc[t] = "read" /\ b \in todo[t]
    BY <1>15, <1>a, <1>b DEF ReadMarker, Fault
  <2>2. CASE d # t
    BY <1>f, <2>1, <2>2
  <2>3. CASE d = t
    <3>1. ReadPart(t)
      BY <1>a, <2>1 DEF Part
    <3>2. (IF m = NoMarker THEN 0 ELSE m) = Len(log[b])
      BY <1>c DEF MarkersOf, NoMarker
    <3>3. /\ todo'[t] = todo[t] \ {b} /\ allocationVersion'[t] = 0
          /\ marker'[t][b] = m /\ blobberVersion'[t][b] = Len(log[b])
          /\ \A e \in Blobbers \ {b} : /\ marker'[t][e] = marker[t][e]
                                       /\ blobberVersion'[t][e] = blobberVersion[t][e]
      BY <2>1, <3>1, <3>2 DEF ReadPart
    <3>4. ReadPart(t)'
      BY <2>1, <3>1, <3>3 DEF ReadPart, MarkersOf
    <3> QED
      BY <2>1, <2>3, <3>4 DEF Part, Committing
  <2> QED
    BY <2>2, <2>3
<1>16. ASSUME NEW t \in Checkers, Decide(t) PROVE Part(d)'
  <2>1. /\ UNCHANGED <<blobberVersion, rollbackMask, result, marker>> /\ pc[t] = "read"
        /\ todo[t] = {}
        /\ \A u \in Conns \ {t} : /\ pc'[u] = pc[u] /\ todo'[u] = todo[u]
                                  /\ allocationVersion'[u] = allocationVersion[u]
        /\ \/ pc'[t] = "Broken"
           \/ /\ pc'[t] = "Commit"
              /\ allocationVersion'[t] = IF Seen(marker[t]) = {} THEN allocationVersion[t]
                                         ELSE Highest(marker[t])
           \/ /\ pc'[t] = "rolling" /\ MayRollback(marker[t])
              /\ todo'[t] = At(marker[t], Highest(marker[t]))
    BY <1>16, <1>a DEF Decide
  <2>2. CASE d # t
    BY <1>f, <2>1, <2>2
  <2>3. CASE d = t
    <3>1. ReadPart(t)
      BY <1>a, <2>1 DEF Part
    <3>2. CASE pc'[t] = "Broken"
      BY <1>g, <2>3, <3>2
    <3>3. CASE pc'[t] = "Commit"
      <4>1. \A b \in Blobbers : /\ blobberVersion'[t][b] = Len(log[b])
                                /\ Len(log[b]) <= allocationVersion'[t]
        <5>1. /\ \A b \in Blobbers : blobberVersion[t][b] = Len(log[b])
              /\ Seen(marker[t]) = {} => \A b \in Blobbers : Len(log[b]) = 0
              /\ Seen(marker[t]) # {} => \A b \in Blobbers : Len(log[b]) <= Highest(marker[t])
          <6>1. t \in Conns /\ todo[t] = {}
            BY <2>1, <2>3
          <6> QED
            BY <3>1, <6>1, MarkersRead, Zenon
        <5>2. /\ allocationVersion[t] = 0 /\ blobberVersion' = blobberVersion
              /\ allocationVersion'[t] = IF Seen(marker[t]) = {} THEN allocationVersion[t]
                                         ELSE Highest(marker[t])
          BY <2>1, <3>1, <3>3 DEF ReadPart
        <5> QED
          BY <1>c, <5>1, <5>2
      <4>2. CommitPart(t)'
        BY <4>1 DEF CommitPart
      <4> QED
        BY <2>3, <3>3, <4>2 DEF Part, Committing
    <3>4. CASE pc'[t] = "rolling"
      <4>1. MayRollback(marker[t]) /\ todo'[t] = At(marker[t], Highest(marker[t]))
        BY <2>1, <3>4
      <4>2. \A b \in At(marker[t], Highest(marker[t])) :
              log[b] # <<>> => result[log[b][Len(log[b])]] # "completed"
        BY <2>1, <3>1, <4>1, RollbackSafe DEF HistoryInv
      <4>3. RollPart(t)'
        BY <2>1, <4>1, <4>2 DEF RollPart
      <4> QED
        BY <2>3, <3>4, <4>3 DEF Part, Committing
    <3> QED
      BY <2>1, <3>2, <3>3, <3>4
  <2> QED
    BY <2>2, <2>3
<1>17. ASSUME NEW t \in Checkers, NEW b \in Blobbers, RollbackLatest(t, b) PROVE Part(d)'
  <2>1. /\ UNCHANGED <<pc, blobberVersion, allocationVersion, rollbackMask, marker, result>>
        /\ todo' = [todo EXCEPT ![t] = @ \ {b}] /\ pc[t] = "rolling"
    BY <1>17 DEF RollbackLatest
  <2>2. CASE d # t
    BY <1>f, <2>1, <2>2
  <2>3. CASE d = t
    <3>1. RollPart(t)'
      BY <1>a, <2>1 DEF Part, RollPart
    <3> QED
      BY <2>1, <2>3, <3>1 DEF Part, Committing
  <2> QED
    BY <2>2, <2>3
<1>18. ASSUME NEW t \in Checkers, RollbacksDone(t) PROVE Part(d)'
  <2>1. CASE d # t
    BY <1>18, <2>1, <1>f DEF RollbacksDone
  <2>2. CASE d = t
    BY <1>18, <1>g, <2>2 DEF RollbacksDone, RollbackStatus
  <2> QED
    BY <2>1, <2>2
<1>19. CASE LockLapses
  BY <1>19, <1>f DEF LockLapses
<1>20. CASE LateCommit
  BY <1>20, <1>b DEF LateCommit
<1>21. CASE UNCHANGED vars
  BY <1>21, <1>f DEF vars
<1> QED
  BY <1>1, <1>2, <1>3, <1>4, <1>5, <1>6, <1>7, <1>8, <1>9, <1>10, <1>11, <1>12,
     <1>13, <1>14, <1>15, <1>16, <1>17, <1>18, <1>19, <1>20, <1>21 DEF Next,
     CheckSteps, ProcessSteps

\* A blobber takes the batch as the version after that of the allocation.
LEMMA CommitTaken ==
  ASSUME StoreInv, HistoryInv, NEW c \in Conns, NEW b \in Blobbers, CommitBlobber(c, b), log' # log
  PROVE  LET v == allocationVersion[c]
         IN  /\ v \in Nat /\ Len(log[b]) = v /\ Len(log'[b]) = v + 1 /\ log'[b][v + 1] = c
             /\ log' = Committed(b, c)
             /\ \A i \in 1 .. v : log'[b][i] = log[b][i]
             /\ \A e \in Blobbers \ {b} : log'[e] = log[e]
             /\ \A e \in Blobbers : /\ Len(log[e]) \in Nat /\ Len(log[e]) <= v + 1
                                    /\ Len(log[e]) = v + 1 => log[e][v + 1] = c
<1> DEFINE v == allocationVersion[c]
<1>1. log' = Committed(b, c) /\ pc[c] \in Committing /\ b \in todo[c]
  BY DEF CommitBlobber, Committing, storeVars, HistoryInv, OwnInv
<1>2. TakePart(c) /\ AskPart(c)
  BY <1>1 DEF HistoryInv, Part
<1>3. v \in Nat /\ \A e \in Blobbers : Len(log[e]) \in Nat
  BY LenProperties, ShardsAssumption DEF StoreInv, TypeInv, TypeOK, Objs, Checkers, Versions
<1>4. Len(log[b]) = v
  BY <1>1, <1>2 DEF AskPart
<1>5. \A e \in Blobbers : Len(log[e]) <= v + 1 /\ (Len(log[e]) = v + 1 => log[e][v + 1] = c)
  BY <1>2, <1>3 DEF TakePart
<1>6. log \in [Blobbers -> Seq(Conns)]
  BY DEF StoreInv, TypeInv
<1>7. /\ Len(Committed(b, c)[b]) = Len(log[b]) + 1
      /\ \A i \in 1 .. Len(log[b]) : Committed(b, c)[b][i] = log[b][i]
      /\ Committed(b, c)[b][Len(log[b]) + 1] = c
      /\ \A d \in Blobbers \ {b} : Committed(b, c)[d] = log[d]
  BY <1>6, CommittedLog
<1> HIDE DEF v
<1> QED
  BY <1>1, <1>3, <1>4, <1>5, <1>7 DEF v

\* A commit extends a log of the highest version but one with the batch of all that have more.
LEMMA HistoryCommitted ==
  ASSUME StoreInv, HistoryInv, NEW c \in Conns, NEW b \in Blobbers, CommitBlobber(c, b), log' # log
  PROVE  VersionAgreement' /\ AckedKept' /\ \A d \in Conns : Part(d)'
<1> DEFINE v == allocationVersion[c]
<1>0. /\ v \in Nat /\ Len(log[b]) = v /\ Len(log'[b]) = v + 1 /\ log'[b][v + 1] = c
      /\ log' = Committed(b, c)
      /\ \A i \in 1 .. v : log'[b][i] = log[b][i]
      /\ \A e \in Blobbers \ {b} : log'[e] = log[e]
      /\ \A e \in Blobbers : /\ Len(log[e]) \in Nat /\ Len(log[e]) <= v + 1
                             /\ Len(log[e]) = v + 1 => log[e][v + 1] = c
  BY CommitTaken
<1>1. /\ UNCHANGED <<pc, allocationVersion, blobberVersion, result>> /\ pc[c] \in Committing
      /\ todo' = [todo EXCEPT ![c] = @ \ {b}]
      /\ rollbackMask' \in {rollbackMask, [rollbackMask EXCEPT ![c] = @ \cup {b}]}
  BY DEF CommitBlobber, Committing, objVars
<1> HIDE DEF v
<1>2. VersionAgreement'
  <2>1. ASSUME NEW e \in Blobbers, e # b, NEW i \in Nat, i >= 1, i <= v + 1, i <= Len(log[e])
        PROVE  log'[b][i] = log'[e][i]
    <3>1. CASE i <= v
      <4>1. i \in 1 .. Len(log[b]) /\ log'[b][i] = log[b][i] /\ log'[e] = log[e]
        BY <1>0, <2>1, <3>1
      <4> QED
        BY <2>1, <4>1 DEF HistoryInv, VersionAgreement
    <3>2. CASE i = v + 1
      BY <1>0, <2>1, <3>2
    <3> QED
      BY <1>0, <2>1, <3>1, <3>2
  <2>2. ASSUME NEW e \in Blobbers, NEW d \in Blobbers, NEW i \in 1 .. Len(log'[e]),
               i <= Len(log'[d])
        PROVE  log'[e][i] = log'[d][i]
    <3>1. i \in Nat /\ i >= 1 /\ i <= Len(log'[e])
      BY <1>0, <2>2
    <3>2. CASE e = b /\ d # b
      BY <1>0, <2>1, <2>2, <3>1, <3>2
    <3>3. CASE e # b /\ d = b
      BY <1>0, <2>1, <2>2, <3>1, <3>3
    <3>4. CASE e # b /\ d # b
      BY <1>0, <2>2, <3>4 DEF HistoryInv, VersionAgreement
    <3> QED
      BY <3>2, <3>3, <3>4
  <2> QED
    BY <2>2 DEF VersionAgreement
<1>3. AckedKept'
  <2>1. \A d \in Conns : Holding(d) \subseteq Holding(d)' /\ Holding(d)' \subseteq Blobbers
    <3>1. \A d \in Conns : Holding(d)' = IF d = c THEN Holding(d) \cup {b} ELSE Holding(d)
      BY <1>0, HoldingCommitted DEF StoreInv
    <3>2. \A d \in Conns : Holding(d) \subseteq Blobbers
      BY DEF Holding
    <3> QED
      BY <3>1, <3>2
  <2>2. \A d \in Conns : /\ Cardinality(Holding(d)) <= Cardinality(Holding(d)')
                         /\ Cardinality(Holding(d)) \in Nat /\ Cardinality(Holding(d)') \in Nat
    BY <2>1, BlobberSets, FS_Subset, FS_CardinalityType
  <2> QED
    BY <1>1, <2>2, BoundsAssumption DEF HistoryInv, AckedKept
<1>4. ASSUME NEW d \in Conns PROVE Part(d)'
  <2>1. CASE d # c
    <3>1. pc[d] \notin Locked
      BY <1>1, <2>1 DEF StoreInv, LockInv, Locked, Committing
    <3> QED
      BY <1>1, <3>1, PartUnlocked DEF HistoryInv
  <2>2. CASE d = c
    <3>1. TakePart(c)'
      <4>1. ASSUME NEW e \in Blobbers
            PROVE  Len(log'[e]) <= v \/ (Len(log'[e]) = v + 1 /\ log'[e][Len(log'[e])] = c)
        BY <1>0
      <4> QED
        BY <1>1, <4>1 DEF TakePart, v
    <3>2. AskPart(c)'
      <4>1. AskPart(c) /\ todo[c] \subseteq Blobbers /\ rollbackMask[c] \subseteq Blobbers
            /\ todo'[c] = todo[c] \ {b} /\ rollbackMask'[c] \subseteq rollbackMask[c] \cup {b}
        BY <1>1 DEF HistoryInv, Part, StoreInv, TypeInv, TypeOK, Checkers
      <4> QED
        BY <1>0, <1>1, <4>1 DEF AskPart, v
    <3> QED
      BY <1>1, <2>2, <3>1, <3>2 DEF Part, Committing
  <2> QED
    BY <2>1, <2>2
<1> QED
  BY <1>2, <1>3, <1>4

\* A rollback of a batch that is not completed.
LEMMA HistoryRolledBack ==
  ASSUME StoreInv, HistoryInv, NEW b \in Blobbers, log[b] # <<>>, log' = RolledBack(b),
         result' = result, result[log[b][Len(log[b])]] # "completed"
  PROVE  VersionAgreement' /\ AckedKept'
<1>1. /\ log' \in [Blobbers -> Seq(Conns)]
      /\ Len(log'[b]) = Len(log[b]) - 1
      /\ \A i \in 1 .. Len(log[b]) - 1 : log'[b][i] = log[b][i]
      /\ \A e \in Blobbers \ {b} : log'[e] = log[e]
      /\ Len(log[b]) \in Nat \ {0}
      /\ \A e \in Blobbers : Len(log[e]) \in Nat
  BY RolledBackLog, LenProperties DEF StoreInv, TypeInv
<1>2. VersionAgreement'
  <2>1. ASSUME NEW e \in Blobbers, NEW i \in 1 .. Len(log'[e])
        PROVE  i \in 1 .. Len(log[e]) /\ log'[e][i] = log[e][i] /\ Len(log'[e]) <= Len(log[e])
    <3>1. CASE e = b
      BY <1>1, <2>1, <3>1
    <3>2. CASE e # b
      BY <1>1, <2>1, <3>2
    <3> QED
      BY <3>1, <3>2
  <2>2. ASSUME NEW e \in Blobbers, NEW d \in Blobbers, NEW i \in 1 .. Len(log'[e]),
               i <= Len(log'[d])
        PROVE  log'[e][i] = log'[d][i]
    <3>1. Len(log'[d]) \in Nat /\ Len(log'[e]) \in Nat
      BY <1>1, LenProperties
    <3>2. i \in 1 .. Len(log'[d])
      BY <2>2, <3>1
    <3>3. /\ i \in 1 .. Len(log[e]) /\ log'[e][i] = log[e][i]
          /\ i \in 1 .. Len(log[d]) /\ log'[d][i] = log[d][i]
      BY <2>1, <2>2, <3>2
    <3>4. i <= Len(log[d])
      BY <1>1, <3>3
    <3> QED
      BY <3>3, <3>4 DEF HistoryInv, VersionAgreement
  <2> QED
    BY <2>2 DEF VersionAgreement
<1>3. AckedKept'
  <2>1. \A d \in Conns : d # log[b][Len(log[b])] => Holding(d)' = Holding(d)
    BY HoldingRolledBack DEF StoreInv
  <2> QED
    BY <2>1 DEF HistoryInv, AckedKept
<1> QED
  BY <1>2, <1>3

\* RollbackWithMask drops the batch itself: it is on top of the log.
LEMMA HistoryUndone ==
  ASSUME StoreInv, HistoryInv, NEW c \in Conns, NEW b \in Blobbers, UndoBlobber(c, b), log' # log
  PROVE  /\ log[b] # <<>> /\ log' = RolledBack(b) /\ log[b][Len(log[b])] = c
         /\ result' = result /\ result[c] = "none"
         /\ \A d \in Conns : Part(d)'
<1>1. /\ log[b] # <<>> /\ log' = RolledBack(b) /\ pc[c] = "undo" /\ b \in todo[c]
      /\ UNCHANGED <<pc, allocationVersion, blobberVersion, result>>
      /\ todo' = [todo EXCEPT ![c] = @ \ {b}]
  BY DEF UndoBlobber, objVars
<1>2. TakePart(c) /\ UndoPart(c) /\ result[c] = "none"
  BY <1>1 DEF HistoryInv, Part, OwnInv, Committing
<1>3. /\ allocationVersion[c] \in Nat /\ todo[c] \subseteq Blobbers /\ todo'[c] = todo[c] \ {b}
      /\ \A e \in Blobbers : Len(log[e]) \in Nat
  <2>1. allocationVersion[c] \in Nat /\ \A e \in Blobbers : Len(log[e]) \in Nat
    BY LenProperties, ShardsAssumption DEF StoreInv, TypeInv, TypeOK, Objs, Checkers, Versions
  <2>2. todo \in [Checkers -> SUBSET Blobbers] /\ c \in Checkers
    BY DEF StoreInv, TypeInv, TypeOK, Checkers
  <2> QED
    BY <1>1, <2>1, <2>2
<1>4. Len(log[b]) = allocationVersion[c] + 1 /\ log[b][Len(log[b])] = c
  BY <1>1, <1>2, <1>3 DEF TakePart, UndoPart
<1>5. Len(log'[b]) = Len(log[b]) - 1 /\ \A e \in Blobbers \ {b} : log'[e] = log[e]
  BY <1>1, RolledBackLog DEF StoreInv, TypeInv
<1>6. ASSUME NEW d \in Conns PROVE Part(d)'
  <2>1. CASE d # c
    <3>1. pc[d] \notin Locked
      BY <1>1, <2>1 DEF StoreInv, LockInv, Locked
    <3> QED
      BY <1>1, <3>1, PartUnlocked DEF HistoryInv
  <2>2. CASE d = c
    <3>1. TakePart(c)'
      BY <1>1, <1>2, <1>3, <1>4, <1>5 DEF TakePart
    <3>2. UndoPart(c)'
      BY <1>1, <1>2, <1>3, <1>5 DEF UndoPart
    <3> QED
      BY <1>1, <2>2, <3>1, <3>2 DEF Part, Committing
  <2> QED
    BY <2>1, <2>2
<1> QED
  BY <1>1, <1>2, <1>4, <1>6

\* The rollbacks of a status check drop a batch that is not completed.
LEMMA HistoryLatest ==
  ASSUME Undisturbed, StoreInv, HistoryInv, NEW t \in Checkers, NEW b \in Blobbers,
         RollbackLatest(t, b), log' # log
  PROVE  /\ log[b] # <<>> /\ log' = RolledBack(b) /\ result' = result
         /\ result[log[b][Len(log[b])]] # "completed"
         /\ \A d \in Conns : Part(d)'
<1>1. /\ log[b] # <<>> /\ log' = RolledBack(b) /\ pc[t] = "rolling" /\ b \in todo[t]
      /\ UNCHANGED <<pc, allocationVersion, blobberVersion, result>>
      /\ todo' = [todo EXCEPT ![t] = @ \ {b}]
  BY DEF RollbackLatest, objVars
<1>2. t \in Conns
  BY DEF Undisturbed, Checkers
<1>3. RollPart(t) /\ todo[t] \subseteq Blobbers /\ todo'[t] = todo[t] \ {b}
  BY <1>1, <1>2 DEF HistoryInv, Part, StoreInv, TypeInv, TypeOK
<1>4. result[log[b][Len(log[b])]] # "completed"
  BY <1>1, <1>3 DEF RollPart
<1>5. \A e \in Blobbers \ {b} : log'[e] = log[e]
  BY <1>1, RolledBackLog DEF StoreInv, TypeInv
<1>6. ASSUME NEW d \in Conns PROVE Part(d)'
  <2>1. CASE d # t
    <3>1. pc[d] \notin Locked
      BY <1>1, <1>2, <2>1 DEF StoreInv, LockInv, Locked
    <3> QED
      BY <1>1, <3>1, PartUnlocked DEF HistoryInv
  <2>2. CASE d = t
    <3>1. RollPart(t)'
      BY <1>1, <1>3, <1>5 DEF RollPart
    <3> QED
      BY <1>1, <2>2, <3>1 DEF Part, Committing
  <2> QED
    BY <2>1, <2>2
<1> QED
  BY <1>1, <1>4, <1>6

\* The batch that CommitsDone reports is on the blobbers that acknowledged it.
LEMMA CompletedHeld ==
  ASSUME StoreInv, HistoryInv, NEW c \in Conns, pc[c] \in Committing,
         Cardinality(rollbackMask[c]) >= Thresh
  PROVE  Cardinality(Holding(c)) >= Thresh
<1>1. TakePart(c) /\ AskPart(c)
  BY DEF HistoryInv, Part
<1>2. /\ allocationVersion[c] \in Nat /\ rollbackMask[c] \subseteq Blobbers
      /\ \A e \in Blobbers : Len(log[e]) \in Nat
  BY LenProperties, ShardsAssumption DEF StoreInv, TypeInv, TypeOK, Objs, Checkers, Versions
<1>3. ASSUME NEW b \in rollbackMask[c] PROVE b \in Holding(c)
  <2>1. Len(log[b]) \in 1 .. Len(log[b]) /\ log[b][Len(log[b])] = c
    BY <1>1, <1>2 DEF TakePart, AskPart
  <2> QED
    BY <1>2, <2>1 DEF Holding
<1>4. rollbackMask[c] \subseteq Holding(c) /\ Holding(c) \subseteq Blobbers
  BY <1>3 DEF Holding
<1>5. /\ Cardinality(rollbackMask[c]) <= Cardinality(Holding(c))
      /\ Cardinality(rollbackMask[c]) \in Nat /\ Cardinality(Holding(c)) \in Nat
  BY <1>4, BlobberSets, FS_Subset, FS_CardinalityType
<1> QED
  BY <1>5, BoundsAssumption

\* What the caller of a batch is told changes when Process returns or the client
\* dies; completed only for a threshold of commits.
LEMMA ResultChanges ==
  ASSUME StoreInv, [Next]_vars, result' # result
  PROVE  \E c \in Conns :
           /\ pc[c] # "done" /\ log' = log
           /\ \E r \in Results \ {"none"} :
                /\ result' = [result EXCEPT ![c] = r]
                /\ r = "completed" => /\ pc[c] \in Committing
                                      /\ Cardinality(rollbackMask[c]) >= Thresh
<1> DEFINE Goal(c) ==
      /\ pc[c] # "done" /\ log' = log
      /\ \E r \in Results \ {"none"} :
           /\ result' = [result EXCEPT ![c] = r]
           /\ r = "completed" => /\ pc[c] \in Committing
                                 /\ Cardinality(rollbackMask[c]) >= Thresh
<1> USE DEF Results, storeVars
<1>1. ASSUME NEW c \in Conns, CreateConnections(c) \/ OperationsFailed(c) \/ Crash(c)
      PROVE  Goal(c)
  BY <1>1 DEF CreateConnections, OperationsFailed, Crash, Return
<1>2. ASSUME NEW c \in Conns, ProcessSteps(c) PROVE Goal(c)
  <2>1. CASE ProcessOperation(c) \/ LockTaken(c) \/ \E b \in Blobbers : CommitBlobber(c, b) \/ UndoBlobber(c, b)
    BY <2>1 DEF ProcessOperation, LockTaken, CommitBlobber, UndoBlobber
  <2>2. CASE OperationsDone(c) \/ LockFailed(c) \/ StatusReturned(c) \/ UndoDone(c)
    BY <2>2 DEF OperationsDone, LockFailed, StatusReturned, UndoDone, Return
  <2>3. CASE SendCommits(c)
    BY <2>3 DEF SendCommits, Return
  <2>4. CASE CommitsDone(c)
    BY <2>4 DEF CommitsDone, Return, Committing
  <2> QED
    BY <1>2, <2>1, <2>2, <2>3, <2>4 DEF ProcessSteps
<1>3. ASSUME NEW t \in Checkers, CheckSteps(t) PROVE result' = result
  <2>1. Decide(t) \/ RollbacksDone(t) => result' = result
    BY DEF Decide, RollbacksDone
  <2>2. ASSUME NEW b \in Blobbers PROVE ReadMarker(t, b) \/ RollbackLatest(t, b) => result' = result
    BY DEF ReadMarker, RollbackLatest
  <2> QED
    BY <1>3, <2>1, <2>2 DEF CheckSteps
<1>4. ASSUME NEW p \in Probes, StartProbe(p) PROVE result' = result
  BY <1>4 DEF StartProbe
<1>5. LockLapses \/ LateCommit \/ UNCHANGED vars => result' = result
  BY DEF LockLapses, LateCommit, vars
<1> HIDE DEF Goal
<1>6. \E c \in Conns : Goal(c)
  BY <1>1, <1>2, <1>3, <1>4, <1>5 DEF Next
<1> QED
  BY <1>6 DEF Goal

\* The invariant is inductive under the hypothesis.
LEMMA HistoryNext ==
  ASSUME Undisturbed, StoreInv, HistoryInv, [Next]_vars
  PROVE  HistoryInv'
<1>0. OwnInv'
  BY OwnNext DEF HistoryInv
<1>1. CASE log' = log
  <2>1. VersionAgreement'
    BY <1>1 DEF HistoryInv, VersionAgreement
  <2>2. AckedKept'
    <3>1. \A d \in Conns : Holding(d)' = Holding(d)
      BY <1>1 DEF Holding
    <3>2. CASE result' = result
      BY <3>1, <3>2 DEF HistoryInv, AckedKept
    <3>3. CASE result' # result
      <4>1. PICK c \in Conns, r \in Results :
              /\ result' = [result EXCEPT ![c] = r]
              /\ r = "completed" => /\ pc[c] \in Committing
                                    /\ Cardinality(rollbackMask[c]) >= Thresh
        BY <3>3, ResultChanges
      <4>2. r = "completed" => Cardinality(Holding(c)) >= Thresh
        BY <4>1, CompletedHeld
      <4>3. \A d \in Conns : result'[d] = "completed" => Cardinality(Holding(d)) >= Thresh
        BY <4>1, <4>2 DEF HistoryInv, AckedKept, StoreInv, TypeInv, TypeOK
      <4> QED
        BY <3>1, <4>3 DEF AckedKept
    <3> QED
      BY <3>2, <3>3
  <2> QED
    BY <1>0, <1>1, <2>1, <2>2, PartControl DEF HistoryInv
<1>2. ASSUME log' # log, NEW c \in Conns, NEW b \in Blobbers, CommitBlobber(c, b)
      PROVE  HistoryInv'
  BY <1>0, <1>2, HistoryCommitted DEF HistoryInv
<1>3. ASSUME log' # log, NEW c \in Conns, NEW b \in Blobbers, UndoBlobber(c, b)
      PROVE  HistoryInv'
  <2>1. /\ log[b] # <<>> /\ log' = RolledBack(b) /\ log[b][Len(log[b])] = c
        /\ result' = result /\ result[c] = "none"
        /\ \A d \in Conns : Part(d)'
    BY <1>3, HistoryUndone
  <2> QED
    BY <1>0, <2>1, HistoryRolledBack DEF HistoryInv
<1>4. ASSUME log' # log, NEW t \in Checkers, NEW b \in Blobbers, RollbackLatest(t, b)
      PROVE  HistoryInv'
  <2>1. /\ log[b] # <<>> /\ log' = RolledBack(b) /\ result' = result
        /\ result[log[b][Len(log[b])]] # "completed"
        /\ \A d \in Conns : Part(d)'
    BY <1>4, HistoryLatest
  <2> QED
    BY <1>0, <2>1, HistoryRolledBack DEF HistoryInv
<1>5. ~LateCommit
  BY DEF HistoryInv, OwnInv, LateCommit
<1> QED
  BY <1>1, <1>2, <1>3, <1>4, <1>5, LogChanges

\* Empty logs agree.
LEMMA HistoryInit ==
  ASSUME Undisturbed
  PROVE  Init => HistoryInv
<1> SUFFICES ASSUME Init PROVE HistoryInv
  OBVIOUS
<1>1. \A b \in Blobbers : Len(log[b]) = 0
  BY DEF Init
<1>2. OwnInv /\ VersionAgreement /\ AckedKept
  BY <1>1 DEF Init, Undisturbed, OwnInv, Objs, Checkers, VersionAgreement, AckedKept
<1>3. ASSUME NEW c \in Conns PROVE Part(c)
  BY DEF Init, Part, Clean, Objs, Checkers, Committing
<1> QED
  BY <1>2, <1>3 DEF HistoryInv

\* The invariant holds throughout.
LEMMA HistoryAlways ==
  ASSUME Undisturbed
  PROVE  Spec => [](StoreInv /\ HistoryInv)
<1>1. StoreInv /\ HistoryInv /\ [Next]_vars => (StoreInv /\ HistoryInv)'
  BY StoreNext, HistoryNext
<1>2. Init => StoreInv /\ HistoryInv
  BY StoreInit, HistoryInit
<1> QED
  BY <1>1, <1>2, PTL DEF Spec

\* Two blobbers at the same version have committed the same batches, what
\* CheckAllocStatus takes for granted when it compares versions only: commits
\* lost, refused or hanging, rollbacks that fail and clients that die included.
THEOREM VersionAgreementHolds ==
  ASSUME Undisturbed
  PROVE  Spec => []VersionAgreement
<1>1. HistoryInv => VersionAgreement
  BY DEF HistoryInv
<1> QED
  BY <1>1, HistoryAlways, PTL

\* A batch that Process reported completed stays on a threshold of blobbers: the
\* rollbacks of a later CheckAllocStatus find the highest version on fewer than
\* DataShards blobbers, so it is not the version of a completed batch.
THEOREM AckedKeptHolds ==
  ASSUME Undisturbed
  PROVE  Spec => []AckedKept
<1>1. HistoryInv => AckedKept
  BY DEF HistoryInv
<1> QED
  BY <1>1, HistoryAlways, PTL

-----------------------------------------------------------------------------
(* The refinement.                                                         *)

\* The longest log, when blobbers at the same version have the same batches.
LEMMA TopLog ==
  ASSUME NEW l \in [Blobbers -> Seq(Conns)], Blobbers # {},
         \A b \in Blobbers : Len(l[b]) <= MaxVersion,
         \A b, d \in Blobbers : \A i \in 1 .. Len(l[b]) : i <= Len(l[d]) => l[b][i] = l[d][i]
  PROVE  LET top == CHOOSE x \in {l[b] : b \in Blobbers} : \A b \in Blobbers : Len(l[b]) <= Len(x)
         IN  /\ \E b \in Blobbers : \A e \in Blobbers : Len(l[e]) <= Len(l[b])
             /\ \A b \in Blobbers : (\A e \in Blobbers : Len(l[e]) <= Len(l[b])) => top = l[b]
<1> DEFINE top == CHOOSE x \in {l[b] : b \in Blobbers} : \A b \in Blobbers : Len(l[b]) <= Len(x)
           below == {n \in Nat : \E b \in Blobbers : n = MaxVersion - Len(l[b])}
<1>1. \A b \in Blobbers : /\ l[b] \in Seq(Conns) /\ Len(l[b]) \in Nat
                          /\ MaxVersion - Len(l[b]) \in Nat
  BY LenProperties, ShardsAssumption
<1>2. below # {}
  BY <1>1
<1>3. PICK x \in below : \A y \in below : x <= y
  BY <1>2, LeastNatural
<1>4. PICK b \in Blobbers : x = MaxVersion - Len(l[b])
  BY <1>3
<1>5. ASSUME NEW e \in Blobbers PROVE Len(l[e]) <= Len(l[b])
  <2>1. MaxVersion - Len(l[e]) \in below
    BY <1>1
  <2>2. MaxVersion - Len(l[b]) <= MaxVersion - Len(l[e])
    BY <1>3, <1>4, <2>1
  <2> QED
    BY <1>1, <2>2, ShardsAssumption
<1>6. top \in {l[d] : d \in Blobbers} /\ \A d \in Blobbers : Len(l[d]) <= Len(top)
  BY <1>5
<1>7. PICK t \in Blobbers : top = l[t]
  BY <1>6
<1> HIDE DEF top
<1>8. ASSUME NEW d \in Blobbers, \A e \in Blobbers : Len(l[e]) <= Len(l[d])
      PROVE  top = l[d]
  <2>1. Len(l[t]) = Len(l[d])
    BY <1>1, <1>6, <1>7, <1>8
  <2>2. \A i \in 1 .. Len(l[t]) : l[t][i] = l[d][i]
    BY <1>1, <2>1
  <2>3. l[t] = l[d]
    BY <1>1, <2>1, <2>2, SeqEqual
  <2> QED
    BY <1>7, <2>3
<1> QED
  BY <1>5, <1>8 DEF top

\* The caller's view follows the result.
LEMMA ToldChanges ==
  ASSUME StoreInv, NEW c \in Conns, NEW r \in Results \ {"none"}, result' = [result EXCEPT ![c] = r]
  PROVE  [d \in Conns |-> Told(d)]'
           = [[d \in Conns |-> Told(d)] EXCEPT ![c] = IF r = "completed" THEN r ELSE "error"]
<1>1. result \in [Conns -> Results]
  BY DEF StoreInv, TypeInv, TypeOK
<1>2. \A d \in Conns : Told(d)' = IF d = c THEN IF r = "completed" THEN r ELSE "error" ELSE Told(d)
  BY <1>1 DEF Told, Results
<1> QED
  BY <1>2

\* The initial states map to initial states.
LEMMA HistoryStart ==
  ASSUME Blobbers # {}
  PROVE  Init => History!Init
<1> SUFFICES ASSUME Init PROVE History!Init
  OBVIOUS
<1>1. \A b \in Blobbers : log[b] = <<>>
  BY DEF Init
<1>2. \A b \in Blobbers : Len(log[b]) = 0
  BY <1>1
<1>3. Longest = <<>>
  BY <1>1, <1>2 DEF Longest
<1>4. [c \in Conns |-> Told(c)] = [c \in Conns |-> "none"]
  BY DEF Init, Told
<1> QED
  BY <1>3, <1>4 DEF History!Init

\* The longest log is that of any blobber at the highest version.
LEMMA LongestLog ==
  ASSUME StoreInv, VersionAgreement, Blobbers # {}
  PROVE  /\ \E b \in Blobbers : \A e \in Blobbers : Len(log[e]) <= Len(log[b])
         /\ \A b \in Blobbers : (\A e \in Blobbers : Len(log[e]) <= Len(log[b])) => Longest = log[b]
<1>1. log \in [Blobbers -> Seq(Conns)] /\ \A b \in Blobbers : Len(log[b]) <= MaxVersion
  BY DEF StoreInv, TypeInv, TypeOK
<1> QED
  BY <1>1, TopLog DEF VersionAgreement, Longest

\* The same after the step.
LEMMA NextLongestLog ==
  ASSUME StoreInv', VersionAgreement', Blobbers # {}
  PROVE  \A b \in Blobbers :
           (\A e \in Blobbers : Len(log'[e]) <= Len(log'[b])) => Longest' = log'[b]
<1>1. log' \in [Blobbers -> Seq(Conns)] /\ \A b \in Blobbers : Len(log'[b]) <= MaxVersion
  BY DEF StoreInv, TypeInv, TypeOK
<1>2. \A b, d \in Blobbers : \A i \in 1 .. Len(log'[b]) : i <= Len(log'[d]) => log'[b][i] = log'[d][i]
  BY DEF VersionAgreement
<1> QED
  BY <1>1, <1>2, TopLog DEF Longest

\* A commit appends the batch to the history, or another blobber has taken the
\* same batch before.
LEMMA AppendStep ==
  ASSUME StoreInv, HistoryInv, StoreInv', HistoryInv', Blobbers # {},
         NEW c \in Conns, NEW b \in Blobbers, CommitBlobber(c, b), log' # log
  PROVE  History!AppendBatch(c) \/ UNCHANGED History!vars
<1> DEFINE v == allocationVersion[c]
<1>0. /\ v \in Nat /\ Len(log[b]) = v /\ Len(log'[b]) = v + 1 /\ log'[b][v + 1] = c
      /\ log' = Committed(b, c)
      /\ \A i \in 1 .. v : log'[b][i] = log[b][i]
      /\ \A e \in Blobbers \ {b} : log'[e] = log[e]
      /\ \A e \in Blobbers : /\ Len(log[e]) \in Nat /\ Len(log[e]) <= v + 1
                             /\ Len(log[e]) = v + 1 => log[e][v + 1] = c
  BY CommitTaken
<1> HIDE DEF v
<1>1. /\ \A d \in Blobbers : (\A e \in Blobbers : Len(log[e]) <= Len(log[d])) => Longest = log[d]
      /\ \A d \in Blobbers :
           (\A e \in Blobbers : Len(log'[e]) <= Len(log'[d])) => Longest' = log'[d]
  BY LongestLog, NextLongestLog DEF HistoryInv
<1>2. /\ result' = result /\ result[c] = "none"
      /\ \A i \in 1 .. Len(log[b]) : log[b][i] # c
  <2>1. /\ result' = result /\ pc[c] \in Committing /\ b \in todo[c]
    BY DEF CommitBlobber, Committing
  <2>2. b \notin Holding(c)
    BY <2>1 DEF StoreInv, OnceInv, Unasked
  <2> QED
    BY <2>1, <2>2 DEF HistoryInv, OwnInv, Committing, Holding
<1>3. [d \in Conns |-> Told(d)]' = [d \in Conns |-> Told(d)] /\ Told(c) = "none"
  BY <1>2 DEF Told
<1>4. CASE \E e \in Blobbers : Len(log[e]) = v + 1
  <2>1. PICK e \in Blobbers : Len(log[e]) = v + 1
    BY <1>4
  <2>2. e # b /\ log'[e] = log[e]
    BY <1>0, <2>1
  <2>3. \A d \in Blobbers : Len(log'[d]) <= v + 1
    BY <1>0
  <2>4. Longest = log[e] /\ Longest' = log'[e]
    BY <1>0, <1>1, <2>1, <2>2, <2>3
  <2> QED
    BY <1>3, <2>2, <2>4 DEF History!vars
<1>5. CASE \A e \in Blobbers : Len(log[e]) # v + 1
  <2>1. \A e \in Blobbers : Len(log[e]) <= v /\ Len(log'[e]) <= v + 1
    BY <1>0, <1>5
  <2>2. Longest = log[b] /\ Longest' = log'[b]
    BY <1>0, <1>1, <2>1
  <2>3. log'[b] = Append(log[b], c)
    BY <1>0 DEF Committed, StoreInv, TypeInv
  <2> QED
    BY <1>2, <1>3, <2>2, <2>3 DEF History!AppendBatch
<1> QED
  BY <1>4, <1>5

\* A rollback withdraws the last batch of the history, or another blobber still
\* has that batch.
LEMMA WithdrawStep ==
  ASSUME StoreInv, HistoryInv, StoreInv', HistoryInv', Blobbers # {},
         NEW b \in Blobbers, log[b] # <<>>, log' = RolledBack(b),
         result' = result, result[log[b][Len(log[b])]] # "completed"
  PROVE  History!Withdraw \/ UNCHANGED History!vars
<1>0. /\ Len(log'[b]) = Len(log[b]) - 1
      /\ \A e \in Blobbers \ {b} : log'[e] = log[e]
      /\ Len(log[b]) \in Nat \ {0} /\ log[b][Len(log[b])] \in Conns
      /\ \A e \in Blobbers : Len(log[e]) \in Nat
  BY RolledBackLog, LenProperties DEF StoreInv, TypeInv
<1>1. /\ \A d \in Blobbers : (\A e \in Blobbers : Len(log[e]) <= Len(log[d])) => Longest = log[d]
      /\ \A d \in Blobbers :
           (\A e \in Blobbers : Len(log'[e]) <= Len(log'[d])) => Longest' = log'[d]
      /\ \E d \in Blobbers : \A e \in Blobbers : Len(log[e]) <= Len(log[d])
  BY LongestLog, NextLongestLog DEF HistoryInv
<1>2. [d \in Conns |-> Told(d)]' = [d \in Conns |-> Told(d)]
  BY DEF Told
<1>3. CASE \E e \in Blobbers \ {b} : \A d \in Blobbers : Len(log[d]) <= Len(log[e])
  <2>1. PICK e \in Blobbers \ {b} : \A d \in Blobbers : Len(log[d]) <= Len(log[e])
    BY <1>3
  <2>2. \A d \in Blobbers : Len(log'[d]) <= Len(log'[e])
    BY <1>0, <2>1
  <2>3. Longest = log[e] /\ Longest' = log'[e]
    BY <1>1, <2>1, <2>2
  <2> QED
    BY <1>0, <1>2, <2>3 DEF History!vars
<1>4. CASE ~ \E e \in Blobbers \ {b} : \A d \in Blobbers : Len(log[d]) <= Len(log[e])
  <2>1. \A d \in Blobbers : Len(log[d]) <= Len(log[b])
    BY <1>1, <1>4
  <2>2. ASSUME NEW e \in Blobbers \ {b} PROVE Len(log[e]) <= Len(log[b]) - 1
    <3>1. PICK d \in Blobbers : ~(Len(log[d]) <= Len(log[e]))
      BY <1>4
    <3>2. Len(log[d]) <= Len(log[b])
      BY <2>1
    <3> QED
      BY <1>0, <3>1, <3>2
  <2>3. \A d \in Blobbers : Len(log'[d]) <= Len(log'[b])
    BY <1>0, <2>2
  <2>4. Longest = log[b] /\ Longest' = log'[b]
    BY <1>1, <2>1, <2>3
  <2>5. log'[b] = SubSeq(log[b], 1, Len(log[b]) - 1)
    BY DEF RolledBack, StoreInv, TypeInv
  <2>6. Told(log[b][Len(log[b])]) # "completed"
    BY DEF Told
  <2> QED
    BY <1>0, <1>2, <2>4, <2>5, <2>6 DEF History!Withdraw
<1> QED
  BY <1>3, <1>4

\* Process tells its caller: completed when the batch is the last of the history.
LEMMA TellStep ==
  ASSUME StoreInv, HistoryInv, Blobbers # {}, [Next]_vars, result' # result
  PROVE  \E c \in Conns : History!Complete(c) \/ History!Fail(c)
<1>1. PICK c \in Conns, r \in Results \ {"none"} :
        /\ pc[c] # "done" /\ log' = log /\ result' = [result EXCEPT ![c] = r]
        /\ r = "completed" => pc[c] \in Committing /\ Cardinality(rollbackMask[c]) >= Thresh
  BY ResultChanges
<1>2. [d \in Conns |-> Told(d)]'
        = [[d \in Conns |-> Told(d)] EXCEPT ![c] = IF r = "completed" THEN r ELSE "error"]
  BY <1>1, ToldChanges
<1>3. Longest' = Longest
  BY <1>1 DEF Longest
<1>4. Told(c) = "none"
  BY <1>1 DEF HistoryInv, OwnInv, Told
<1>5. CASE r # "completed"
  BY <1>2, <1>3, <1>4, <1>5 DEF History!Fail
<1>6. CASE r = "completed"
  <2>1. /\ TakePart(c) /\ AskPart(c) /\ rollbackMask[c] \subseteq Blobbers
        /\ allocationVersion[c] \in Nat /\ \A e \in Blobbers : Len(log[e]) \in Nat
    <3>1. TakePart(c) /\ AskPart(c)
      BY <1>1, <1>6 DEF HistoryInv, Part
    <3> QED
      BY <3>1, LenProperties, ShardsAssumption
         DEF StoreInv, TypeInv, TypeOK, Objs, Checkers, Versions
  <2>2. rollbackMask[c] # {}
    <3>1. Thresh \in Nat /\ Thresh >= 1
      BY BoundsAssumption, ShardsAssumption
    <3> QED
      BY <1>1, <1>6, <3>1, FS_EmptySet
  <2>3. PICK b \in rollbackMask[c] : TRUE
    BY <2>2
  <2>4. /\ b \in Blobbers /\ Len(log[b]) = allocationVersion[c] + 1 /\ log[b][Len(log[b])] = c
        /\ \A e \in Blobbers : Len(log[e]) <= Len(log[b])
    BY <2>1 DEF TakePart, AskPart
  <2>5. Longest = log[b]
    BY <2>4, LongestLog DEF HistoryInv
  <2>6. Longest # <<>> /\ Longest[Len(Longest)] = c
    BY <2>1, <2>4, <2>5
  <2> QED
    BY <1>2, <1>3, <1>4, <1>6, <2>6 DEF History!Complete
<1> QED
  BY <1>5, <1>6

\* Every step is a step of BatchHistory, or leaves history and outcomes alone.
LEMMA HistoryStep ==
  ASSUME Undisturbed, Blobbers # {}, StoreInv, HistoryInv, StoreInv', HistoryInv', [Next]_vars
  PROVE  [History!Next]_(History!vars)
<1>1. CASE log' = log /\ result' = result
  <2>1. Longest' = Longest /\ [d \in Conns |-> Told(d)]' = [d \in Conns |-> Told(d)]
    BY <1>1 DEF Longest, Told
  <2> QED
    BY <2>1 DEF History!vars
<1>2. CASE result' # result
  BY <1>2, TellStep DEF History!Next
<1>3. ASSUME log' # log, NEW c \in Conns, NEW b \in Blobbers, CommitBlobber(c, b)
      PROVE  [History!Next]_(History!vars)
  BY <1>3, AppendStep DEF History!Next
<1>4. ASSUME log' # log, NEW c \in Conns, NEW b \in Blobbers, UndoBlobber(c, b)
      PROVE  [History!Next]_(History!vars)
  <2>1. /\ log[b] # <<>> /\ log' = RolledBack(b) /\ log[b][Len(log[b])] = c
        /\ result' = result /\ result[c] = "none"
    BY <1>4, HistoryUndone
  <2> QED
    BY <2>1, WithdrawStep DEF History!Next
<1>5. ASSUME log' # log, NEW t \in Checkers, NEW b \in Blobbers, RollbackLatest(t, b)
      PROVE  [History!Next]_(History!vars)
  <2>1. /\ log[b] # <<>> /\ log' = RolledBack(b) /\ result' = result
        /\ result[log[b][Len(log[b])]] # "completed"
    BY <1>5, HistoryLatest
  <2> QED
    BY <2>1, WithdrawStep DEF History!Next
<1>6. ~LateCommit
  BY DEF HistoryInv, OwnInv, LateCommit
<1> QED
  BY <1>1, <1>2, <1>3, <1>4, <1>5, <1>6, LogChanges

\* The batches of all clients behave like one history: MultiOperation.Process,
\* with the status check and the rollbacks, implements BatchHistory, in which a
\* batch is appended at most once, completed only while it is the last, and
\* withdrawn only from the end and never once completed.
THEOREM OneHistoryHolds ==
  ASSUME Undisturbed, Blobbers # {}
  PROVE  Spec => OneHistory
<1>1. Init => History!Init
  BY HistoryStart
<1>2. (StoreInv /\ HistoryInv) /\ (StoreInv /\ HistoryInv)' /\ [Next]_vars
        => [History!Next]_(History!vars)
  BY HistoryStep
<1> QED
  BY <1>1, <1>2, HistoryAlways, PTL DEF Spec, OneHistory, History!Spec
=============================================================================
