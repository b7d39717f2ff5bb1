----------------------- MODULE MultiOperationProofs -----------------------
(***************************************************************************)
(* Proofs about MultiOperation, for every number of clients, blobbers and  *)
(* faults.                                                                 *)
(***************************************************************************)
EXTENDS MultiOperation, FiniteSetTheorems, SequenceTheorems, WellFoundedInduction, TLAPS

-----------------------------------------------------------------------------
(* Lemmas about the operators of the model.                                *)

\* A set of naturals that is not empty has a least member.
LEMMA LeastNatural ==
  ASSUME NEW T \in SUBSET Nat, T # {}
  PROVE  \E x \in T : \A y \in T : x <= y
<1>1. PICK x \in T : \A y \in T : <<y, x>> \notin OpToRel(<, Nat)
  BY NatLessThanWellFounded, WFMin
<1>2. \A y \in T : ~(y < x)
  BY <1>1 DEF OpToRel
<1>3. \A y \in T : x <= y
  <2> SUFFICES ASSUME NEW y \in T PROVE x <= y
    OBVIOUS
  <2>1. x \in Nat /\ y \in Nat /\ ~(y < x)
    BY <1>2
  <2> QED
    BY <2>1
<1> QED
  BY <1>3

\* A set of versions that is not empty has a highest one.
LEMMA HighestExists ==
  ASSUME NEW m, Seen(m) # {}
  PROVE  /\ Highest(m) \in Seen(m) /\ Highest(m) \in Versions
         /\ \A v \in Seen(m) : v <= Highest(m)
<1> DEFINE below == {n \in Nat : MaxVersion - n \in Seen(m)}
<1>1. below # {}
  <2>1. PICK v \in Seen(m) : v \in 0 .. MaxVersion
    BY DEF Seen, Versions
  <2>2. MaxVersion - v \in Nat /\ MaxVersion - (MaxVersion - v) = v
    BY <2>1, ShardsAssumption
  <2> QED
    BY <2>1, <2>2
<1>2. PICK x \in below : \A y \in below : x <= y
  BY <1>1, LeastNatural
<1>3. \A w \in Seen(m) : w <= MaxVersion - x
  <2> SUFFICES ASSUME NEW w \in Seen(m) PROVE w <= MaxVersion - x
    OBVIOUS
  <2>1. w \in 0 .. MaxVersion
    BY DEF Seen, Versions
  <2>2. MaxVersion - w \in Nat /\ MaxVersion - (MaxVersion - w) = w
    BY <2>1, ShardsAssumption
  <2>3. x <= MaxVersion - w
    BY <1>2, <2>2
  <2> QED
    BY <2>1, <2>3, ShardsAssumption
<1> QED
  BY <1>3 DEF Highest, Seen

\* A commit adds a batch at the end of one log.
LEMMA CommittedLog ==
  ASSUME log \in [Blobbers -> Seq(Conns)], NEW b \in Blobbers, NEW c \in Conns
  PROVE  /\ Committed(b, c) \in [Blobbers -> Seq(Conns)]
         /\ Len(Committed(b, c)[b]) = Len(log[b]) + 1
         /\ \A i \in 1 .. Len(log[b]) : Committed(b, c)[b][i] = log[b][i]
         /\ Committed(b, c)[b][Len(log[b]) + 1] = c
         /\ \A d \in Blobbers \ {b} : Committed(b, c)[d] = log[d]
<1>1. log[b] \in Seq(Conns) /\ Len(log[b]) \in Nat
  OBVIOUS
<1>2. /\ Append(log[b], c) \in Seq(Conns)
      /\ Len(Append(log[b], c)) = Len(log[b]) + 1
      /\ \A i \in 1 .. Len(log[b]) : Append(log[b], c)[i] = log[b][i]
      /\ Append(log[b], c)[Len(log[b]) + 1] = c
  BY <1>1
<1> QED
  BY <1>2 DEF Committed

\* A rollback takes the last batch of one log away.
LEMMA RolledBackLog ==
  ASSUME log \in [Blobbers -> Seq(Conns)], NEW b \in Blobbers, log[b] # <<>>
  PROVE  /\ RolledBack(b) \in [Blobbers -> Seq(Conns)]
         /\ Len(log[b]) \in Nat \ {0} /\ log[b][Len(log[b])] \in Conns
         /\ Len(RolledBack(b)[b]) = Len(log[b]) - 1
         /\ \A i \in 1 .. Len(log[b]) - 1 : RolledBack(b)[b][i] = log[b][i]
         /\ \A d \in Blobbers \ {b} : RolledBack(b)[d] = log[d]
<1>1. log[b] \in Seq(Conns) /\ Len(log[b]) \in Nat \ {0}
  BY EmptySeq
<1>2. \A i \in 1 .. Len(log[b]) : log[b][i] \in Conns
  BY <1>1, ElementOfSeq
<1> DEFINE s == SubSeq(log[b], 1, Len(log[b]) - 1)
<1>3. \A i \in 1 .. Len(log[b]) - 1 : log[b][i] \in Conns
  BY <1>1, <1>2
<1>4. /\ s \in Seq(Conns) /\ Len(s) = Len(log[b]) - 1
      /\ \A i \in 1 .. Len(log[b]) - 1 : s[i] = log[b][i]
  <2> DEFINE n == Len(log[b]) - 1
  <2>1. n \in Nat /\ 1 \in Int /\ n \in Int
    BY <1>1
  <2>2. /\ s \in Seq(Conns)
        /\ Len(s) = IF 1 <= n THEN n - 1 + 1 ELSE 0
        /\ \A i \in 1 .. n - 1 + 1 : s[i] = log[b][1 + i - 1]
    <3> HIDE DEF n
    <3> QED
      BY <1>3, <2>1, SubSeqProperties DEF n
  <2> HIDE DEF s, n
  <2>3. Len(s) = n
    BY <2>1, <2>2
  <2>4. ASSUME NEW i \in 1 .. n PROVE s[i] = log[b][i]
    <3>1. i \in 1 .. n - 1 + 1 /\ 1 + i - 1 = i
      BY <2>1
    <3> QED
      BY <2>2, <3>1
  <2> QED
    BY <2>2, <2>3, <2>4 DEF n
<1> QED
  BY <1>1, <1>2, <1>4 DEF RolledBack

\* A log in which no batch occurs twice is no longer than there are batches, and
\* shorter when some batch is not in it.
LEMMA LogLength ==
  ASSUME NEW s \in Seq(Conns), \A i, j \in 1 .. Len(s) : s[i] = s[j] => i = j
  PROVE  /\ Len(s) <= MaxVersion
         /\ \A c \in Conns : (\A i \in 1 .. Len(s) : s[i] # c) => Len(s) + 1 <= MaxVersion
<1>1. Len(s) \in Nat /\ s \in [1 .. Len(s) -> Conns]
  BY LenProperties
<1>2. IsFiniteSet(1 .. Len(s)) /\ Cardinality(1 .. Len(s)) = Len(s)
  <2>1. /\ IsFiniteSet(1 .. Len(s))
        /\ Cardinality(1 .. Len(s)) = IF 1 > Len(s) THEN 0 ELSE Len(s) - 1 + 1
    <3>1. 1 \in Int /\ Len(s) \in Int
      BY <1>1
    <3> QED
      BY <3>1, FS_Interval, Zenon
  <2> QED
    BY <1>1, <2>1
<1>3. s \in Injection(1 .. Len(s), Conns)
  BY <1>1 DEF Injection, IsInjective
<1>4. Cardinality(Conns) \in Nat /\ Len(s) <= Cardinality(Conns)
  BY <1>2, <1>3, FS_Injection, FS_CardinalityType, BoundsAssumption
<1>5. ASSUME NEW c \in Conns, \A i \in 1 .. Len(s) : s[i] # c
      PROVE  Len(s) + 1 <= MaxVersion
  <2>1. IsFiniteSet(Conns \ {c}) /\ Cardinality(Conns \ {c}) = Cardinality(Conns) - 1
    BY FS_RemoveElement, BoundsAssumption
  <2>2. s \in Injection(1 .. Len(s), Conns \ {c})
    BY <1>1, <1>5 DEF Injection, IsInjective
  <2>3. Len(s) <= Cardinality(Conns) - 1
    BY <1>2, <2>1, <2>2, FS_Injection
  <2> QED
    BY <1>1, <1>4, <2>3, ShardsAssumption, BoundsAssumption
<1> QED
  BY <1>1, <1>4, <1>5, ShardsAssumption, BoundsAssumption

-----------------------------------------------------------------------------
(* What holds however the processes interleave and whatever goes wrong.    *)

\* Where Process is before it asks a blobber to commit, while the blobbers
\* answer, and as long as it holds the lock.
Before == {"idle", "ops", "lock", "read", "rolling"} \cup Statuses
Committing == {"commit", "hang"}
Locked == {"read", "rolling", "commit", "hang", "undo"} \cup Statuses

TypeInv ==
  /\ TypeOK
  /\ log \in [Blobbers -> Seq(Conns)]
  /\ changeCount \in [Conns -> Nat]

\* The status check, the commits and the rollbacks of a batch hold the lock.
LockInv == \A c \in Conns : pc[c] \in Locked => owner = c

\* The blobber has not been asked to commit the batch.
Unasked(c, b) == pc[c] \in Before \/ (pc[c] \in Committing /\ b \in todo[c])

\* A blobber is asked once to commit a batch: it is not in the log, nor on its
\* way, before it is asked for, so it never occurs twice.
OnceInv ==
  /\ \A b \in Blobbers : \A i, j \in 1 .. Len(log[b]) : log[b][i] = log[b][j] => i = j
  /\ \A c \in Conns, b \in Blobbers :
       Unasked(c, b) => b \notin Holding(c) /\ \A v \in Versions : <<c, b, v>> \notin inflight
  /\ \A c \in Conns, b \in Blobbers, v \in Versions : <<c, b, v>> \in inflight =>
       b \notin Holding(c) /\ \A w \in Versions : <<c, b, w>> \in inflight => w = v

\* The rollbacks of a status check are counted once each, and nothing has been
\* committed before the commit requests.
CountInv ==
  /\ \A t \in Checkers :
       /\ pc[t] \in {"idle", "ops", "lock", "read"} => errCnt[t] = 0
       /\ pc[t] = "rolling" => errCnt[t] + Cardinality(todo[t]) <= Cardinality(Blobbers)
  /\ \A c \in Conns : pc[c] \in Before => rollbackMask[c] = {}

\* The commits of a batch are for the blobbers at the version of the allocation,
\* and those acknowledged were below the highest version.
TargetInv ==
  \A c \in Conns : pc[c] \in Committing =>
    /\ \A b \in todo[c] \cup rollbackMask[c] :
         blobberVersion[Obj(c)][b] = allocationVersion[Obj(c)]
    /\ \A b \in rollbackMask[c] : blobberVersion[Obj(c)][b] < MaxVersion

StoreInv == TypeInv /\ LockInv /\ OnceInv /\ CountInv /\ TargetInv

\* Sets of blobbers are finite.
LEMMA BlobberSets ==
  ASSUME NEW S \in SUBSET Blobbers
  PROVE  /\ IsFiniteSet(S) /\ Cardinality(S) \in Nat
         /\ Cardinality(S) <= Cardinality(Blobbers)
BY ShardsAssumption, FS_Subset, FS_CardinalityType

\* Taking a blobber out of a set makes it smaller by one.
LEMMA RemoveBlobber ==
  ASSUME NEW S \in SUBSET Blobbers, NEW b \in S
  PROVE  Cardinality(S \ {b}) = Cardinality(S) - 1
BY BlobberSets, FS_RemoveElement

\* A commit adds one blobber to the holders of its batch only.
LEMMA HoldingCommitted ==
  ASSUME TypeInv, NEW b \in Blobbers, NEW c \in Conns, log' = Committed(b, c)
  PROVE  \A d \in Conns : Holding(d)' = IF d = c THEN Holding(d) \cup {b} ELSE Holding(d)
<1>1. /\ log' \in [Blobbers -> Seq(Conns)]
      /\ Len(log'[b]) = Len(log[b]) + 1
      /\ \A i \in 1 .. Len(log[b]) : log'[b][i] = log[b][i]
      /\ log'[b][Len(log[b]) + 1] = c
      /\ \A e \in Blobbers \ {b} : log'[e] = log[e]
      /\ Len(log[b]) \in Nat
  BY CommittedLog DEF TypeInv
<1>2. ASSUME NEW d \in Conns, NEW e \in Blobbers
      PROVE  e \in Holding(d)' <=> e \in Holding(d) \/ (e = b /\ d = c)
  <2>1. CASE e # b
    BY <1>1, <2>1 DEF Holding
  <2>2. CASE e = b
    <3>1. b \in Holding(d)' <=> \E i \in 1 .. Len(log[b]) + 1 : log'[b][i] = d
      BY <1>1 DEF Holding
    <3>2. (\E i \in 1 .. Len(log[b]) + 1 : log'[b][i] = d)
            <=> (\E i \in 1 .. Len(log[b]) : log[b][i] = d) \/ d = c
      <4>1. \A i : i \in 1 .. Len(log[b]) + 1
                     <=> i \in 1 .. Len(log[b]) \/ i = Len(log[b]) + 1
        BY <1>1
      <4> QED
        BY <1>1, <4>1
    <3> QED
      BY <2>2, <3>1, <3>2 DEF Holding
  <2> QED
    BY <2>1, <2>2
<1> QED
  BY <1>2 DEF Holding

\* A rollback takes the blobber from the holders of the last batch only.
LEMMA HoldingRolledBack ==
  ASSUME TypeInv, OnceInv, NEW b \in Blobbers, log[b] # <<>>, log' = RolledBack(b)
  PROVE  LET last == log[b][Len(log[b])]
         IN  \A d \in Conns : Holding(d)' = IF d = last THEN Holding(d) \ {b} ELSE Holding(d)
<1>1. /\ log' \in [Blobbers -> Seq(Conns)]
      /\ Len(log'[b]) = Len(log[b]) - 1
      /\ \A i \in 1 .. Len(log[b]) - 1 : log'[b][i] = log[b][i]
      /\ \A e \in Blobbers \ {b} : log'[e] = log[e]
      /\ Len(log[b]) \in Nat \ {0}
  BY RolledBackLog DEF TypeInv
<1>2. \A i, j \in 1 .. Len(log[b]) : log[b][i] = log[b][j] => i = j
  BY DEF OnceInv
<1>3. ASSUME NEW d \in Conns, NEW e \in Blobbers
      PROVE  e \in Holding(d)' <=> e \in Holding(d) /\ ~(e = b /\ d = log[b][Len(log[b])])
  <2>1. CASE e # b
    BY <1>1, <2>1 DEF Holding
  <2>2. CASE e = b
    <3>1. b \in Holding(d) <=> \E i \in 1 .. Len(log[b]) : log[b][i] = d
      BY DEF Holding
    <3>2. b \in Holding(d)' <=> \E i \in 1 .. Len(log[b]) - 1 : log[b][i] = d
      BY <1>1 DEF Holding
    <3>3. d = log[b][Len(log[b])] => ~ \E i \in 1 .. Len(log[b]) - 1 : log[b][i] = d
      BY <1>1, <1>2
    <3>4. d # log[b][Len(log[b])] =>
            ((\E i \in 1 .. Len(log[b]) : log[b][i] = d) =>
               \E i \in 1 .. Len(log[b]) - 1 : log[b][i] = d)
      BY <1>1
    <3> QED
      BY <2>2, <3>1, <3>2, <3>3, <3>4, <1>1
  <2> QED
    BY <2>1, <2>2
<1> QED
  BY <1>3 DEF Holding

\* The lock is kept until Process returns.
LEMMA LockStep == StoreInv /\ [Next]_vars => LockInv'
<1> SUFFICES ASSUME StoreInv, [Next]_vars PROVE LockInv'
  OBVIOUS
<1> USE ProcessesAssumption DEF StoreInv, TypeInv, TypeOK, LockInv, Locked, Statuses, Checkers
<1>1. ASSUME NEW c \in Conns, CreateConnections(c) PROVE LockInv'
  BY <1>1 DEF CreateConnections, Return
<1>2. ASSUME NEW c \in Conns, ProcessOperation(c) PROVE LockInv'
  BY <1>2 DEF ProcessOperation
<1>3. ASSUME NEW c \in Conns, OperationsFailed(c) PROVE LockInv'
  BY <1>3 DEF OperationsFailed, Fault, Return
<1>4. ASSUME NEW c \in Conns, OperationsDone(c) PROVE LockInv'
  BY <1>4 DEF OperationsDone, Return
<1>5. ASSUME NEW c \in Conns, LockTaken(c) PROVE LockInv'
  BY <1>5 DEF LockTaken
<1>6. ASSUME NEW c \in Conns, LockFailed(c) PROVE LockInv'
  BY <1>6 DEF LockFailed, Fault, Return
<1>7. ASSUME NEW c \in Conns, StatusReturned(c) PROVE LockInv'
  BY <1>7 DEF StatusReturned, Return
<1>8. ASSUME NEW c \in Conns, SendCommits(c) PROVE LockInv'
  <2>1. pc' \in {[pc EXCEPT ![c] = x] : x \in {"commit", "hang", "done"}}
        /\ pc[c] = "Commit" /\ (owner' = owner \/ pc'[c] = "done")
    BY <1>8 DEF SendCommits, Return
  <2> QED
    BY <2>1
<1>9. ASSUME NEW c \in Conns, NEW b \in Blobbers, CommitBlobber(c, b) PROVE LockInv'
  BY <1>9 DEF CommitBlobber, Fault
<1>10. ASSUME NEW c \in Conns, CommitsDone(c) PROVE LockInv'
  BY <1>10 DEF CommitsDone, Return
<1>11. ASSUME NEW c \in Conns, NEW b \in Blobbers, UndoBlobber(c, b) PROVE LockInv'
  BY <1>11 DEF UndoBlobber, Fault
<1>12. ASSUME NEW c \in Conns, UndoDone(c) PROVE LockInv'
  BY <1>12 DEF UndoDone, Return
<1>13. ASSUME NEW c \in Conns, Crash(c) PROVE LockInv'
  BY <1>13 DEF Crash, Fault
<1>14. ASSUME NEW p \in Probes, StartProbe(p) PROVE LockInv'
  BY <1>14 DEF StartProbe
<1>15. ASSUME NEW t \in Checkers, NEW b \in Blobbers, ReadMarker(t, b) PROVE LockInv'
  BY <1>15 DEF ReadMarker, Fault
<1>16. ASSUME NEW t \in Checkers, Decide(t) PROVE LockInv'
  BY <1>16 DEF Decide
<1>17. ASSUME NEW t \in Checkers, NEW b \in Blobbers, RollbackLatest(t, b) PROVE LockInv'
  BY <1>17 DEF RollbackLatest, Fault
<1>18. ASSUME NEW t \in Checkers, RollbacksDone(t) PROVE LockInv'
  BY <1>18 DEF RollbacksDone, RollbackStatus
<1>19. CASE LockLapses
  BY <1>19 DEF LockLapses
<1>20. CASE LateCommit
  BY <1>20 DEF LateCommit
<1>21. CASE UNCHANGED vars
  BY <1>21 DEF vars
<1> QED
  BY <1>1, <1>2, <1>3, <1>4, <1>5, <1>6, <1>7, <1>8, <1>9, <1>10, <1>11, <1>12,
     <1>13, <1>14, <1>15, <1>16, <1>17, <1>18, <1>19, <1>20, <1>21 DEF Next,
     CheckSteps, ProcessSteps

\* A blobber that has been asked to commit a batch is not asked again.
LEMMA UnaskedStep ==
  ASSUME TypeInv, [Next]_vars
  PROVE  \A c \in Conns, b \in Blobbers : Unasked(c, b)' => Unasked(c, b)
<1> DEFINE Goal == \A d \in Conns, e \in Blobbers : Unasked(d, e)' => Unasked(d, e)
<1> SUFFICES Goal
  OBVIOUS
<1> USE ProcessesAssumption
    DEF TypeInv, TypeOK, Unasked, Before, Committing, Statuses, Checkers
<1>1. ASSUME NEW c \in Conns, CreateConnections(c) PROVE Goal
  BY <1>1 DEF CreateConnections, Return
<1>2. ASSUME NEW c \in Conns, ProcessOperation(c) PROVE Goal
  BY <1>2 DEF ProcessOperation
<1>3. ASSUME NEW c \in Conns, OperationsFailed(c) PROVE Goal
  BY <1>3 DEF OperationsFailed, Fault, Return
<1>4. ASSUME NEW c \in Conns, OperationsDone(c) PROVE Goal
  BY <1>4 DEF OperationsDone, Return
<1>5. ASSUME NEW c \in Conns, LockTaken(c) PROVE Goal
  BY <1>5 DEF LockTaken
<1>6. ASSUME NEW c \in Conns, LockFailed(c) PROVE Goal
  BY <1>6 DEF LockFailed, Fault, Return
<1>7. ASSUME NEW c \in Conns, StatusReturned(c) PROVE Goal
  BY <1>7 DEF StatusReturned, Return
<1>8. ASSUME NEW c \in Conns, SendCommits(c) PROVE Goal
  BY <1>8 DEF SendCommits, Fault, Return
<1>9. ASSUME NEW c \in Conns, NEW b \in Blobbers, CommitBlobber(c, b) PROVE Goal
  BY <1>9 DEF CommitBlobber, Fault
<1>10. ASSUME NEW c \in Conns, CommitsDone(c) PROVE Goal
  BY <1>10 DEF CommitsDone, Return
<1>11. ASSUME NEW c \in Conns, NEW b \in Blobbers, UndoBlobber(c, b) PROVE Goal
  BY <1>11 DEF UndoBlobber, Fault
<1>12. ASSUME NEW c \in Conns, UndoDone(c) PROVE Goal
  BY <1>12 DEF UndoDone, Return
<1>13. ASSUME NEW c \in Conns, Crash(c) PROVE Goal
  BY <1>13 DEF Crash, Fault
<1>14. ASSUME NEW p \in Probes, StartProbe(p) PROVE Goal
  BY <1>14 DEF StartProbe
<1>15. ASSUME NEW t \in Checkers, NEW b \in Blobbers, ReadMarker(t, b) PROVE Goal
  BY <1>15 DEF ReadMarker, Fault
<1>16. ASSUME NEW t \in Checkers, Decide(t) PROVE Goal
  BY <1>16 DEF Decide
<1>17. ASSUME NEW t \in Checkers, NEW b \in Blobbers, RollbackLatest(t, b) PROVE Goal
  BY <1>17 DEF RollbackLatest, Fault
<1>18. ASSUME NEW t \in Checkers, RollbacksDone(t) PROVE Goal
  BY <1>18 DEF RollbacksDone, RollbackStatus
<1>19. CASE LockLapses
  BY <1>19 DEF LockLapses
<1>20. CASE LateCommit
  BY <1>20 DEF LateCommit
<1>21. CASE UNCHANGED vars
  BY <1>21 DEF vars
<1> QED
  BY <1>1, <1>2, <1>3, <1>4, <1>5, <1>6, <1>7, <1>8, <1>9, <1>10, <1>11, <1>12,
     <1>13, <1>14, <1>15, <1>16, <1>17, <1>18, <1>19, <1>20, <1>21 DEF Next,
     CheckSteps, ProcessSteps

\* What a step may do to the logs of the blobbers and the requests on their way.
LEMMA OnceStep == StoreInv /\ [Next]_vars => OnceInv'
<1> SUFFICES ASSUME StoreInv, [Next]_vars PROVE OnceInv'
  OBVIOUS
<1> USE DEF StoreInv
<1>0. \A c \in Conns, b \in Blobbers : Unasked(c, b)' => Unasked(c, b)
  BY UnaskedStep
<1>1. CASE UNCHANGED storeVars
  BY <1>0, <1>1 DEF OnceInv, storeVars, Holding
<1>2. ASSUME NEW b \in Blobbers, log[b] # <<>>, log' = RolledBack(b), inflight' = inflight
      PROVE  OnceInv'
  <2>1. \A c \in Conns : Holding(c)' \subseteq Holding(c)
    BY <1>2, HoldingRolledBack
  <2>2. \A d \in Blobbers : \A i, j \in 1 .. Len(log'[d]) : log'[d][i] = log'[d][j] => i = j
    <3>1. /\ Len(log[b]) \in Nat \ {0} /\ Len(log'[b]) = Len(log[b]) - 1
          /\ \A i \in 1 .. Len(log[b]) - 1 : log'[b][i] = log[b][i]
          /\ \A d \in Blobbers \ {b} : log'[d] = log[d]
      BY <1>2, RolledBackLog DEF TypeInv
    <3>2. \A i, j \in 1 .. Len(log[b]) : log[b][i] = log[b][j] => i = j
      BY DEF OnceInv
    <3>3. \A i, j \in 1 .. Len(log'[b]) : log'[b][i] = log'[b][j] => i = j
      BY <3>1, <3>2
    <3> QED
      BY <3>1, <3>3 DEF OnceInv
  <2> QED
    BY <1>0, <1>2, <2>1, <2>2 DEF OnceInv
<1>3. ASSUME NEW b \in Blobbers, NEW c \in Conns, b \notin Holding(c), log' = Committed(b, c),
             ~Unasked(c, b)', inflight' \subseteq inflight,
             \A v \in Versions : <<c, b, v>> \notin inflight'
      PROVE  OnceInv'
  <2>1. \A d \in Conns : Holding(d)' = IF d = c THEN Holding(d) \cup {b} ELSE Holding(d)
    BY <1>3, HoldingCommitted
  <2>2. \A d \in Blobbers : \A i, j \in 1 .. Len(log'[d]) : log'[d][i] = log'[d][j] => i = j
    <3>1. /\ Len(log[b]) \in Nat /\ Len(log'[b]) = Len(log[b]) + 1
          /\ \A i \in 1 .. Len(log[b]) : log'[b][i] = log[b][i]
          /\ log'[b][Len(log[b]) + 1] = c
          /\ \A d \in Blobbers \ {b} : log'[d] = log[d]
      <4>1. log \in [Blobbers -> Seq(Conns)] /\ Len(log[b]) \in Nat
        BY DEF TypeInv
      <4>2. /\ Len(Committed(b, c)[b]) = Len(log[b]) + 1
            /\ \A i \in 1 .. Len(log[b]) : Committed(b, c)[b][i] = log[b][i]
            /\ Committed(b, c)[b][Len(log[b]) + 1] = c
            /\ \A d \in Blobbers \ {b} : Committed(b, c)[d] = log[d]
        BY <4>1, CommittedLog
      <4>3. log' = Committed(b, c)
        BY <1>3
      <4> QED
        BY <4>1, <4>2, <4>3
    <3>2. \A i, j \in 1 .. Len(log[b]) : log[b][i] = log[b][j] => i = j
      BY DEF OnceInv
    <3>3. \A i \in 1 .. Len(log[b]) : log[b][i] # c
      BY <1>3 DEF Holding
    <3>4. \A i \in 1 .. Len(log'[b]) : i \in 1 .. Len(log[b]) \/ i = Len(log[b]) + 1
      BY <3>1
    <3>5. \A i, j \in 1 .. Len(log'[b]) : log'[b][i] = log'[b][j] => i = j
      BY <3>1, <3>2, <3>3, <3>4
    <3> QED
      BY <3>1, <3>5 DEF OnceInv
  <2> QED
    BY <1>0, <1>3, <2>1, <2>2 DEF OnceInv
<1>4. ASSUME NEW t \in Checkers, NEW b \in Blobbers, RollbackLatest(t, b) PROVE OnceInv'
  <2>1. inflight' = inflight /\ (log' = log \/ (log[b] # <<>> /\ log' = RolledBack(b)))
    BY <1>4 DEF RollbackLatest
  <2> QED
    BY <1>1, <1>2, <2>1 DEF storeVars
<1>5. ASSUME NEW c \in Conns, NEW b \in Blobbers, UndoBlobber(c, b) PROVE OnceInv'
  <2>1. inflight' = inflight /\ (log' = log \/ (log[b] # <<>> /\ log' = RolledBack(b)))
    BY <1>5 DEF UndoBlobber, faultVars
  <2> QED
    BY <1>1, <1>2, <2>1 DEF storeVars
<1>6. ASSUME NEW c \in Conns, NEW b \in Blobbers, CommitBlobber(c, b) PROVE OnceInv'
  <2>1. /\ Unasked(c, b) /\ ~Unasked(c, b)'
    BY <1>6 DEF CommitBlobber, Unasked, Before, Committing, Statuses, TypeInv, TypeOK, Checkers
  <2>2. b \notin Holding(c) /\ \A v \in Versions : <<c, b, v>> \notin inflight
    BY <2>1 DEF OnceInv
  <2>3. CASE log' = Committed(b, c) /\ inflight' = inflight
    BY <1>3, <2>1, <2>2, <2>3
  <2>4. CASE UNCHANGED storeVars
    BY <1>1, <2>4
  <2>5. CASE log' = log /\ inflight' = inflight \cup {<<c, b, blobberVersion[Obj(c)][b] + 1>>}
    <3>1. \A d \in Conns : Holding(d)' = Holding(d)
      BY <2>5 DEF Holding
    <3> QED
      BY <1>0, <2>1, <2>2, <2>5, <3>1 DEF OnceInv
  <2> QED
    BY <1>6, <2>3, <2>4, <2>5 DEF CommitBlobber, storeVars
<1>7. CASE LateCommit
  <2>1. PICK r \in inflight :
          /\ inflight' = inflight \ {r}
          /\ log' = IF Len(log[r[2]]) + 1 = r[3] THEN Committed(r[2], r[1]) ELSE log
          /\ UNCHANGED <<pc, todo>>
    BY <1>7 DEF LateCommit
  <2>2. PICK c \in Conns, b \in Blobbers, v \in Versions : r = <<c, b, v>>
    BY DEF TypeInv, TypeOK
  <2>3. /\ b \notin Holding(c) /\ ~Unasked(c, b)' /\ inflight' \subseteq inflight
        /\ \A w \in Versions : <<c, b, w>> \notin inflight'
    BY <1>0, <2>1, <2>2 DEF OnceInv
  <2>4. CASE log' = Committed(b, c)
    BY <1>3, <2>3, <2>4
  <2>5. CASE log' = log
    <3>1. \A d \in Conns : Holding(d)' = Holding(d)
      BY <2>5 DEF Holding
    <3> QED
      BY <1>0, <2>3, <2>5, <3>1 DEF OnceInv
  <2> QED
    BY <2>1, <2>2, <2>4, <2>5
<1> QED
  BY <1>1, <1>4, <1>5, <1>6, <1>7
     DEF Next, CheckSteps, ProcessSteps, CreateConnections, OperationsFailed, ProcessOperation,
         OperationsDone, LockTaken, LockFailed, StatusReturned, SendCommits, CommitsDone, UndoDone,
         Crash, StartProbe, ReadMarker, Decide, RollbacksDone, LockLapses, vars

\* The objects of the checks are those of the clients.
LEMMA ObjType == \A t \in Checkers : Obj(t) \in Objs
BY DEF Obj, Objs

\* The types of the control variables.
ControlType ==
  /\ singleClientMode \in Modes
  /\ owner \in Conns \cup {NoConn}
  /\ pc \in [Checkers -> Phases]
  /\ result \in [Conns -> Results]
  /\ budget \in 0 .. MaxFaults

\* The types of the sets of blobbers.
MaskType ==
  /\ mask \in [Conns -> SUBSET Blobbers]
  /\ todo \in [Checkers -> SUBSET Blobbers]
  /\ rollbackMask \in [Conns -> SUBSET Blobbers]
  /\ doubt \in [Conns -> SUBSET Blobbers]

\* Every step keeps the types of the program counters and statuses.
LEMMA ControlTypeStep == ControlType /\ [Next]_vars => ControlType'
<1> SUFFICES ASSUME ControlType, [Next]_vars PROVE ControlType'
  OBVIOUS
<1> USE ProcessesAssumption, BoundsAssumption
    DEF ControlType, Phases, Results, Statuses, Checkers, faultVars
<1>1. ASSUME NEW c \in Conns, CreateConnections(c) PROVE ControlType'
  BY <1>1 DEF CreateConnections, Return
<1>2. ASSUME NEW c \in Conns, ProcessOperation(c) PROVE ControlType'
  BY <1>2 DEF ProcessOperation
<1>3. ASSUME NEW c \in Conns, OperationsFailed(c) PROVE ControlType'
  BY <1>3 DEF OperationsFailed, Fault, Return
<1>4. ASSUME NEW c \in Conns, OperationsDone(c) PROVE ControlType'
  BY <1>4 DEF OperationsDone, Return
<1>5. ASSUME NEW c \in Conns, LockTaken(c) PROVE ControlType'
  BY <1>5 DEF LockTaken
<1>6. ASSUME NEW c \in Conns, LockFailed(c) PROVE ControlType'
  BY <1>6 DEF LockFailed, Fault, Return
<1>7. ASSUME NEW c \in Conns, StatusReturned(c) PROVE ControlType'
  BY <1>7 DEF StatusReturned, Return
<1>8. ASSUME NEW c \in Conns, SendCommits(c) PROVE ControlType'
  BY <1>8 DEF SendCommits, Fault, Return
<1>9. ASSUME NEW c \in Conns, NEW b \in Blobbers, CommitBlobber(c, b) PROVE ControlType'
  BY <1>9 DEF CommitBlobber, Fault
<1>10. ASSUME NEW c \in Conns, CommitsDone(c) PROVE ControlType'
  BY <1>10 DEF CommitsDone, Return
<1>11. ASSUME NEW c \in Conns, NEW b \in Blobbers, UndoBlobber(c, b) PROVE ControlType'
  BY <1>11 DEF UndoBlobber, Fault
<1>12. ASSUME NEW c \in Conns, UndoDone(c) PROVE ControlType'
  BY <1>12 DEF UndoDone, Return
<1>13. ASSUME NEW c \in Conns, Crash(c) PROVE ControlType'
  BY <1>13 DEF Crash, Fault
<1>14. ASSUME NEW p \in Probes, StartProbe(p) PROVE ControlType'
  BY <1>14 DEF StartProbe
<1>15. ASSUME NEW t \in Checkers, NEW b \in Blobbers, ReadMarker(t, b) PROVE ControlType'
  BY <1>15 DEF ReadMarker, Fault
<1>16. ASSUME NEW t \in Checkers, Decide(t) PROVE ControlType'
  BY <1>16 DEF Decide
<1>17. ASSUME NEW t \in Checkers, NEW b \in Blobbers, RollbackLatest(t, b) PROVE ControlType'
  BY <1>17 DEF RollbackLatest, Fault
<1>18. ASSUME NEW t \in Checkers, RollbacksDone(t) PROVE ControlType'
  BY <1>18 DEF RollbacksDone, RollbackStatus
<1>19. CASE LockLapses
  BY <1>19 DEF LockLapses
<1>20. CASE LateCommit
  BY <1>20 DEF LateCommit
<1>21. CASE UNCHANGED vars
  BY <1>21 DEF vars
<1> QED
  BY <1>1, <1>2, <1>3, <1>4, <1>5, <1>6, <1>7, <1>8, <1>9, <1>10, <1>11, <1>12,
     <1>13, <1>14, <1>15, <1>16, <1>17, <1>18, <1>19, <1>20, <1>21 DEF Next,
     CheckSteps, ProcessSteps

\* Every step keeps the types of the masks and sets of blobbers.
LEMMA MaskTypeStep == MaskType /\ [Next]_vars => MaskType'
<1> SUFFICES ASSUME MaskType, [Next]_vars PROVE MaskType'
  OBVIOUS
<1> USE DEF MaskType, Checkers, opVars, faultVars
<1>1. ASSUME NEW c \in Conns, CreateConnections(c) PROVE MaskType'
  BY <1>1 DEF CreateConnections, Return
<1>2. ASSUME NEW c \in Conns, ProcessOperation(c) PROVE MaskType'
  BY <1>2 DEF ProcessOperation
<1>3. ASSUME NEW c \in Conns, OperationsFailed(c) PROVE MaskType'
  BY <1>3 DEF OperationsFailed, Fault, Return
<1>4. ASSUME NEW c \in Conns, OperationsDone(c) PROVE MaskType'
  BY <1>4 DEF OperationsDone, Return
<1>5. ASSUME NEW c \in Conns, LockTaken(c) PROVE MaskType'
  BY <1>5 DEF LockTaken
<1>6. ASSUME NEW c \in Conns, LockFailed(c) PROVE MaskType'
  BY <1>6 DEF LockFailed, Fault, Return
<1>7. ASSUME NEW c \in Conns, StatusReturned(c) PROVE MaskType'
  BY <1>7 DEF StatusReturned, Return
<1>8. ASSUME NEW c \in Conns, SendCommits(c) PROVE MaskType'
  BY <1>8 DEF SendCommits, Fault, Return
<1>9. ASSUME NEW c \in Conns, NEW b \in Blobbers, CommitBlobber(c, b) PROVE MaskType'
  BY <1>9 DEF CommitBlobber, Fault
<1>10. ASSUME NEW c \in Conns, CommitsDone(c) PROVE MaskType'
  BY <1>10 DEF CommitsDone, Return
<1>11. ASSUME NEW c \in Conns, NEW b \in Blobbers, UndoBlobber(c, b) PROVE MaskType'
  BY <1>11 DEF UndoBlobber, Fault
<1>12. ASSUME NEW c \in Conns, UndoDone(c) PROVE MaskType'
  BY <1>12 DEF UndoDone, Return
<1>13. ASSUME NEW c \in Conns, Crash(c) PROVE MaskType'
  BY <1>13 DEF Crash, Fault
<1>14. ASSUME NEW p \in Probes, StartProbe(p) PROVE MaskType'
  BY <1>14 DEF StartProbe
<1>15. ASSUME NEW t \in Checkers, NEW b \in Blobbers, ReadMarker(t, b) PROVE MaskType'
  BY <1>15 DEF ReadMarker, Fault
<1>16. ASSUME NEW t \in Checkers, Decide(t) PROVE MaskType'
  BY <1>16 DEF Decide, At
<1>17. ASSUME NEW t \in Checkers, NEW b \in Blobbers, RollbackLatest(t, b) PROVE MaskType'
  BY <1>17 DEF RollbackLatest, Fault
<1>18. ASSUME NEW t \in Checkers, RollbacksDone(t) PROVE MaskType'
  BY <1>18 DEF RollbacksDone
<1>19. CASE LockLapses
  BY <1>19 DEF LockLapses
<1>20. CASE LateCommit
  BY <1>20 DEF LateCommit
<1>21. CASE UNCHANGED vars
  BY <1>21 DEF vars
<1> QED
  BY <1>1, <1>2, <1>3, <1>4, <1>5, <1>6, <1>7, <1>8, <1>9, <1>10, <1>11, <1>12,
     <1>13, <1>14, <1>15, <1>16, <1>17, <1>18, <1>19, <1>20, <1>21 DEF Next,
     CheckSteps, ProcessSteps

\* A log never outgrows the versions, and a request on its way is for one.
LEMMA StoreTypeStep ==
  ASSUME StoreInv, [Next]_vars
  PROVE  /\ log' \in [Blobbers -> Seq(Conns)]
         /\ \A b \in Blobbers : Len(log'[b]) <= MaxVersion
         /\ inflight' \subseteq Conns \X Blobbers \X Versions
<1> USE DEF StoreInv
<1>0. log \in [Blobbers -> Seq(Conns)] /\ inflight \subseteq Conns \X Blobbers \X Versions
  BY DEF TypeInv, TypeOK
<1> DEFINE Goal == /\ log' \in [Blobbers -> Seq(Conns)]
                   /\ inflight' \subseteq Conns \X Blobbers \X Versions
<1>1. ASSUME UNCHANGED storeVars PROVE Goal
  BY <1>0, <1>1 DEF storeVars
<1>2. ASSUME NEW t \in Checkers, NEW b \in Blobbers, RollbackLatest(t, b) PROVE Goal
  <2>1. inflight' = inflight /\ (log' = log \/ (log[b] # <<>> /\ log' = RolledBack(b)))
    BY <1>2 DEF RollbackLatest
  <2> QED
    BY <1>0, <2>1, RolledBackLog
<1>3. ASSUME NEW c \in Conns, NEW b \in Blobbers, UndoBlobber(c, b) PROVE Goal
  <2>1. inflight' = inflight /\ (log' = log \/ (log[b] # <<>> /\ log' = RolledBack(b)))
    BY <1>3 DEF UndoBlobber, faultVars
  <2> QED
    BY <1>0, <2>1, RolledBackLog
<1>4. ASSUME NEW c \in Conns, NEW b \in Blobbers, CommitBlobber(c, b) PROVE Goal
  <2>1. /\ log' = log \/ log' = Committed(b, c)
        /\ \/ inflight' = inflight
           \/ inflight' = inflight \cup {<<c, b, Len(log[b]) + 1>>}
    BY <1>4 DEF CommitBlobber, storeVars
  <2>2. Len(log[b]) + 1 \in Versions
    <3>1. b \notin Holding(c)
      BY <1>4 DEF CommitBlobber, OnceInv, Unasked, Committing
    <3>2. /\ log[b] \in Seq(Conns) /\ Len(log[b]) \in Nat
          /\ \A i \in 1 .. Len(log[b]) : log[b][i] # c
          /\ \A i, j \in 1 .. Len(log[b]) : log[b][i] = log[b][j] => i = j
      BY <1>0, <3>1 DEF Holding, OnceInv
    <3>3. Len(log[b]) + 1 <= MaxVersion
      BY <3>2, LogLength
    <3> QED
      BY <3>2, <3>3, ShardsAssumption DEF Versions
  <2> QED
    BY <1>0, <2>1, <2>2, CommittedLog
<1>5. ASSUME LateCommit PROVE Goal
  <2>1. PICK r \in inflight :
          /\ inflight' = inflight \ {r}
          /\ log' = IF Len(log[r[2]]) + 1 = r[3] THEN Committed(r[2], r[1]) ELSE log
    BY <1>5 DEF LateCommit
  <2>2. r[1] \in Conns /\ r[2] \in Blobbers
    BY <1>0
  <2>3. Committed(r[2], r[1]) \in [Blobbers -> Seq(Conns)]
    BY <1>0, <2>2, CommittedLog
  <2> QED
    BY <1>0, <2>1, <2>3
<1>6. Goal
  BY <1>1, <1>2, <1>3, <1>4, <1>5
     DEF Next, CheckSteps, ProcessSteps, CreateConnections, OperationsFailed, ProcessOperation,
         OperationsDone, LockTaken, LockFailed, StatusReturned, SendCommits, CommitsDone, UndoDone,
         Crash, StartProbe, ReadMarker, Decide, RollbacksDone, LockLapses, vars
<1>7. ASSUME NEW b \in Blobbers PROVE Len(log'[b]) <= MaxVersion
  <2>1. log'[b] \in Seq(Conns)
    BY <1>6
  <2>2. \A i, j \in 1 .. Len(log'[b]) : log'[b][i] = log'[b][j] => i = j
    BY OnceStep DEF OnceInv
  <2> QED
    BY <2>1, <2>2, LogLength
<1> QED
  BY <1>6, <1>7

\* The operations of a batch that changed something are among those processed.
LEMMA OpsTypeStep ==
  ASSUME TypeInv, [Next]_vars
  PROVE  /\ ops' \in [Conns -> 0 .. MaxOps] /\ changeCount' \in [Conns -> Nat]
         /\ \A c \in Conns : changeCount'[c] \in 0 .. ops'[c]
<1>1. CASE UNCHANGED <<ops, changeCount>>
  BY <1>1 DEF TypeInv, TypeOK
<1>2. ASSUME NEW c \in Conns, ProcessOperation(c)
      PROVE  /\ ops' \in [Conns -> 0 .. MaxOps] /\ changeCount' \in [Conns -> Nat]
             /\ \A d \in Conns : changeCount'[d] \in 0 .. ops'[d]
  BY <1>2, BoundsAssumption DEF ProcessOperation, TypeInv, TypeOK
<1>3. ASSUME NEW c \in Conns, ProcessSteps(c), ~ProcessOperation(c)
      PROVE  UNCHANGED <<ops, changeCount>>
  BY <1>3 DEF ProcessSteps, OperationsDone, LockTaken, LockFailed, StatusReturned, SendCommits,
       CommitBlobber, CommitsDone, UndoBlobber, UndoDone, opVars
<1>4. ASSUME NEW c \in Conns, CreateConnections(c) \/ OperationsFailed(c) \/ Crash(c)
      PROVE  UNCHANGED <<ops, changeCount>>
  BY <1>4 DEF CreateConnections, OperationsFailed, Crash, opVars
<1>5. ASSUME NEW t \in Checkers, CheckSteps(t)
      PROVE  UNCHANGED <<ops, changeCount>>
  BY <1>5 DEF CheckSteps, ReadMarker, Decide, RollbackLatest, RollbacksDone, opVars
<1>6. ASSUME (\E p \in Probes : StartProbe(p)) \/ LockLapses \/ LateCommit \/ UNCHANGED vars
      PROVE  UNCHANGED <<ops, changeCount>>
  BY <1>6 DEF StartProbe, LockLapses, LateCommit, vars, opVars
<1> QED
  BY <1>1, <1>2, <1>3, <1>4, <1>5, <1>6 DEF Next

\* The markers a check has read, the rollbacks it counts.
LEMMA CheckTypeStep ==
  ASSUME StoreInv, [Next]_vars
  PROVE  /\ marker' \in [Checkers -> [Blobbers -> Markers]]
         /\ errCnt' \in [Checkers -> 0 .. Cardinality(Blobbers)]
<1> DEFINE Goal == /\ marker' \in [Checkers -> [Blobbers -> Markers]]
                   /\ errCnt' \in [Checkers -> 0 .. Cardinality(Blobbers)]
<1> USE DEF StoreInv, TypeInv, TypeOK
<1>1. CASE UNCHANGED checkVars
  BY <1>1 DEF checkVars
<1>2. ASSUME NEW t \in Checkers, NEW b \in Blobbers, ReadMarker(t, b) PROVE Goal
  <2>1. Unreachable \in Markers /\ \A m \in MarkersOf(b) : m \in Markers
    <3>1. Len(log[b]) \in Nat /\ Len(log[b]) <= MaxVersion
      BY LenProperties
    <3> QED
      BY <3>1, ShardsAssumption DEF MarkersOf, Markers, Versions
  <2>2. errCnt' = errCnt
    BY <1>2 DEF ReadMarker
  <2>3. PICK m \in Markers : marker' = [marker EXCEPT ![t][b] = m]
    BY <1>2, <2>1 DEF ReadMarker
  <2> QED
    BY <2>2, <2>3
<1>3. ASSUME NEW t \in Checkers, NEW b \in Blobbers, RollbackLatest(t, b) PROVE Goal
  <2>1. pc[t] = "rolling" /\ b \in todo[t] /\ marker' = marker
        /\ (errCnt' = errCnt \/ errCnt' = [errCnt EXCEPT ![t] = @ + 1])
    BY <1>3 DEF RollbackLatest
  <2>2. errCnt[t] + Cardinality(todo[t]) <= Cardinality(Blobbers)
    BY <2>1 DEF CountInv
  <2>3. Cardinality(todo[t]) \in Nat \ {0} /\ Cardinality(Blobbers) \in Nat
    BY <2>1, BlobberSets, FS_EmptySet
  <2>4. errCnt[t] + 1 \in 0 .. Cardinality(Blobbers)
    BY <2>2, <2>3
  <2> QED
    BY <2>1, <2>4
<1>4. ASSUME NEW c \in Conns, ProcessSteps(c) PROVE UNCHANGED checkVars
  BY <1>4 DEF ProcessSteps, ProcessOperation, OperationsDone, LockTaken, LockFailed,
       StatusReturned, SendCommits, CommitBlobber, CommitsDone, UndoBlobber, UndoDone
<1>5. ASSUME NEW c \in Conns, CreateConnections(c) \/ OperationsFailed(c) \/ Crash(c)
      PROVE  UNCHANGED checkVars
  BY <1>5 DEF CreateConnections, OperationsFailed, Crash
<1>6. ASSUME NEW t \in Checkers, Decide(t) \/ RollbacksDone(t) PROVE UNCHANGED checkVars
  BY <1>6 DEF Decide, RollbacksDone
<1>7. ASSUME (\E p \in Probes : StartProbe(p)) \/ LockLapses \/ LateCommit \/ UNCHANGED vars
      PROVE  UNCHANGED checkVars
  BY <1>7 DEF StartProbe, LockLapses, LateCommit, vars, checkVars
<1> QED
  BY <1>1, <1>2, <1>3, <1>4, <1>5, <1>6, <1>7 DEF Next, CheckSteps

\* The versions a client has read or counted up to are versions of markers.
LEMMA VersionTypeStep ==
  ASSUME StoreInv, [Next]_vars
  PROVE  /\ blobberVersion' \in [Objs -> [Blobbers -> Versions]]
         /\ allocationVersion' \in [Objs -> Versions]
         /\ checkStatus' \in [Objs -> BOOLEAN]
<1> DEFINE Goal == /\ blobberVersion' \in [Objs -> [Blobbers -> Versions]]
                   /\ allocationVersion' \in [Objs -> Versions]
                   /\ checkStatus' \in [Objs -> BOOLEAN]
<1> USE DEF StoreInv, TypeInv, TypeOK
<1>1. ASSUME UNCHANGED objVars PROVE Goal
  BY <1>1 DEF objVars
<1>2. ASSUME NEW t \in Checkers, NEW b \in Blobbers, ReadMarker(t, b) PROVE Goal
  <2>1. \A m \in MarkersOf(b) : m = NoMarker \/ m \in Versions
    <3>1. Len(log[b]) \in Nat /\ Len(log[b]) <= MaxVersion
      BY LenProperties
    <3> QED
      BY <3>1, ShardsAssumption DEF MarkersOf, Versions
  <2>2. UNCHANGED <<allocationVersion, checkStatus>>
    BY <1>2 DEF ReadMarker
  <2>3. Obj(t) \in Objs
    BY ObjType
  <2>4. CASE blobberVersion' = blobberVersion
    BY <2>2, <2>4
  <2>5. ASSUME NEW m \in MarkersOf(b),
               blobberVersion' = [blobberVersion EXCEPT ![Obj(t)][b] = IF m = NoMarker THEN @ ELSE m]
        PROVE  Goal
    BY <2>1, <2>2, <2>3, <2>5
  <2> QED
    BY <1>2, <2>4, <2>5 DEF ReadMarker
<1>3. ASSUME NEW t \in Checkers, Decide(t) PROVE Goal
  <2>1. Seen(marker[t]) # {} => Highest(marker[t]) \in Versions
    BY HighestExists
  <2>2. UNCHANGED <<blobberVersion, checkStatus>>
    BY <1>3 DEF Decide
  <2>3. \/ UNCHANGED allocationVersion
        \/ \E v \in Versions : allocationVersion' = [allocationVersion EXCEPT ![Obj(t)] = v]
    BY <1>3, <2>1, ObjType DEF Decide
  <2> QED
    BY <2>2, <2>3, ObjType
<1>4. ASSUME NEW c \in Conns, CommitsDone(c) PROVE Goal
  <2>1. CASE UNCHANGED <<blobberVersion, allocationVersion>>
    BY <1>4, <2>1 DEF CommitsDone
  <2>2. CASE /\ Cardinality(rollbackMask[c]) >= Thresh
             /\ blobberVersion' = [blobberVersion EXCEPT ![Obj(c)] =
                  [b \in Blobbers |-> IF b \in rollbackMask[c] THEN @[b] + 1 ELSE @[b]]]
             /\ allocationVersion' = [allocationVersion EXCEPT ![Obj(c)] = @ + 1]
    <3>1. Obj(c) \in Objs
      BY ObjType DEF Checkers
    <3>2. /\ \A b \in rollbackMask[c] : /\ blobberVersion[Obj(c)][b] = allocationVersion[Obj(c)]
                                        /\ blobberVersion[Obj(c)][b] < MaxVersion
      BY <1>4 DEF CommitsDone, TargetInv, Committing
    <3>3. rollbackMask[c] # {}
      <4>1. rollbackMask[c] = {} => Cardinality(rollbackMask[c]) = 0
        BY FS_EmptySet
      <4> QED
        BY <2>2, <4>1, BoundsAssumption, ShardsAssumption
    <3>4. allocationVersion[Obj(c)] + 1 \in Versions
      BY <3>1, <3>2, <3>3, ShardsAssumption DEF Versions
    <3>5. \A b \in Blobbers : (IF b \in rollbackMask[c] THEN blobberVersion[Obj(c)][b] + 1
                               ELSE blobberVersion[Obj(c)][b]) \in Versions
      BY <3>1, <3>2, <3>4
    <3>6. checkStatus' = checkStatus
      BY <1>4 DEF CommitsDone
    <3> QED
      BY <2>2, <3>1, <3>4, <3>5, <3>6
  <2> QED
    BY <1>4, <2>1, <2>2 DEF CommitsDone
<1>5. ASSUME NEW c \in Conns, StatusReturned(c) \/ SendCommits(c) PROVE Goal
  <2>1. UNCHANGED <<blobberVersion, allocationVersion>>
    BY <1>5 DEF StatusReturned, SendCommits
  <2>2. \/ checkStatus' = checkStatus
        \/ checkStatus' = [checkStatus EXCEPT ![Obj(c)] = @ \/ singleClientMode]
    BY <1>5 DEF StatusReturned, SendCommits
  <2>3. checkStatus' \in [Objs -> BOOLEAN]
    BY <2>2, Zenon
  <2> QED
    BY <2>1, <2>3
<1>6. ASSUME NEW c \in Conns, ProcessSteps(c),
             ~StatusReturned(c), ~SendCommits(c), ~CommitsDone(c)
      PROVE  UNCHANGED objVars
  BY <1>6 DEF ProcessSteps, ProcessOperation, OperationsDone, LockTaken, LockFailed,
       CommitBlobber, UndoBlobber, UndoDone
<1>7. ASSUME NEW c \in Conns, CreateConnections(c) \/ OperationsFailed(c) \/ Crash(c)
      PROVE  UNCHANGED objVars
  BY <1>7 DEF CreateConnections, OperationsFailed, Crash
<1>8. ASSUME NEW t \in Checkers, NEW b \in Blobbers, RollbackLatest(t, b) \/ RollbacksDone(t)
      PROVE  UNCHANGED objVars
  BY <1>8 DEF RollbackLatest, RollbacksDone
<1>9. ASSUME (\E p \in Probes : StartProbe(p)) \/ LockLapses \/ LateCommit \/ UNCHANGED vars
             \/ \E t \in Checkers : RollbacksDone(t)
      PROVE  UNCHANGED objVars
  BY <1>9 DEF StartProbe, LockLapses, LateCommit, RollbacksDone, vars, objVars
<1> QED
  BY <1>1, <1>2, <1>3, <1>4, <1>5, <1>6, <1>7, <1>8, <1>9 DEF Next, CheckSteps

\* Each check counts its rollbacks once.
LEMMA CountStep == StoreInv /\ [Next]_vars => CountInv'
<1> SUFFICES ASSUME StoreInv, [Next]_vars PROVE CountInv'
  OBVIOUS
<1>0. /\ pc \in [Checkers -> Phases] /\ errCnt \in [Checkers -> Nat]
      /\ rollbackMask \in [Conns -> SUBSET Blobbers] /\ todo \in [Checkers -> SUBSET Blobbers]
      /\ CountInv
  BY BlobberSets DEF StoreInv, TypeInv, TypeOK
<1> USE <1>0, ProcessesAssumption
    DEF CountInv, Checkers, Before, Committing, Statuses, checkVars
<1>1. ASSUME NEW c \in Conns, CreateConnections(c) PROVE CountInv'
  BY <1>1 DEF CreateConnections, Return
<1>2. ASSUME NEW c \in Conns, ProcessOperation(c) PROVE CountInv'
  BY <1>2 DEF ProcessOperation
<1>3. ASSUME NEW c \in Conns, OperationsFailed(c) PROVE CountInv'
  BY <1>3 DEF OperationsFailed, Fault, Return
<1>4. ASSUME NEW c \in Conns, OperationsDone(c) PROVE CountInv'
  BY <1>4 DEF OperationsDone, Return
<1>5. ASSUME NEW c \in Conns, LockTaken(c) PROVE CountInv'
  BY <1>5 DEF LockTaken
<1>6. ASSUME NEW c \in Conns, LockFailed(c) PROVE CountInv'
  BY <1>6 DEF LockFailed, Fault, Return
<1>7. ASSUME NEW c \in Conns, StatusReturned(c) PROVE CountInv'
  BY <1>7 DEF StatusReturned, Return
<1>8. ASSUME NEW c \in Conns, SendCommits(c) PROVE CountInv'
  BY <1>8 DEF SendCommits, Fault, Return
<1>9. ASSUME NEW c \in Conns, NEW b \in Blobbers, CommitBlobber(c, b) PROVE CountInv'
  BY <1>9 DEF CommitBlobber, Fault
<1>10. ASSUME NEW c \in Conns, CommitsDone(c) PROVE CountInv'
  BY <1>10 DEF CommitsDone, Return
<1>11. ASSUME NEW c \in Conns, NEW b \in Blobbers, UndoBlobber(c, b) PROVE CountInv'
  BY <1>11 DEF UndoBlobber, Fault
<1>12. ASSUME NEW c \in Conns, UndoDone(c) PROVE CountInv'
  BY <1>12 DEF UndoDone, Return
<1>13. ASSUME NEW c \in Conns, Crash(c) PROVE CountInv'
  BY <1>13 DEF Crash, Fault
<1>14. ASSUME NEW p \in Probes, StartProbe(p) PROVE CountInv'
  BY <1>14 DEF StartProbe
<1>15. ASSUME NEW t \in Checkers, NEW b \in Blobbers, ReadMarker(t, b) PROVE CountInv'
  BY <1>15 DEF ReadMarker, Fault
<1>16. ASSUME NEW t \in Checkers, Decide(t) PROVE CountInv'
  <2>1. errCnt[t] = 0 /\ errCnt' = errCnt /\ rollbackMask' = rollbackMask /\ pc[t] = "read"
    BY <1>16 DEF Decide
  <2>2. pc' = [pc EXCEPT ![t] = "Broken"] \/ pc' = [pc EXCEPT ![t] = "Commit"]
        \/ (pc' = [pc EXCEPT ![t] = "rolling"]
              /\ todo' = [todo EXCEPT ![t] = At(marker[t], Highest(marker[t]))])
    BY <1>16 DEF Decide
  <2>3. /\ Cardinality(At(marker[t], Highest(marker[t]))) <= Cardinality(Blobbers)
        /\ Cardinality(At(marker[t], Highest(marker[t]))) \in Nat
    BY BlobberSets DEF At
  <2>4. todo' = todo \/ pc' = [pc EXCEPT ![t] = "rolling"]
    BY <1>16 DEF Decide
  <2> QED
    BY <2>1, <2>2, <2>3, <2>4
<1>17. ASSUME NEW t \in Checkers, NEW b \in Blobbers, RollbackLatest(t, b) PROVE CountInv'
  <2>1. /\ pc[t] = "rolling" /\ b \in todo[t] /\ todo' = [todo EXCEPT ![t] = @ \ {b}]
        /\ errCnt' = errCnt \/ errCnt' = [errCnt EXCEPT ![t] = @ + 1]
        /\ UNCHANGED <<pc, rollbackMask>>
    BY <1>17 DEF RollbackLatest
  <2>2. /\ Cardinality(todo[t]) \in Nat /\ Cardinality(Blobbers) \in Nat
        /\ Cardinality(todo[t] \ {b}) = Cardinality(todo[t]) - 1
    BY <2>1, BlobberSets, RemoveBlobber
  <2> QED
    BY <2>1, <2>2
<1>18. ASSUME NEW t \in Checkers, RollbacksDone(t) PROVE CountInv'
  BY <1>18 DEF RollbacksDone, RollbackStatus
<1>19. CASE LockLapses
  BY <1>19 DEF LockLapses
<1>20. CASE LateCommit
  BY <1>20 DEF LateCommit
<1>21. CASE UNCHANGED vars
  BY <1>21 DEF vars
<1> QED
  BY <1>1, <1>2, <1>3, <1>4, <1>5, <1>6, <1>7, <1>8, <1>9, <1>10, <1>11, <1>12,
     <1>13, <1>14, <1>15, <1>16, <1>17, <1>18, <1>19, <1>20, <1>21 DEF Next,
     CheckSteps, ProcessSteps

\* The mode never changes, so neither does the object a process works with.
LEMMA ModeFixed ==
  ASSUME [Next]_vars
  PROVE  singleClientMode' = singleClientMode
<1>1. ASSUME NEW c \in Conns, ProcessSteps(c) PROVE singleClientMode' = singleClientMode
  BY <1>1 DEF ProcessSteps, ProcessOperation, OperationsDone, LockTaken, LockFailed,
       StatusReturned, SendCommits, CommitBlobber, CommitsDone, UndoBlobber, UndoDone
<1>2. ASSUME NEW c \in Conns, CreateConnections(c) \/ OperationsFailed(c) \/ Crash(c)
      PROVE  singleClientMode' = singleClientMode
  BY <1>2 DEF CreateConnections, OperationsFailed, Crash
<1>3. ASSUME NEW t \in Checkers, CheckSteps(t) PROVE singleClientMode' = singleClientMode
  BY <1>3 DEF CheckSteps, ReadMarker, Decide, RollbackLatest, RollbacksDone
<1>4. ASSUME (\E p \in Probes : StartProbe(p)) \/ LockLapses \/ LateCommit \/ UNCHANGED vars
      PROVE  singleClientMode' = singleClientMode
  BY <1>4 DEF StartProbe, LockLapses, LateCommit, vars
<1> QED
  BY <1>1, <1>2, <1>3, <1>4 DEF Next

\* Nobody else that holds the lock, and no probe, shares the object of a batch
\* that is being committed.
LEMMA OwnObject ==
  ASSUME LockInv, NEW c \in Conns, pc[c] \in Committing,
         NEW t \in Checkers, t # c, t \in Conns => pc[t] \in Locked
  PROVE  Obj(t) # Obj(c)
BY ProcessesAssumption DEF LockInv, Obj, Checkers, Committing, Locked

\* While a batch is being committed the versions of its object do not change.
LEMMA TargetStep == StoreInv /\ [Next]_vars => TargetInv'
<1> SUFFICES ASSUME StoreInv, [Next]_vars PROVE TargetInv'
  OBVIOUS
<1>0. /\ pc \in [Checkers -> Phases] /\ blobberVersion \in [Objs -> [Blobbers -> Versions]]
      /\ allocationVersion \in [Objs -> Versions]
      /\ rollbackMask \in [Conns -> SUBSET Blobbers] /\ todo \in [Checkers -> SUBSET Blobbers]
      /\ TargetInv /\ LockInv
      /\ \A t \in Checkers : Obj(t)' = Obj(t) /\ Obj(t) \in Objs
  BY ModeFixed, ObjType DEF StoreInv, TypeInv, TypeOK, Obj
<1> USE <1>0, ProcessesAssumption
    DEF TargetInv, Checkers, Committing, Statuses, objVars, faultVars
<1>1. ASSUME NEW c \in Conns, CreateConnections(c) PROVE TargetInv'
  BY <1>1 DEF CreateConnections, Return
<1>2. ASSUME NEW c \in Conns, ProcessOperation(c) PROVE TargetInv'
  BY <1>2 DEF ProcessOperation
<1>3. ASSUME NEW c \in Conns, OperationsFailed(c) PROVE TargetInv'
  BY <1>3 DEF OperationsFailed, Fault, Return
<1>4. ASSUME NEW c \in Conns, OperationsDone(c) PROVE TargetInv'
  BY <1>4 DEF OperationsDone, Return
<1>5. ASSUME NEW c \in Conns, LockTaken(c) PROVE TargetInv'
  BY <1>5 DEF LockTaken
<1>6. ASSUME NEW c \in Conns, LockFailed(c) PROVE TargetInv'
  BY <1>6 DEF LockFailed, Fault, Return
<1>7. ASSUME NEW c \in Conns, StatusReturned(c) PROVE TargetInv'
  BY <1>7 DEF StatusReturned, Return
<1>8. ASSUME NEW c \in Conns, SendCommits(c) PROVE TargetInv'
  <2>1. rollbackMask[c] = {}
    BY <1>8 DEF SendCommits, StoreInv, CountInv, Before
  <2>2. UNCHANGED <<blobberVersion, allocationVersion, rollbackMask>>
    BY <1>8 DEF SendCommits
  <2>3. \/ pc' = [pc EXCEPT ![c] = "done"] /\ todo' = todo
        \/ /\ pc' = [pc EXCEPT ![c] = "commit"] \/ pc' = [pc EXCEPT ![c] = "hang"]
           /\ \E S \in SUBSET {b \in Blobbers : blobberVersion[Obj(c)][b] = allocationVersion[Obj(c)]} :
                todo' = [todo EXCEPT ![c] = S]
    BY <1>8 DEF SendCommits, Return, StoreInv, TypeInv, TypeOK
  <2> QED
    BY <2>1, <2>2, <2>3
<1>9. ASSUME NEW c \in Conns, NEW b \in Blobbers, CommitBlobber(c, b) PROVE TargetInv'
  <2>1. /\ todo' = [todo EXCEPT ![c] = @ \ {b}] /\ b \in todo[c]
        /\ UNCHANGED <<pc, blobberVersion, allocationVersion>>
    BY <1>9 DEF CommitBlobber
  <2>2. CASE rollbackMask' = rollbackMask
    BY <2>1, <2>2
  <2>3. CASE /\ rollbackMask' = [rollbackMask EXCEPT ![c] = @ \cup {b}]
             /\ blobberVersion[Obj(c)][b] + 1 = Len(log[b]) + 1
    <3>1. b \notin Holding(c)
      BY <1>9 DEF CommitBlobber, StoreInv, OnceInv, Unasked
    <3>2. /\ log[b] \in Seq(Conns) /\ Len(log[b]) \in Nat
          /\ \A i \in 1 .. Len(log[b]) : log[b][i] # c
          /\ \A i, j \in 1 .. Len(log[b]) : log[b][i] = log[b][j] => i = j
      BY <3>1 DEF Holding, StoreInv, OnceInv, TypeInv
    <3>3. Len(log[b]) + 1 <= MaxVersion
      BY <3>2, LogLength
    <3>4. blobberVersion[Obj(c)][b] < MaxVersion
      BY <2>3, <3>2, <3>3, ShardsAssumption DEF Versions
    <3> QED
      BY <2>1, <2>3, <3>4
  <2> QED
    BY <1>9, <2>2, <2>3 DEF CommitBlobber
<1>10. ASSUME NEW c \in Conns, CommitsDone(c) PROVE TargetInv'
  <2>1. /\ rollbackMask' = rollbackMask /\ pc[c] = "commit"
        /\ pc' \in {[pc EXCEPT ![c] = x] : x \in {"done", "undo"}}
        /\ \A u \in Checkers \ {c} : todo'[u] = todo[u]
        /\ \A o \in Objs \ {Obj(c)} : /\ blobberVersion'[o] = blobberVersion[o]
                                      /\ allocationVersion'[o] = allocationVersion[o]
    BY <1>10 DEF CommitsDone, Return
  <2>2. \A d \in Conns : pc[d] \in Committing => d = c
    BY <2>1 DEF LockInv, Locked
  <2> QED
    BY <2>1, <2>2
<1>11. ASSUME NEW c \in Conns, NEW b \in Blobbers, UndoBlobber(c, b) PROVE TargetInv'
  BY <1>11 DEF UndoBlobber, Fault
<1>12. ASSUME NEW c \in Conns, UndoDone(c) PROVE TargetInv'
  BY <1>12 DEF UndoDone, Return
<1>13. ASSUME NEW c \in Conns, Crash(c) PROVE TargetInv'
  BY <1>13 DEF Crash, Fault
<1>14. ASSUME NEW p \in Probes, StartProbe(p) PROVE TargetInv'
  BY <1>14 DEF StartProbe
<1>15. ASSUME NEW t \in Checkers, NEW b \in Blobbers, ReadMarker(t, b) PROVE TargetInv'
  <2>1. /\ UNCHANGED <<pc, allocationVersion, rollbackMask>> /\ pc[t] = "read"
        /\ todo' = [todo EXCEPT ![t] = @ \ {b}]
        /\ \/ blobberVersion' = blobberVersion
           \/ \E v : blobberVersion' = [blobberVersion EXCEPT ![Obj(t)][b] = v]
    BY <1>15 DEF ReadMarker
  <2>2. \A c \in Conns : pc[c] \in Committing => Obj(t) # Obj(c)
    BY <2>1, OwnObject DEF Locked
  <2>3. \A c \in Conns : pc[c] \in Committing => blobberVersion'[Obj(c)] = blobberVersion[Obj(c)]
    BY <2>1, <2>2
  <2> QED
    BY <2>1, <2>3
<1>16. ASSUME NEW t \in Checkers, Decide(t) PROVE TargetInv'
  <2>1. /\ UNCHANGED <<blobberVersion, rollbackMask>> /\ pc[t] = "read"
        /\ pc' \in {[pc EXCEPT ![t] = x] : x \in {"Broken", "Commit", "rolling"}}
        /\ \A u \in Checkers \ {t} : todo'[u] = todo[u]
        /\ \/ allocationVersion' = allocationVersion
           \/ \E v : allocationVersion' = [allocationVersion EXCEPT ![Obj(t)] = v]
    BY <1>16 DEF Decide
  <2>2. \A c \in Conns : pc[c] \in Committing => Obj(t) # Obj(c)
    BY <2>1, OwnObject DEF Locked
  <2>3. \A c \in Conns : pc[c] \in Committing =>
          allocationVersion'[Obj(c)] = allocationVersion[Obj(c)]
    BY <2>1, <2>2
  <2> QED
    BY <2>1, <2>3
<1>17. ASSUME NEW t \in Checkers, NEW b \in Blobbers, RollbackLatest(t, b) PROVE TargetInv'
  BY <1>17 DEF RollbackLatest, Fault
<1>18. ASSUME NEW t \in Checkers, RollbacksDone(t) PROVE TargetInv'
  BY <1>18 DEF RollbacksDone, RollbackStatus
<1>19. CASE LockLapses
  BY <1>19 DEF LockLapses
<1>20. CASE LateCommit
  BY <1>20 DEF LateCommit
<1>21. CASE UNCHANGED vars
  BY <1>21 DEF vars
<1> QED
  BY <1>1, <1>2, <1>3, <1>4, <1>5, <1>6, <1>7, <1>8, <1>9, <1>10, <1>11, <1>12,
     <1>13, <1>14, <1>15, <1>16, <1>17, <1>18, <1>19, <1>20, <1>21 DEF Next,
     CheckSteps, ProcessSteps

\* Nothing is committed before the first batch.
LEMMA StoreInit == Init => StoreInv
<1> SUFFICES ASSUME Init PROVE StoreInv
  OBVIOUS
<1>1. 0 \in Versions /\ NoMarker \in Markers /\ 0 \in 0 .. Cardinality(Blobbers)
      /\ 0 \in 0 .. MaxOps /\ MaxFaults \in 0 .. MaxFaults
  BY BlobberSets, BoundsAssumption, ShardsAssumption DEF Versions, Markers
<1>2. log \in [Blobbers -> Seq(Conns)] /\ \A b \in Blobbers : log[b] = <<>> /\ Len(log[b]) = 0
  BY EmptySeq DEF Init
<1>3. TypeInv
  <2>1. \A b \in Blobbers : log[b] \in Seq(Conns) /\ Len(log[b]) <= MaxVersion
    BY <1>2, ShardsAssumption
  <2>2. /\ ops \in [Conns -> 0 .. MaxOps] /\ changeCount \in [Conns -> Nat]
        /\ \A c \in Conns : changeCount[c] \in 0 .. ops[c]
    BY <1>1 DEF Init
  <2>3. /\ blobberVersion \in [Objs -> [Blobbers -> Versions]]
        /\ allocationVersion \in [Objs -> Versions] /\ checkStatus \in [Objs -> BOOLEAN]
        /\ marker \in [Checkers -> [Blobbers -> Markers]]
        /\ errCnt \in [Checkers -> 0 .. Cardinality(Blobbers)]
    BY <1>1 DEF Init
  <2> QED
    BY <1>1, <1>2, <2>1, <2>2, <2>3 DEF Init, TypeInv, TypeOK, Phases, Results
<1>4. LockInv /\ CountInv /\ TargetInv
  BY DEF Init, LockInv, Locked, Statuses, CountInv, TargetInv, Committing, Checkers
<1>5. OnceInv
  BY <1>2 DEF Init, OnceInv, Holding
<1> QED
  BY <1>3, <1>4, <1>5 DEF StoreInv

\* The parts of the invariant carry each other from step to step.
LEMMA StoreNext == StoreInv /\ [Next]_vars => StoreInv'
<1> SUFFICES ASSUME StoreInv, [Next]_vars PROVE StoreInv'
  OBVIOUS
<1>1. ControlType' /\ MaskType'
  BY ControlTypeStep, MaskTypeStep DEF StoreInv, TypeInv, TypeOK, ControlType, MaskType
<1>2. TypeInv'
  BY <1>1, StoreTypeStep, OpsTypeStep, CheckTypeStep, VersionTypeStep
     DEF StoreInv, TypeInv, TypeOK, ControlType, MaskType
<1> QED
  BY <1>2, LockStep, OnceStep, CountStep, TargetStep DEF StoreInv

\* The invariant holds throughout.
LEMMA StoreAlways == Spec => []StoreInv
BY StoreInit, StoreNext, PTL DEF Spec

\* The variables of the MultiOperation.Process model keep their types: whatever
\* goes wrong, no blobber commits more versions than there are batches, and the
\* versions a client counts up to exist.
THEOREM TypeCorrect == Spec => []TypeOK
<1>1. StoreInv => TypeOK
  BY DEF StoreInv, TypeInv
<1> QED
  BY <1>1, StoreAlways, PTL

-----------------------------------------------------------------------------
(* What a batch that failed leaves behind, when no request is executed     *)
(* after its client has given up on it.                                    *)

\* The lock keeps others from committing on top of a batch that is being
\* committed or undone; the blobbers that have it acknowledged it, are still to
\* undo it, or answered with an error.
UndoneInv ==
  /\ inflight = {}
  /\ \A c \in Conns : result[c] # "none" => pc[c] = "done"
  /\ \A c \in Conns : \A b \in Holding(c) :
       /\ pc[c] \in Committing \cup {"undo"} => log[b][Len(log[b])] = c
       /\ pc[c] \in Committing => b \in rollbackMask[c] \cup doubt[c]
       /\ pc[c] = "undo" => b \in todo[c] \cup doubt[c]
  /\ FailedUndone

\* A step that leaves the logs alone.
LEMMA UndoneControl ==
  ASSUME "late" \notin Faults, StoreInv, UndoneInv, [Next]_vars, log' = log
  PROVE  UndoneInv'
<1> DEFINE Part(d, e) ==
      /\ pc[d] \in Committing \cup {"undo"} => log[e][Len(log[e])] = d
      /\ pc[d] \in Committing => e \in rollbackMask[d] \cup doubt[d]
      /\ pc[d] = "undo" => e \in todo[d] \cup doubt[d]
      /\ result[d] \in {"error", "repair", "retry", "nil"} => e \in doubt[d]
<1>a. /\ inflight = {} /\ \A c \in Conns : result[c] # "none" => pc[c] = "done"
      /\ \A c \in Conns : \A b \in Holding(c) : Part(c, b)
  BY DEF UndoneInv, FailedUndone
<1>b. \A c \in Conns : Holding(c)' = Holding(c)
  BY DEF Holding
<1>c. \A c \in Conns : \A b \in Holding(c) : pc[c] \notin Before
  BY DEF Holding, StoreInv, OnceInv, Unasked
<1>d. /\ pc \in [Checkers -> Phases] /\ result \in [Conns -> Results]
      /\ rollbackMask \in [Conns -> SUBSET Blobbers] /\ todo \in [Checkers -> SUBSET Blobbers]
      /\ doubt \in [Conns -> SUBSET Blobbers] /\ Conns \subseteq Checkers
  BY DEF StoreInv, TypeInv, TypeOK, Checkers
<1> DEFINE Goal ==
      /\ inflight' = {}
      /\ \A d \in Conns : result'[d] # "none" => pc'[d] = "done"
      /\ \A d \in Conns : \A e \in Holding(d) :
           /\ pc'[d] \in Committing \cup {"undo"} => log[e][Len(log[e])] = d
           /\ pc'[d] \in Committing => e \in rollbackMask'[d] \cup doubt'[d]
           /\ pc'[d] = "undo" => e \in todo'[d] \cup doubt'[d]
           /\ result'[d] \in {"error", "repair", "retry", "nil"} => e \in doubt'[d]
<1> SUFFICES Goal
  BY <1>b DEF UndoneInv, FailedUndone
<1> USE <1>a, <1>c, <1>d DEF Before, Committing, Statuses, storeVars, faultVars
<1>1. ASSUME NEW c \in Conns, CreateConnections(c) PROVE Goal
  BY <1>1 DEF CreateConnections, Return
<1>2. ASSUME NEW c \in Conns, ProcessOperation(c) PROVE Goal
  BY <1>2 DEF ProcessOperation
<1>3. ASSUME NEW c \in Conns, OperationsFailed(c) PROVE Goal
  BY <1>3 DEF OperationsFailed, Fault, Return
<1>4. ASSUME NEW c \in Conns, OperationsDone(c) PROVE Goal
  BY <1>4 DEF OperationsDone, Return
<1>5. ASSUME NEW c \in Conns, LockTaken(c) PROVE Goal
  BY <1>5 DEF LockTaken
<1>6. ASSUME NEW c \in Conns, LockFailed(c) PROVE Goal
  BY <1>6 DEF LockFailed, Fault, Return
<1>7. ASSUME NEW c \in Conns, StatusReturned(c) PROVE Goal
  BY <1>7 DEF StatusReturned, Return
<1>8. ASSUME NEW c \in Conns, SendCommits(c) PROVE Goal
  BY <1>8 DEF SendCommits, Fault, Return
<1>9. ASSUME NEW c \in Conns, NEW b \in Blobbers, CommitBlobber(c, b) PROVE Goal
  BY <1>9 DEF CommitBlobber, Fault
<1>10. ASSUME NEW c \in Conns, CommitsDone(c) PROVE Goal
  BY <1>10 DEF CommitsDone, Return
<1>11. ASSUME NEW c \in Conns, NEW b \in Blobbers, UndoBlobber(c, b) PROVE Goal
  <2>1. log[b] # <<>> => RolledBack(b) # log
    BY RolledBackLog DEF StoreInv, TypeInv
  <2>2. log[b] = <<>> => b \notin Holding(c)
    BY DEF Holding
  <2>3. /\ UNCHANGED <<inflight, result, rollbackMask, pc>> /\ pc[c] = "undo"
        /\ todo' = [todo EXCEPT ![c] = @ \ {b}]
        /\ \/ UNCHANGED doubt /\ log[b] = <<>>
           \/ doubt' = [doubt EXCEPT ![c] = @ \cup {b}]
    BY <1>11, <2>1 DEF UndoBlobber
  <2> QED
    BY <2>2, <2>3
<1>12. ASSUME NEW c \in Conns, UndoDone(c) PROVE Goal
  BY <1>12 DEF UndoDone, Return
<1>13. ASSUME NEW c \in Conns, Crash(c) PROVE Goal
  BY <1>13 DEF Crash, Fault
<1>14. ASSUME NEW p \in Probes, StartProbe(p) PROVE Goal
  BY <1>14 DEF StartProbe
<1>15. ASSUME NEW t \in Checkers, NEW b \in Blobbers, ReadMarker(t, b) PROVE Goal
  BY <1>15 DEF ReadMarker, Fault
<1>16. ASSUME NEW t \in Checkers, Decide(t) PROVE Goal
  <2>1. /\ UNCHANGED <<inflight, result, rollbackMask, doubt>> /\ pc[t] = "read"
        /\ pc' \in {[pc EXCEPT ![t] = x] : x \in {"Broken", "Commit", "rolling"}}
        /\ \A u \in Checkers \ {t} : todo'[u] = todo[u]
    BY <1>16 DEF Decide
  <2> QED
    BY <2>1
<1>17. ASSUME NEW t \in Checkers, NEW b \in Blobbers, RollbackLatest(t, b) PROVE Goal
  BY <1>17 DEF RollbackLatest, Fault
<1>18. ASSUME NEW t \in Checkers, RollbacksDone(t) PROVE Goal
  BY <1>18 DEF RollbacksDone
<1>19. CASE LockLapses
  BY <1>19 DEF LockLapses
<1>20. CASE LateCommit
  BY <1>20 DEF LateCommit
<1>21. CASE UNCHANGED vars
  BY <1>21 DEF vars
<1> QED
  BY <1>1, <1>2, <1>3, <1>4, <1>5, <1>6, <1>7, <1>8, <1>9, <1>10, <1>11, <1>12,
     <1>13, <1>14, <1>15, <1>16, <1>17, <1>18, <1>19, <1>20, <1>21 DEF Next,
     CheckSteps, ProcessSteps

\* The steps that change the log of a blobber.
LEMMA LogChanges ==
  ASSUME [Next]_vars
  PROVE  \/ log' = log
         \/ \E c \in Conns, b \in Blobbers : CommitBlobber(c, b) \/ UndoBlobber(c, b)
         \/ \E t \in Checkers, b \in Blobbers : RollbackLatest(t, b)
         \/ LateCommit
<1>1. ASSUME NEW c \in Conns, CreateConnections(c) \/ OperationsFailed(c) \/ Crash(c)
      PROVE  log' = log
  BY <1>1 DEF CreateConnections, OperationsFailed, Crash, storeVars
<1>2. ASSUME NEW c \in Conns, ProcessSteps(c)
      PROVE  \/ log' = log
             \/ \E b \in Blobbers : CommitBlobber(c, b) \/ UndoBlobber(c, b)
  BY <1>2 DEF ProcessSteps, ProcessOperation, OperationsDone, LockTaken, LockFailed,
     StatusReturned, SendCommits, CommitsDone, UndoDone, storeVars
<1>3. ASSUME NEW t \in Checkers, CheckSteps(t)
      PROVE  log' = log \/ \E b \in Blobbers : RollbackLatest(t, b)
  BY <1>3 DEF CheckSteps, Decide, RollbacksDone, ReadMarker, storeVars
<1>4. ASSUME NEW p \in Probes, StartProbe(p) PROVE log' = log
  BY <1>4 DEF StartProbe, storeVars
<1>5. LockLapses => log' = log
  BY DEF LockLapses, storeVars
<1>6. UNCHANGED vars => log' = log
  BY DEF vars, storeVars
<1> QED
  BY <1>1, <1>2, <1>3, <1>4, <1>5, <1>6 DEF Next

\* A blobber drops its last batch.
LEMMA UndoneRolledBack ==
  ASSUME StoreInv, UndoneInv, NEW b \in Blobbers, log[b] # <<>>, log' = RolledBack(b),
         UNCHANGED <<inflight, pc, rollbackMask, result>>,
         \A c \in Conns : doubt[c] \subseteq doubt'[c],
         \A c \in Conns : pc[c] = "undo" => todo[c] \subseteq todo'[c] \cup {b}
  PROVE  UndoneInv'
<1> DEFINE last == log[b][Len(log[b])]
<1>1. \A d \in Conns : Holding(d)' = IF d = last THEN Holding(d) \ {b} ELSE Holding(d)
  BY HoldingRolledBack DEF StoreInv
<1>2. \A e \in Blobbers \ {b} : log'[e] = log[e]
  BY RolledBackLog DEF StoreInv, TypeInv
<1>3. \A d \in Conns : Holding(d) \subseteq Blobbers
  BY DEF Holding
<1>4. \A d \in Conns : pc[d] \in Committing \cup {"undo"} => b \notin Holding(d)'
  BY <1>1 DEF UndoneInv
<1>5. ASSUME NEW d \in Conns, NEW e \in Holding(d)'
      PROVE  /\ pc[d] \in Committing \cup {"undo"} => log'[e][Len(log'[e])] = d
             /\ pc[d] \in Committing => e \in rollbackMask[d] \cup doubt'[d]
             /\ pc[d] = "undo" => e \in todo'[d] \cup doubt'[d]
             /\ result[d] \in {"error", "repair", "retry", "nil"} => e \in doubt'[d]
  <2>1. e \in Holding(d) /\ e \in Blobbers
    BY <1>1, <1>3
  <2>2. /\ pc[d] \in Committing \cup {"undo"} => e # b /\ log'[e] = log[e]
    BY <1>2, <1>4, <2>1
  <2> HIDE DEF last
  <2> QED
    BY <2>1, <2>2 DEF UndoneInv, FailedUndone, Committing
<1> HIDE DEF last
<1> QED
  BY <1>5 DEF UndoneInv, FailedUndone

\* A blobber takes a batch.
LEMMA UndoneCommitted ==
  ASSUME StoreInv, UndoneInv, NEW b \in Blobbers, NEW c \in Conns, log' = Committed(b, c),
         pc[c] \in Committing,
         UNCHANGED <<inflight, pc, result>>,
         \A d \in Conns : doubt[d] \subseteq doubt'[d] /\ rollbackMask[d] \subseteq rollbackMask'[d],
         b \in rollbackMask'[c] \cup doubt'[c]
  PROVE  UndoneInv'
<1>1. \A d \in Conns : Holding(d)' = IF d = c THEN Holding(d) \cup {b} ELSE Holding(d)
  BY HoldingCommitted DEF StoreInv
<1>2. /\ \A e \in Blobbers \ {b} : log'[e] = log[e]
      /\ log'[b][Len(log'[b])] = c
  BY CommittedLog DEF StoreInv, TypeInv
<1>3. \A d \in Conns : Holding(d) \subseteq Blobbers
  BY DEF Holding
<1>4. \A d \in Conns \ {c} : pc[d] \notin Committing \cup {"undo"}
  BY DEF StoreInv, LockInv, Locked, Committing
<1>5. pc[c] # "undo" /\ pc[c] # "done"
  BY DEF Committing
<1>6. result[c] = "none"
  BY <1>5 DEF UndoneInv
<1>7. ASSUME NEW d \in Conns, NEW e \in Holding(d)'
      PROVE  /\ pc[d] \in Committing \cup {"undo"} => log'[e][Len(log'[e])] = d
             /\ pc[d] \in Committing => e \in rollbackMask'[d] \cup doubt'[d]
             /\ pc[d] = "undo" => e \in todo'[d] \cup doubt'[d]
             /\ result[d] \in {"error", "repair", "retry", "nil"} => e \in doubt'[d]
  <2>1. CASE d # c
    <3>1. e \in Holding(d)
      BY <1>1, <2>1
    <3> QED
      BY <1>4, <2>1, <3>1 DEF UndoneInv, FailedUndone
  <2>2. CASE d = c /\ e = b
    BY <1>2, <1>5, <1>6, <2>2
  <2>3. CASE d = c /\ e # b
    <3>1. e \in Holding(c) /\ log'[e] = log[e]
      BY <1>1, <1>2, <1>3, <2>3
    <3> QED
      BY <1>5, <1>6, <2>3, <3>1 DEF UndoneInv
  <2> QED
    BY <2>1, <2>2, <2>3
<1> QED
  BY <1>7 DEF UndoneInv, FailedUndone

\* Without late requests the holders of a batch stay accounted for.
LEMMA UndoneNext ==
  ASSUME "late" \notin Faults, StoreInv, UndoneInv, [Next]_vars
  PROVE  UndoneInv'
<1>0. /\ pc \in [Checkers -> Phases] /\ todo \in [Checkers -> SUBSET Blobbers]
      /\ rollbackMask \in [Conns -> SUBSET Blobbers] /\ doubt \in [Conns -> SUBSET Blobbers]
      /\ Conns \subseteq Checkers /\ inflight = {}
  BY DEF StoreInv, TypeInv, TypeOK, Checkers, UndoneInv
<1>1. ASSUME NEW c \in Conns, NEW b \in Blobbers, CommitBlobber(c, b) PROVE UndoneInv'
  <2>1. CASE log' = log
    BY <2>1, UndoneControl
  <2>2. CASE log' # log
    <3>1. /\ log' = Committed(b, c) /\ pc[c] \in Committing
          /\ UNCHANGED <<inflight, pc, result>>
          /\ \/ rollbackMask' = [rollbackMask EXCEPT ![c] = @ \cup {b}] /\ doubt' = doubt
             \/ rollbackMask' = rollbackMask /\ doubt' = [doubt EXCEPT ![c] = @ \cup {b}]
      BY <1>1, <2>2 DEF CommitBlobber, Committing, storeVars, faultVars
    <3>2. /\ \A d \in Conns : /\ doubt[d] \subseteq doubt'[d]
                              /\ rollbackMask[d] \subseteq rollbackMask'[d]
          /\ b \in rollbackMask'[c] \cup doubt'[c]
      BY <1>0, <3>1
    <3> QED
      BY <3>1, <3>2, UndoneCommitted
  <2> QED
    BY <2>1, <2>2
<1>2. ASSUME NEW c \in Conns, NEW b \in Blobbers, UndoBlobber(c, b) PROVE UndoneInv'
  <2>1. CASE log' = log
    BY <2>1, UndoneControl
  <2>2. CASE log' # log
    <3>1. /\ log[b] # <<>> /\ log' = RolledBack(b)
          /\ UNCHANGED <<inflight, pc, rollbackMask, result>>
          /\ todo' = [todo EXCEPT ![c] = @ \ {b}]
          /\ doubt' = doubt \/ doubt' = [doubt EXCEPT ![c] = @ \cup {b}]
      BY <1>2, <2>2 DEF UndoBlobber, faultVars
    <3>2. /\ \A d \in Conns : doubt[d] \subseteq doubt'[d]
          /\ \A d \in Conns : pc[d] = "undo" => todo[d] \subseteq todo'[d] \cup {b}
      BY <1>0, <3>1
    <3> QED
      BY <3>1, <3>2, UndoneRolledBack
  <2> QED
    BY <2>1, <2>2
<1>3. ASSUME NEW t \in Checkers, NEW b \in Blobbers, RollbackLatest(t, b) PROVE UndoneInv'
  <2>1. CASE log' = log
    BY <2>1, UndoneControl
  <2>2. CASE log' # log
    <3>1. /\ log[b] # <<>> /\ log' = RolledBack(b)
          /\ UNCHANGED <<inflight, pc, rollbackMask, result, doubt>>
          /\ todo' = [todo EXCEPT ![t] = @ \ {b}]
      BY <1>3, <2>2 DEF RollbackLatest
    <3>2. /\ \A d \in Conns : doubt[d] \subseteq doubt'[d]
          /\ \A d \in Conns : pc[d] = "undo" => todo[d] \subseteq todo'[d] \cup {b}
      BY <1>0, <3>1
    <3> QED
      BY <3>1, <3>2, UndoneRolledBack
  <2> QED
    BY <2>1, <2>2
<1>4. CASE LateCommit
  BY <1>0, <1>4 DEF LateCommit
<1>5. CASE log' = log
  BY <1>5, UndoneControl
<1> QED
  BY <1>1, <1>2, <1>3, <1>4, <1>5, LogChanges

\* No batch has a holder at first.
LEMMA UndoneInit == Init => UndoneInv
<1> SUFFICES ASSUME Init PROVE UndoneInv
  OBVIOUS
<1>1. \A c \in Conns : Holding(c) = {}
  BY DEF Init, Holding
<1> QED
  BY <1>1 DEF Init, UndoneInv, FailedUndone

\* A batch that Process reported failed is left only on blobbers that answered
\* its commit or its rollback with an error: RollbackWithMask finds the batch on
\* top of every blobber that acknowledged it, because the lock has kept all others
\* out.  A request that is executed after the client has given up is excluded:
\* it can put the batch back, and then the rollback of another batch may hit it.
THEOREM FailedUndoneHolds ==
  ASSUME "late" \notin Faults
  PROVE  Spec => []FailedUndone
<1>1. StoreInv /\ StoreInv' /\ UndoneInv /\ [Next]_vars => UndoneInv'
  BY UndoneNext
<1>2. UndoneInv => FailedUndone
  BY DEF UndoneInv
<1> QED
  BY <1>1, <1>2, UndoneInit, StoreAlways, PTL DEF Spec
=============================================================================
