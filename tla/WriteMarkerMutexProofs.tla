----------------------- MODULE WriteMarkerMutexProofs -----------------------
(***************************************************************************)
(* Proofs about WriteMarkerMutex, for every number of connections and      *)
(* blobbers, every threshold that satisfies QuorumAssumption and every     *)
(* bound on faults and refreshes.                                          *)
(***************************************************************************)
EXTENDS WriteMarkerMutex, FiniteSetTheorems, TLAPS

USE DEF Phases, Acquiring, InSection

\* The variables of the writemarker_mutex.go model keep their types: masks hold
\* blobber positions, the lead index stays within 0 .. len(blobbers).
THEOREM TypeCorrect == Spec => [](TypeOK /\ LeadInRange)
<1>1. Init => TypeOK /\ LeadInRange
  BY NAssumption, FaultsAssumption, MaxRefreshAssumption, ThreshAssumption
     DEF Init, TypeOK, LeadInRange
<1>2. TypeOK /\ LeadInRange /\ [Next]_vars => (TypeOK /\ LeadInRange)'
  <2> SUFFICES ASSUME TypeOK, LeadInRange, [Next]_vars PROVE (TypeOK /\ LeadInRange)'
    OBVIOUS
  <2>0. \A c \in Conns : lead[c] < N => lead[c] \in Blobbers
    BY NAssumption DEF TypeOK, Blobbers
  <2> USE <2>0, NAssumption, FaultsAssumption, MaxRefreshAssumption, ThreshAssumption
  <2> USE DEF TypeOK, LeadInRange, callVars, unlockVars, refreshVars, faultVars
  <2>1. ASSUME NEW c \in Conns, Lock(c) PROVE (TypeOK /\ LeadInRange)'
    BY <2>1 DEF Lock
  <2>2. ASSUME NEW c \in Conns, LeadTimeout(c) PROVE (TypeOK /\ LeadInRange)'
    BY <2>2 DEF LeadTimeout, Fault
  <2>3. ASSUME NEW c \in Conns, TryLead(c) PROVE (TypeOK /\ LeadInRange)'
    BY <2>3 DEF TryLead
  <2>4. ASSUME NEW c \in Conns, LeadAnswered(c) PROVE (TypeOK /\ LeadInRange)'
    <3>1. CASE consensus[c] - AddConsensus = 1
      BY <2>4, <3>1 DEF LeadAnswered
    <3>2. CASE consensus[c] - AddConsensus # 1 /\ (pc[c] = "leadExpired" \/ ctxDone[c])
      <4>1. /\ pc' = [pc EXCEPT ![c] = "unlocked"]
            /\ UNCHANGED <<lead, sending, mask, consensus, acquired, umask, ctxDone, holder,
                          faultVars, unlockVars, refreshVars>>
        BY <2>4, <3>2 DEF LeadAnswered
      <4> QED
        BY <4>1
    <3>3. CASE consensus[c] - AddConsensus # 1 /\ pc[c] = "leadWait" /\ ~ctxDone[c]
      <4>1. /\ lead' = [lead EXCEPT ![c] = @ + 1]
            /\ pc' = [pc EXCEPT ![c] = IF lead[c] + 1 < N THEN "lead" ELSE "unlocked"]
            /\ UNCHANGED <<sending, mask, consensus, acquired, umask, ctxDone, holder,
                          faultVars, unlockVars, refreshVars>>
        BY <2>4, <3>3 DEF LeadAnswered
      <4>2. lead[c] < N
        BY <3>3
      <4> QED
        BY <4>1, <4>2
    <3> QED
      BY <2>4, <3>1, <3>2, <3>3 DEF LeadAnswered
  <2>5. ASSUME NEW c \in Conns, OthersAnswered(c) PROVE (TypeOK /\ LeadInRange)'
    <3>1. CASE consensus[c] >= Thresh
      BY <2>5, <3>1 DEF OthersAnswered
    <3>2. CASE ~(consensus[c] >= Thresh)
      BY <2>5, <3>2 DEF OthersAnswered
    <3> QED
      BY <3>1, <3>2
  <2>6. ASSUME NEW c \in Conns, NEW b \in Blobbers, LockGranted(c, b) PROVE (TypeOK /\ LeadInRange)'
    <3>1. /\ consensus' \in [Conns -> Nat] /\ acquired' \in [Conns -> SUBSET Blobbers]
      BY <2>6 DEF LockGranted, ConsensusDone
    <3>2. /\ sending' \in [Conns -> SUBSET Blobbers]
          /\ holder' \in [Blobbers -> Conns \cup {NoConn}]
      BY <2>6 DEF LockGranted
    <3> QED
      BY <2>6, <3>1, <3>2 DEF LockGranted
  <2>7. ASSUME NEW c \in Conns, NEW b \in Blobbers, LockFailed(c, b) PROVE (TypeOK /\ LeadInRange)'
    BY <2>7 DEF LockFailed, Fault
  <2>8. ASSUME NEW c \in Conns, NEW b \in Blobbers, LockGivenUp(c, b) PROVE (TypeOK /\ LeadInRange)'
    BY <2>8 DEF LockGivenUp, Fault
  <2>9. ASSUME NEW c \in Conns, RefreshTick(c) PROVE (TypeOK /\ LeadInRange)'
    <3>1. CASE ctxDone[c]
      BY <2>9, <3>1 DEF RefreshTick
    <3>2. CASE ~ctxDone[c]
      BY <2>9, <3>2 DEF RefreshTick
    <3> QED
      BY <3>1, <3>2
  <2>10. ASSUME NEW c \in Conns, RefreshRoundEnds(c) PROVE (TypeOK /\ LeadInRange)'
    BY <2>10 DEF RefreshRoundEnds
  <2>11. ASSUME NEW c \in Conns, NEW b \in Blobbers, TakeToken(c, b) PROVE (TypeOK /\ LeadInRange)'
    BY <2>11 DEF TakeToken
  <2>12. ASSUME NEW c \in Conns, ReleaseEarly(c) PROVE (TypeOK /\ LeadInRange)'
    BY <2>12 DEF ReleaseEarly
  <2>13. ASSUME NEW c \in Conns, DeferUnlock(c) PROVE (TypeOK /\ LeadInRange)'
    BY <2>13 DEF DeferUnlock
  <2>14. ASSUME NEW c \in Conns, Unlock(c) PROVE (TypeOK /\ LeadInRange)'
    BY <2>14 DEF Unlock
  <2>15. ASSUME NEW c \in Conns, UnlockLead(c) PROVE (TypeOK /\ LeadInRange)'
    BY <2>15 DEF UnlockLead
  <2>16. ASSUME NEW c \in Conns, UnlockReturns(c) PROVE (TypeOK /\ LeadInRange)'
    BY <2>16 DEF UnlockReturns
  <2>17. ASSUME NEW c \in Conns, CancelContext(c) PROVE (TypeOK /\ LeadInRange)'
    BY <2>17 DEF CancelContext
  <2>18. ASSUME NEW c \in Conns, NEW b \in Blobbers, UnlockBlobber(c, b) PROVE (TypeOK /\ LeadInRange)'
    BY <2>18 DEF UnlockBlobber, Fault
  <2>19. ASSUME NEW c \in Conns, Cancel(c) PROVE (TypeOK /\ LeadInRange)'
    BY <2>19 DEF Cancel, Fault
  <2>20. ASSUME NEW c \in Conns, Crash(c) PROVE (TypeOK /\ LeadInRange)'
    BY <2>20 DEF Crash, Fault
  <2>21. ASSUME NEW b \in Blobbers, Lapse(b) PROVE (TypeOK /\ LeadInRange)'
    BY <2>21 DEF Lapse
  <2>22. CASE UNCHANGED vars
    BY <2>22 DEF vars
  <2> QED
    BY <2>1, <2>2, <2>3, <2>4, <2>5, <2>6, <2>7, <2>8, <2>9, <2>10, <2>11,
       <2>12, <2>13, <2>14, <2>15, <2>16, <2>17, <2>18, <2>19, <2>20, <2>21, <2>22
       DEF Next, LockSteps, RefreshSteps, UnlockSteps
<1> QED
  BY <1>1, <1>2, PTL DEF Spec

\* The index of blobbers[wmMu.leadBlobberIndex] in Lock and in Unlock is never
\* out of range: a Lock whose candidates for the lead are used up never gets to
\* its Unlock.
THEOREM LeadIndexInRange == Spec => []LeadInRange
BY TypeCorrect, PTL

-----------------------------------------------------------------------------
\* A set of blobbers is finite and has at most N members.
LEMMA BlobberSets ==
  ASSUME NEW S \in SUBSET Blobbers
  PROVE  IsFiniteSet(S) /\ Cardinality(S) \in Nat /\ Cardinality(S) <= N
<1>1. IsFiniteSet(Blobbers) /\ Cardinality(Blobbers) = N
  BY FS_Interval, NAssumption DEF Blobbers
<1> QED
  BY <1>1, FS_Subset, FS_CardinalityType

\* What makes LockQuorum inductive: how far Lock has come determines which
\* blobbers have been counted and which are still asked, a blobber is never
\* both, and nothing but Lock asks before it returns.
LockProgress ==
  \A c \in Conns :
    /\ pc[c] \in {"idle", "lead"} => acquired[c] = {} /\ sending[c] = {}
    /\ pc[c] \in {"leadWait", "leadExpired"} =>
         acquired[c] \subseteq {lead[c]} /\ sending[c] \subseteq {lead[c]}
    /\ pc[c] = "others" => lead[c] \in acquired[c]
    /\ pc[c] \in Acquiring =>
         acquired[c] \cap sending[c] = {} /\ waiting[c] = {} /\ refresh[c] = "off"
    /\ pc[c] = "idle" => waiting[c] = {} /\ refresh[c] = "off"
    /\ unlocking[c] # {} => pc[c] \in {"unlock", "unlockLead"}

\* The context of a connection is done for good and its mask only shrinks, so
\* a lock that is not kept alive never is again: with LockProgress that is
\* enough for LockQuorum to be inductive.
IndInv == TypeOK /\ LeadInRange /\ LockProgress /\ LockQuorum

\* getConsensus() - addConsensus == 1 in Lock says that the lead blobber, and
\* no other, was counted.
LEMMA LeadCounted ==
  ASSUME IndInv, NEW c \in Conns, pc[c] \in {"leadWait", "leadExpired"}
  PROVE  /\ acquired[c] = {} \/ acquired[c] = {lead[c]}
         /\ consensus[c] - AddConsensus = 1 <=> acquired[c] = {lead[c]}
<1>1. acquired[c] = {} \/ acquired[c] = {lead[c]}
  BY DEF IndInv, LockProgress
<1>2. /\ acquired[c] = {} => Cardinality(acquired[c]) = 0
      /\ acquired[c] = {lead[c]} => Cardinality(acquired[c]) = 1
  BY FS_EmptySet, FS_Singleton, Zenon
<1>3. consensus[c] - AddConsensus = Cardinality(acquired[c])
  <2>1. consensus[c] = AddConsensus + Cardinality(acquired[c])
    BY DEF IndInv, LockQuorum
  <2>2. Cardinality(acquired[c]) \in Nat
    BY <1>1, <1>2
  <2> QED
    BY <2>1, <2>2, ThreshAssumption
<1> QED
  BY <1>1, <1>2, <1>3

\* Every blobber that Lock of writemarker_mutex.go counted and keeps alive is
\* locked by the connection, none is counted twice, and Lock returns with a
\* threshold of them.
LEMMA LockQuorumInductive == IndInv /\ [Next]_vars => (LockProgress /\ LockQuorum)'
<1> SUFFICES ASSUME IndInv, [Next]_vars PROVE (LockProgress /\ LockQuorum)'
  OBVIOUS
<1> USE NAssumption, FaultsAssumption, ThreshAssumption, ConnsAssumption
<1> USE DEF IndInv, TypeOK, LeadInRange, LockProgress, LockQuorum, KeptAlive,
            callVars, unlockVars, refreshVars, faultVars
<1>1. ASSUME NEW c \in Conns, Lock(c) PROVE (LockProgress /\ LockQuorum)'
  <2>1. acquired[c] = {}
    BY <1>1 DEF Lock
  <2>2. Cardinality(acquired[c]) = 0
    BY <2>1, FS_EmptySet, Zenon
  <2>3. PICK m \in SUBSET Blobbers : mask' = [mask EXCEPT ![c] = m]
    BY <1>1 DEF Lock
  <2>4. LockProgress'
    BY <1>1 DEF Lock
  <2>5. /\ acquired' = acquired /\ holder' = holder /\ ctxDone' = ctxDone /\ lead' = lead
        /\ consensus' = [consensus EXCEPT ![c] = AddConsensus]
        /\ pc' = [pc EXCEPT ![c] = "lead"]
    BY <1>1 DEF Lock
  <2>6. \A d \in Conns : \A x \in acquired'[d] : KeptAlive(d, x)' => holder'[x] = d
    BY <2>1, <2>3, <2>5
  <2>7. consensus'[c] = AddConsensus + Cardinality(acquired'[c])
    BY <2>2, <2>5
  <2>8. LockQuorum'
    BY <2>5, <2>6, <2>7
  <2> QED
    BY <2>4, <2>8
<1>2. ASSUME NEW c \in Conns, LeadTimeout(c) PROVE (LockProgress /\ LockQuorum)'
  BY <1>2 DEF LeadTimeout, Fault
<1>3. ASSUME NEW c \in Conns, TryLead(c) PROVE (LockProgress /\ LockQuorum)'
  BY <1>3 DEF TryLead
<1>4. ASSUME NEW c \in Conns, LeadAnswered(c) PROVE (LockProgress /\ LockQuorum)'
  <2>1. CASE consensus[c] - AddConsensus = 1
    BY <1>4, <2>1, LeadCounted DEF LeadAnswered
  <2>2. CASE consensus[c] - AddConsensus # 1 /\ (pc[c] = "leadExpired" \/ ctxDone[c])
    BY <1>4, <2>2, LeadCounted DEF LeadAnswered
  <2>3. CASE consensus[c] - AddConsensus # 1 /\ pc[c] = "leadWait" /\ ~ctxDone[c]
    BY <1>4, <2>3, LeadCounted DEF LeadAnswered
  <2> QED
    BY <1>4, <2>1, <2>2, <2>3 DEF LeadAnswered
<1>5. ASSUME NEW c \in Conns, OthersAnswered(c) PROVE (LockProgress /\ LockQuorum)'
  BY <1>5 DEF OthersAnswered
<1>6. ASSUME NEW c \in Conns, NEW b \in Blobbers, LockGranted(c, b)
      PROVE (LockProgress /\ LockQuorum)'
  <2>1. LockProgress'
    BY <1>6 DEF LockGranted, ConsensusDone, Grantable
  <2>2. CASE pc[c] \in Acquiring
    <3>1. b \notin acquired[c] /\ acquired[c] \in SUBSET Blobbers
      BY <1>6, <2>2 DEF LockGranted
    <3>2. Cardinality(acquired[c] \cup {b}) = Cardinality(acquired[c]) + 1
      BY <3>1, BlobberSets, FS_AddElement
    <3>3. Cardinality(acquired[c]) \in Nat
      BY <3>1, BlobberSets
    <3>4. /\ acquired' = [acquired EXCEPT ![c] = @ \cup {b}]
          /\ consensus' = [consensus EXCEPT ![c] = @ + 1]
      BY <1>6, <2>2 DEF LockGranted, ConsensusDone
    <3>5. \A d \in Conns : \A x \in acquired'[d] : KeptAlive(d, x)' => holder'[x] = d
      BY <1>6, <3>4 DEF LockGranted, Grantable
    <3>6. consensus'[c] = AddConsensus + Cardinality(acquired'[c])
      BY <2>2, <3>2, <3>3, <3>4
    <3>7. \A d \in Conns : /\ pc'[d] = pc[d]
                           /\ d # c => acquired'[d] = acquired[d] /\ consensus'[d] = consensus[d]
      BY <1>6, <3>4 DEF LockGranted
    <3>8. LockQuorum'
      BY <2>2, <3>5, <3>6, <3>7
    <3> QED
      BY <2>1, <3>8
  <2>3. CASE pc[c] \notin Acquiring
    BY <1>6, <2>1, <2>3 DEF LockGranted, ConsensusDone, Grantable
  <2> QED
    BY <2>2, <2>3
<1>7. ASSUME NEW c \in Conns, NEW b \in Blobbers, LockFailed(c, b)
      PROVE (LockProgress /\ LockQuorum)'
  BY <1>7 DEF LockFailed, Fault, Grantable
<1>8. ASSUME NEW c \in Conns, NEW b \in Blobbers, LockGivenUp(c, b)
      PROVE (LockProgress /\ LockQuorum)'
  BY <1>8 DEF LockGivenUp, Fault
<1>9. ASSUME NEW c \in Conns, RefreshTick(c) PROVE (LockProgress /\ LockQuorum)'
  BY <1>9 DEF RefreshTick
<1>10. ASSUME NEW c \in Conns, RefreshRoundEnds(c) PROVE (LockProgress /\ LockQuorum)'
  BY <1>10 DEF RefreshRoundEnds
<1>11. ASSUME NEW c \in Conns, NEW b \in Blobbers, TakeToken(c, b)
       PROVE (LockProgress /\ LockQuorum)'
  BY <1>11 DEF TakeToken
<1>12. ASSUME NEW c \in Conns, ReleaseEarly(c) PROVE (LockProgress /\ LockQuorum)'
  BY <1>12 DEF ReleaseEarly
<1>13. ASSUME NEW c \in Conns, DeferUnlock(c) PROVE (LockProgress /\ LockQuorum)'
  BY <1>13 DEF DeferUnlock
<1>14. ASSUME NEW c \in Conns, Unlock(c) PROVE (LockProgress /\ LockQuorum)'
  BY <1>14 DEF Unlock
<1>15. ASSUME NEW c \in Conns, UnlockLead(c) PROVE (LockProgress /\ LockQuorum)'
  BY <1>15 DEF UnlockLead
<1>16. ASSUME NEW c \in Conns, UnlockReturns(c) PROVE (LockProgress /\ LockQuorum)'
  BY <1>16 DEF UnlockReturns
<1>17. ASSUME NEW c \in Conns, CancelContext(c) PROVE (LockProgress /\ LockQuorum)'
  BY <1>17 DEF CancelContext
<1>18. ASSUME NEW c \in Conns, NEW b \in Blobbers, UnlockBlobber(c, b)
       PROVE (LockProgress /\ LockQuorum)'
  BY <1>18 DEF UnlockBlobber, Fault
<1>19. ASSUME NEW c \in Conns, Cancel(c) PROVE (LockProgress /\ LockQuorum)'
  BY <1>19 DEF Cancel, Fault
<1>20. ASSUME NEW c \in Conns, Crash(c) PROVE (LockProgress /\ LockQuorum)'
  BY <1>20 DEF Crash, Fault
<1>21. ASSUME NEW b \in Blobbers, Lapse(b) PROVE (LockProgress /\ LockQuorum)'
  BY <1>21 DEF Lapse
<1>22. CASE UNCHANGED vars
  BY <1>22 DEF vars
<1> QED
  BY <1>1, <1>2, <1>3, <1>4, <1>5, <1>6, <1>7, <1>8, <1>9, <1>10, <1>11,
     <1>12, <1>13, <1>14, <1>15, <1>16, <1>17, <1>18, <1>19, <1>20, <1>21, <1>22
     DEF Next, LockSteps, RefreshSteps, UnlockSteps

\* LockQuorum as a theorem of the specification.
THEOREM LockQuorumHolds == Spec => []LockQuorum
<1>1. Init => LockProgress /\ LockQuorum
  BY FS_EmptySet, ThreshAssumption DEF Init, LockProgress, LockQuorum, KeptAlive
<1> QED
  BY <1>1, TypeCorrect, LockQuorumInductive, PTL DEF Spec, IndInv

\* Mutual exclusion between two connections that WriteMarkerMutex.Lock let in,
\* as long as each keeps alive the locks it counted: their locks would be two
\* quorums of the blobbers, and no blobber is locked by both.
LEMMA QuorumsExclude == TypeOK /\ LockQuorum => MutualExclusion
<1> SUFFICES ASSUME TypeOK, LockQuorum,
                    NEW c \in Conns, NEW d \in Conns, c # d, Secure(c), Secure(d)
             PROVE  FALSE
  BY DEF MutualExclusion
<1>1. Firm(c) \in SUBSET Blobbers /\ Firm(d) \in SUBSET Blobbers
  BY DEF Firm, TypeOK
<1>2. Firm(c) \cap Firm(d) = {}
  BY DEF Firm, LockQuorum
<1>3. Cardinality(Firm(c) \cup Firm(d)) = Cardinality(Firm(c)) + Cardinality(Firm(d))
  <2>1. IsFiniteSet(Firm(c)) /\ IsFiniteSet(Firm(d))
    BY <1>1, BlobberSets
  <2>2. /\ Cardinality(Firm(c)) \in Nat /\ Cardinality(Firm(d)) \in Nat
    BY <2>1, FS_CardinalityType
  <2>3. Cardinality(Firm(c) \cup Firm(d)) =
          Cardinality(Firm(c)) + Cardinality(Firm(d)) - Cardinality(Firm(c) \cap Firm(d))
    BY <2>1, FS_Union
  <2>4. Cardinality(Firm(c) \cap Firm(d)) = 0
    BY <1>2, FS_EmptySet, Zenon
  <2> QED
    BY <2>2, <2>3, <2>4
<1>4. Cardinality(Firm(c) \cup Firm(d)) <= N
  BY <1>1, BlobberSets
<1>5. Cardinality(Firm(c)) \in Nat /\ Cardinality(Firm(d)) \in Nat
  BY <1>1, BlobberSets
<1>6. /\ Cardinality(Firm(c)) + AddConsensus >= Thresh
      /\ Cardinality(Firm(d)) + AddConsensus >= Thresh
  BY <1>5, ThreshAssumption DEF Secure, LockQuorum
<1> QED
  BY <1>3, <1>4, <1>5, <1>6, QuorumAssumption, NAssumption, ThreshAssumption

\* The write-marker lock is exclusive, whatever fails, whoever leads and
\* however many blobbers and connections there are.
THEOREM MutualExclusionHolds == Spec => []MutualExclusion
BY TypeCorrect, LockQuorumHolds, QuorumsExclude, PTL

-----------------------------------------------------------------------------
\* No circular wait with one lead blobber: in Lock the lead is asked alone, and only
\* the connection that has its lock asks for the others.
LEMMA LeadFirst == IndInv => NoHoldAndWait
<1> SUFFICES ASSUME IndInv, NEW c \in Conns, NEW d \in Conns, c # d,
                    WaitsFor(c, d), lead[c] = lead[d]
             PROVE  acquired[c] = {}
  BY DEF NoHoldAndWait
<1>1. PICK b \in sending[c] : b \in acquired[d]
  BY DEF WaitsFor
<1>2. pc[c] \in Acquiring /\ pc[d] \in Acquiring /\ ~ctxDone[c] /\ ~ctxDone[d]
  BY DEF WaitsFor, Asking
<1>3. lead[d] \in acquired[d]
  BY <1>1, <1>2 DEF IndInv, LockProgress
<1>4. holder[lead[d]] = d
  BY <1>2, <1>3 DEF IndInv, LockQuorum, KeptAlive
<1>5. lead[c] \notin acquired[c]
  BY <1>2, <1>4 DEF IndInv, LockQuorum, KeptAlive
<1>6. pc[c] \in {"leadWait", "leadExpired"}
  BY <1>1, <1>2, <1>5 DEF IndInv, LockProgress
<1> QED
  BY <1>5, <1>6 DEF IndInv, LockProgress

\* NoHoldAndWait as a theorem of the specification: Lock calls that agree on the
\* lead blobber never wait for each other in a circle, for any number of them.
THEOREM NoHoldAndWaitHolds == Spec => []NoHoldAndWait
<1>1. Init => LockProgress /\ LockQuorum
  BY FS_EmptySet, ThreshAssumption DEF Init, LockProgress, LockQuorum, KeptAlive
<1> QED
  BY <1>1, TypeCorrect, LockQuorumInductive, LeadFirst, PTL DEF Spec, IndInv

-----------------------------------------------------------------------------
\* The blobbers the connection has still to unlock, as Lock, its caller and
\* Unlock know them: the count, the mask, the deferred mask, the goroutines.
Due(c) ==
  CASE pc[c] \in Acquiring  -> acquired[c]
    [] pc[c] = "held"       -> mask[c] \cup {lead[c]}
    [] pc[c] = "work"       -> umask[c] \cup {lead[c]}
    [] pc[c] = "unlock"     -> unlocking[c] \cup {lead[c]}
    [] pc[c] = "unlockLead" -> unlocking[c]
    [] OTHER                -> {}

\* What makes NoOrphanLock inductive: a lock the connection holds is still due
\* or had a failure, whatever a refresh still asks for is due, had a failure or
\* is fenced, and what has its token is not fenced.
LocksTracked ==
  \A c \in Conns :
    /\ \A b \in Blobbers : holder[b] = c => b \in Due(c) \cup failed[c]
    /\ pc[c] = "others" =>
         acquired[c] \cup sending[c] \subseteq mask[c] \cup {lead[c]} \cup failed[c]
    /\ pc[c] \notin Acquiring \cup {"idle"} =>
         /\ sending[c] \cap fenced[c] = {}
         /\ waiting[c] \cup sending[c] \subseteq Due(c) \cup fenced[c] \cup failed[c]
         /\ refresh[c] # "off" => mask[c] \subseteq Due(c) \cup fenced[c] \cup failed[c]

\* The steps of writemarker_mutex.go keep every lock tracked: refreshes, the
\* version filter and the two phases of Unlock included.
LEMMA LocksTrackedInductive == IndInv /\ LocksTracked /\ [Next]_vars => LocksTracked'
<1> SUFFICES ASSUME IndInv, LocksTracked, [Next]_vars PROVE LocksTracked'
  OBVIOUS
<1> USE NAssumption, FaultsAssumption, ThreshAssumption, ConnsAssumption
<1> USE DEF IndInv, TypeOK, LeadInRange, LockProgress, LocksTracked, Due,
            callVars, unlockVars, refreshVars, faultVars
<1>1. ASSUME NEW c \in Conns, Lock(c) PROVE LocksTracked'
  BY <1>1 DEF Lock
<1>2. ASSUME NEW c \in Conns, LeadTimeout(c) PROVE LocksTracked'
  BY <1>2 DEF LeadTimeout, Fault
<1>3. ASSUME NEW c \in Conns, TryLead(c) PROVE LocksTracked'
  BY <1>3 DEF TryLead
<1>4. ASSUME NEW c \in Conns, LeadAnswered(c) PROVE LocksTracked'
  <2>1. CASE consensus[c] - AddConsensus = 1
    BY <1>4, <2>1, LeadCounted DEF LeadAnswered
  <2>2. CASE consensus[c] - AddConsensus # 1 /\ (pc[c] = "leadExpired" \/ ctxDone[c])
    BY <1>4, <2>2, LeadCounted DEF LeadAnswered
  <2>3. CASE consensus[c] - AddConsensus # 1 /\ pc[c] = "leadWait" /\ ~ctxDone[c]
    BY <1>4, <2>3, LeadCounted DEF LeadAnswered
  <2> QED
    BY <1>4, <2>1, <2>2, <2>3 DEF LeadAnswered
<1>5. ASSUME NEW c \in Conns, OthersAnswered(c) PROVE LocksTracked'
  BY <1>5 DEF OthersAnswered
<1>6. ASSUME NEW c \in Conns, NEW b \in Blobbers, LockGranted(c, b) PROVE LocksTracked'
  BY <1>6 DEF LockGranted, ConsensusDone, Grantable
<1>7. ASSUME NEW c \in Conns, NEW b \in Blobbers, LockFailed(c, b) PROVE LocksTracked'
  BY <1>7 DEF LockFailed, Fault, Grantable
<1>8. ASSUME NEW c \in Conns, NEW b \in Blobbers, LockGivenUp(c, b) PROVE LocksTracked'
  BY <1>8 DEF LockGivenUp, Fault
<1>9. ASSUME NEW c \in Conns, RefreshTick(c) PROVE LocksTracked'
  <2>1. CASE ctxDone[c]
    BY <1>9, <2>1 DEF RefreshTick
  <2>2. CASE ~ctxDone[c]
    BY <1>9, <2>2 DEF RefreshTick
  <2> QED
    BY <2>1, <2>2
<1>10. ASSUME NEW c \in Conns, RefreshRoundEnds(c) PROVE LocksTracked'
  BY <1>10 DEF RefreshRoundEnds
<1>11. ASSUME NEW c \in Conns, NEW b \in Blobbers, TakeToken(c, b) PROVE LocksTracked'
  BY <1>11 DEF TakeToken
<1>12. ASSUME NEW c \in Conns, ReleaseEarly(c) PROVE LocksTracked'
  BY <1>12 DEF ReleaseEarly
<1>13. ASSUME NEW c \in Conns, DeferUnlock(c) PROVE LocksTracked'
  BY <1>13 DEF DeferUnlock
<1>14. ASSUME NEW c \in Conns, Unlock(c) PROVE LocksTracked'
  BY <1>14 DEF Unlock
<1>15. ASSUME NEW c \in Conns, UnlockLead(c) PROVE LocksTracked'
  BY <1>15 DEF UnlockLead
<1>16. ASSUME NEW c \in Conns, UnlockReturns(c) PROVE LocksTracked'
  BY <1>16 DEF UnlockReturns
<1>17. ASSUME NEW c \in Conns, CancelContext(c) PROVE LocksTracked'
  BY <1>17 DEF CancelContext
<1>18. ASSUME NEW c \in Conns, NEW b \in Blobbers, UnlockBlobber(c, b) PROVE LocksTracked'
  BY <1>18 DEF UnlockBlobber, Fault
<1>19. ASSUME NEW c \in Conns, Cancel(c) PROVE LocksTracked'
  BY <1>19 DEF Cancel, Fault
<1>20. ASSUME NEW c \in Conns, Crash(c) PROVE LocksTracked'
  BY <1>20 DEF Crash, Fault
<1>21. ASSUME NEW b \in Blobbers, Lapse(b) PROVE LocksTracked'
  BY <1>21 DEF Lapse
<1>22. CASE UNCHANGED vars
  BY <1>22 DEF vars
<1> HIDE DEF IndInv, TypeOK, LeadInRange, LockProgress, LocksTracked, Due
<1> QED
  BY <1>1, <1>2, <1>3, <1>4, <1>5, <1>6, <1>7, <1>8, <1>9, <1>10, <1>11,
     <1>12, <1>13, <1>14, <1>15, <1>16, <1>17, <1>18, <1>19, <1>20, <1>21, <1>22
     DEF Next, LockSteps, RefreshSteps, UnlockSteps

\* A finished connection leaves locked only blobbers a request of it failed on.
THEOREM NoOrphanLockHolds == Spec => []NoOrphanLock
<1>1. Init => LocksTracked
  BY ConnsAssumption DEF Init, LocksTracked
<1>2. LocksTracked => NoOrphanLock
  BY DEF LocksTracked, NoOrphanLock, Due
<1>3. Init => LockProgress /\ LockQuorum
  BY FS_EmptySet, ThreshAssumption DEF Init, LockProgress, LockQuorum, KeptAlive
<1> QED
  BY <1>1, <1>2, <1>3, TypeCorrect, LockQuorumInductive, LocksTrackedInductive, PTL DEF Spec, IndInv
=============================================================================
