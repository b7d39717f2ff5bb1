------------------------- MODULE AllocStatusProofs -------------------------
(***************************************************************************)
(* Proofs about AllocStatus, for every set of blobbers, every number of    *)
(* data and parity shards and every range of versions: what                *)
(* CheckAllocStatus decides depends only on the markers, not on the order  *)
(* they leave markerChan in.                                               *)
(***************************************************************************)
EXTENDS AllocStatus, FiniteSetTheorems, TLAPS

\* The blobbers whose marker of version v the loop has seen.
SeenAt(v) == {b \in received : marker[b] = v}

\* What the loop over markerChan keeps up: versionMap holds the markers seen,
\* latestVersion is the highest of them and prevVersion is the same version,
\* consensusReached says that some version has enough markers, and is set
\* whenever the latest one has.
FoldInv ==
  /\ \A v \in Versions : versionMap[v] = SeenAt(v)
  /\ prevVersion = latestVersion
  /\ \A b \in received : marker[b] \in Versions => marker[b] <= latestVersion
  /\ \/ versionMap[latestVersion] # {}
     \/ latestVersion = 0 /\ \A b \in received : marker[b] \notin Versions
  /\ consensusReached => \E v \in Versions : Cardinality(versionMap[v]) >= DataShards
  /\ Cardinality(versionMap[latestVersion]) >= DataShards => consensusReached

\* Where the call is determines what has been received and rolled back: a
\* rollback runs only at blobbers at the latest version, each of which counts
\* once in errCnt or is still to answer.
PhaseInv ==
  /\ status = "read" => received = {}
  /\ status \in {"read", "fold"} => todo = {} /\ errCnt = 0 /\ now = marker
  /\ status = "rolling" =>
       /\ received = Blobbers
       /\ versionMap[latestVersion] # {}
       /\ Cardinality(versionMap[latestVersion]) < DataShards
       /\ todo \subseteq versionMap[latestVersion]
       /\ \A b \in todo : now[b] = marker[b]
  /\ errCnt + Cardinality(todo) <= Cardinality(Blobbers)

IndInv == TypeOK /\ FoldInv /\ PhaseInv /\ FoldDecision

-----------------------------------------------------------------------------
\* Sets of blobbers are finite.
LEMMA BlobberSets ==
  ASSUME NEW S \in SUBSET Blobbers
  PROVE  /\ IsFiniteSet(S) /\ Cardinality(S) \in Nat
         /\ Cardinality(S) <= Cardinality(Blobbers)
BY ShardsAssumption, FS_Subset, FS_CardinalityType

\* Once every marker is received, versionMap is the grouping of the markers by
\* version that VersionMarkers speaks of, and latestVersion is the highest.
LEMMA FoldComplete ==
  ASSUME TypeOK, FoldInv, received = Blobbers
  PROVE  /\ \A v \in Versions : versionMap[v] = At(marker, v)
         /\ Seen(marker) = {} <=> \A v \in Versions : versionMap[v] = {}
         /\ Seen(marker) # {} => /\ latestVersion = Highest(marker)
                                 /\ versionMap[latestVersion] # {}
<1>1. \A v \in Versions : versionMap[v] = At(marker, v)
  BY DEF FoldInv, SeenAt, At
<1>2. Seen(marker) = {} <=> \A v \in Versions : versionMap[v] = {}
  BY <1>1 DEF Seen
<1>3. ASSUME Seen(marker) # {}
      PROVE  latestVersion = Highest(marker) /\ versionMap[latestVersion] # {}
  <2>1. versionMap[latestVersion] # {}
    <3>1. PICK v \in Versions : At(marker, v) # {}
      BY <1>3 DEF Seen
    <3> QED
      BY <3>1 DEF At, FoldInv
  <2>2. latestVersion \in Seen(marker)
    BY <1>1, <2>1 DEF Seen, TypeOK
  <2>3. \A w \in Seen(marker) : w <= latestVersion
    BY DEF Seen, At, FoldInv
  <2>4. \A v \in Seen(marker) : (\A w \in Seen(marker) : w <= v) => v = latestVersion
    BY <2>2, <2>3, ShardsAssumption DEF Seen, Versions
  <2> QED
    BY <2>1, <2>2, <2>3, <2>4 DEF Highest
<1> QED
  BY <1>1, <1>2, <1>3

-----------------------------------------------------------------------------
\* A call starts with no marker received and nothing rolled back.
LEMMA InitIndInv == Init => IndInv
<1> SUFFICES ASSUME Init PROVE IndInv
  OBVIOUS
<1>1. Cardinality({}) = 0 /\ Cardinality(Blobbers) \in Nat
  BY FS_EmptySet, BlobberSets
<1>2. TypeOK
  <2>1. 0 \in Versions /\ 0 \in 0 .. Cardinality(Blobbers)
    BY <1>1, ShardsAssumption DEF Versions
  <2>2. versionMap \in [Versions -> SUBSET Blobbers]
    BY DEF Init
  <2> QED
    BY <2>1, <2>2 DEF Init, TypeOK
<1>3. FoldInv
  BY <1>1, <1>2, ShardsAssumption DEF Init, FoldInv, SeenAt, Versions
<1>4. PhaseInv
  BY <1>1 DEF Init, PhaseInv
<1>5. FoldDecision
  BY DEF Init, FoldDecision
<1> QED
  BY <1>2, <1>3, <1>4, <1>5 DEF IndInv

\* One marker more leaves the fold's summary true.
LEMMA ReceiveFold ==
  ASSUME IndInv, NEW b \in Blobbers, Receive(b)
  PROVE  TypeOK' /\ FoldInv'
<1> USE DEF IndInv
<1>1. CASE marker[b] \notin Versions
  <2>1. UNCHANGED <<marker, versionMap, latestVersion, prevVersion, consensusReached>>
    BY <1>1 DEF Receive
  <2>2. \A v \in Versions : SeenAt(v)' = SeenAt(v)
    BY <1>1, <2>1 DEF Receive, SeenAt
  <2>3. TypeOK'
    BY <2>1 DEF Receive, TypeOK
  <2> QED
    BY <1>1, <2>1, <2>2, <2>3 DEF Receive, FoldInv
<1>2. CASE marker[b] \in Versions
  <2> DEFINE v == marker[b]
  <2>1. /\ latestVersion' = IF v > latestVersion THEN v ELSE latestVersion
        /\ prevVersion' = IF v > latestVersion THEN latestVersion' ELSE prevVersion
        /\ versionMap' = [versionMap EXCEPT ![v] = @ \cup {b}]
        /\ consensusReached' = (consensusReached \/ (Cardinality(versionMap'[v]) >= DataShards
                                                       /\ v = latestVersion'))
        /\ received' = received \cup {b} /\ b \notin received
        /\ UNCHANGED <<marker, now, allocationVersion, todo, errCnt, status>>
    BY <1>2 DEF Receive
  <2>2. TypeOK'
    <3>1. consensusReached' \in BOOLEAN
      BY <2>1 DEF TypeOK
    <3> QED
      BY <1>2, <2>1, <3>1 DEF TypeOK
  <2>3. \A w \in Versions : versionMap'[w] = SeenAt(w)'
    BY <1>2, <2>1 DEF FoldInv, SeenAt, TypeOK
  <2>4. prevVersion' = latestVersion'
    BY <2>1 DEF FoldInv
  <2>5. \A c \in received' : marker'[c] \in Versions => marker'[c] <= latestVersion'
    BY <1>2, <2>1, ShardsAssumption DEF FoldInv, TypeOK, Versions
  <2>6. versionMap'[latestVersion'] # {}
    <3>1. CASE v > latestVersion \/ v = latestVersion
      BY <1>2, <2>1, <3>1 DEF TypeOK
    <3>2. CASE v < latestVersion
      <4>1. latestVersion' = latestVersion /\ latestVersion \in Versions
        BY <1>2, <2>1, <3>2, ShardsAssumption DEF TypeOK, Versions
      <4>2. latestVersion' # v
        BY <4>1, <3>2, ShardsAssumption DEF Versions
      <4>3. versionMap'[latestVersion'] = versionMap[latestVersion]
        BY <2>1, <4>1, <4>2 DEF TypeOK
      <4>4. versionMap[latestVersion] # {}
        <5>1. CASE \E c \in received : marker[c] \in Versions
          BY <5>1 DEF FoldInv
        <5>2. CASE ~ \E c \in received : marker[c] \in Versions
          \* Then latestVersion is still 0, which is not above a version.
          BY <5>2, <3>2, <1>2, ShardsAssumption DEF FoldInv, Versions
        <5> QED
          BY <5>1, <5>2
      <4> QED
        BY <4>3, <4>4
    <3> QED
      BY <1>2, <3>1, <3>2, ShardsAssumption DEF TypeOK, Versions
  <2>7. ASSUME consensusReached'
        PROVE  \E w \in Versions : Cardinality(versionMap'[w]) >= DataShards
    <3>1. CASE Cardinality(versionMap'[v]) >= DataShards
      BY <1>2, <3>1
    <3>2. CASE consensusReached
      <4>1. PICK w \in Versions : Cardinality(versionMap[w]) >= DataShards
        BY <3>2 DEF FoldInv
      <4>2. /\ versionMap[w] \subseteq versionMap'[w]
            /\ versionMap[w] \in SUBSET Blobbers /\ versionMap'[w] \in SUBSET Blobbers
        BY <2>1, <2>2 DEF TypeOK
      <4>3. Cardinality(versionMap[w]) <= Cardinality(versionMap'[w])
        BY <4>2, BlobberSets, FS_Subset
      <4>4. Cardinality(versionMap[w]) \in Nat /\ Cardinality(versionMap'[w]) \in Nat
        BY <4>2, BlobberSets
      <4> QED
        BY <4>1, <4>3, <4>4, ShardsAssumption
    <3> QED
      BY <2>1, <2>7, <3>1, <3>2
  <2>8. ASSUME Cardinality(versionMap'[latestVersion']) >= DataShards
        PROVE  consensusReached'
    <3>1. CASE v = latestVersion'
      BY <2>1, <2>8, <3>1
    <3>2. CASE v # latestVersion'
      <4>1. latestVersion' = latestVersion /\ latestVersion \in Versions
        BY <2>1, <3>2 DEF TypeOK
      <4>2. versionMap'[latestVersion'] = versionMap[latestVersion]
        BY <2>1, <3>2, <4>1 DEF TypeOK
      <4>3. consensusReached
        BY <2>8, <4>2 DEF FoldInv
      <4> QED
        BY <2>1, <4>3
    <3> QED
      BY <3>1, <3>2
  <2> QED
    BY <2>2, <2>3, <2>4, <2>5, <2>6, <2>7, <2>8 DEF FoldInv
<1> QED
  BY <1>1, <1>2

\* Decide commits or rolls back within what the markers allow; the Repair
\* result is out of reach, because the fold has set consensusReached whenever
\* the latest version has enough markers.
LEMMA DecideWithin ==
  ASSUME IndInv, Decide
  PROVE  TypeOK' /\ FoldInv' /\ PhaseInv' /\ FoldDecision'
<1> USE DEF IndInv
<1>1. /\ status = "fold" /\ received = Blobbers /\ todo = {} /\ errCnt = 0 /\ now = marker
      /\ UNCHANGED <<marker, now, foldVars, errCnt>>
  BY DEF Decide, PhaseInv
<1>2. /\ \A v \in Versions : versionMap[v] = At(marker, v)
      /\ Seen(marker) = {} <=> \A v \in Versions : versionMap[v] = {}
      /\ Seen(marker) # {} => /\ latestVersion = Highest(marker)
                              /\ versionMap[latestVersion] # {}
  BY <1>1, FoldComplete
<1>3. FoldInv'
  BY <1>1 DEF FoldInv, SeenAt, foldVars
<1>4. CASE \A v \in Versions : versionMap[v] = {}
  <2>1. status' = "Commit" /\ UNCHANGED <<allocationVersion, todo>>
    BY <1>4 DEF Decide
  <2>2. TypeOK' /\ PhaseInv'
    BY <1>1, <2>1 DEF TypeOK, PhaseInv, foldVars, Returned
  <2>3. FoldDecision'
    BY <1>1, <1>2, <1>4, <2>1 DEF FoldDecision, MayCommit, Seen, At
  <2> QED
    BY <1>3, <2>2, <2>3
<1>5. CASE ~(\A v \in Versions : versionMap[v] = {}) /\ consensusReached
  <2>1. status' = "Commit" /\ allocationVersion' = latestVersion /\ UNCHANGED todo
    BY <1>5 DEF Decide
  <2>2. TypeOK' /\ PhaseInv'
    BY <1>1, <2>1 DEF TypeOK, PhaseInv, foldVars, Returned
  <2>3. MayCommit(marker)
    BY <1>2, <1>5 DEF FoldInv, MayCommit, Readable
  <2>4. FoldDecision'
    BY <1>1, <1>2, <1>5, <2>1, <2>3
       DEF FoldDecision, MayCommit, Seen, At, Highest, Readable
  <2> QED
    BY <1>3, <2>2, <2>4
<1>6. CASE ~(\A v \in Versions : versionMap[v] = {}) /\ ~consensusReached
  <2>1. versionMap[latestVersion] \in SUBSET Blobbers /\ latestVersion \in Versions
    BY DEF TypeOK
  <2>2. /\ Cardinality(versionMap[latestVersion]) \in Nat
        /\ Cardinality(versionMap[latestVersion]) <= Cardinality(Blobbers)
    BY <2>1, BlobberSets
  <2>3. Cardinality(versionMap[latestVersion]) < DataShards
    BY <1>6, <2>2, ShardsAssumption DEF FoldInv
  <2>4. status' = "rolling" /\ todo' = versionMap[latestVersion] /\ UNCHANGED allocationVersion
    BY <1>6, <2>2, <2>3, ShardsAssumption DEF Decide
  <2>5. TypeOK'
    BY <1>1, <2>1, <2>4 DEF TypeOK, foldVars
  <2>6. PhaseInv'
    BY <1>1, <1>2, <1>6, <2>1, <2>2, <2>3, <2>4 DEF PhaseInv, foldVars
  <2>7. MayRollback(marker)
    BY <1>2, <1>6, <2>1, <2>2, <2>3, ShardsAssumption DEF MayRollback, Readable
  <2>8. FoldDecision'
    BY <1>1, <2>4, <2>7 DEF FoldDecision, MayRollback, Seen, At, Highest, Readable
  <2> QED
    BY <1>3, <2>5, <2>6, <2>8
<1> QED
  BY <1>4, <1>5, <1>6

\* A rollback takes one blobber from todo; the blobber goes to the version before
\* its marker's or stays, and errCnt grows by at most one.
LEMMA RollbackStep ==
  ASSUME IndInv, NEW b \in Blobbers, ProcessRollback(b)
  PROVE  TypeOK' /\ FoldInv' /\ PhaseInv' /\ FoldDecision'
<1> USE DEF IndInv
<1>1. /\ status = "rolling" /\ b \in todo /\ todo' = todo \ {b}
      /\ UNCHANGED <<marker, foldVars, allocationVersion, status>>
      /\ errCnt' \in {errCnt, errCnt + 1}
      /\ UNCHANGED now \/ (now[b] > 0 /\ now' = [now EXCEPT ![b] = marker[b] - 1])
  BY DEF ProcessRollback
<1>2. /\ Cardinality(todo') = Cardinality(todo) - 1
      /\ Cardinality(todo) \in Nat /\ Cardinality(Blobbers) \in Nat /\ Cardinality(todo') \in Nat
  <2>1. todo \in SUBSET Blobbers /\ todo' \in SUBSET Blobbers
    BY <1>1 DEF TypeOK
  <2>2. IsFiniteSet(todo)
    BY <2>1, BlobberSets
  <2>3. Cardinality(todo \ {b}) = Cardinality(todo) - 1
    BY <1>1, <2>2, FS_RemoveElement
  <2> QED
    BY <1>1, <2>1, <2>3, BlobberSets
<1>3. errCnt' \in 0 .. Cardinality(Blobbers) /\ errCnt' + Cardinality(todo') <= Cardinality(Blobbers)
  BY <1>1, <1>2 DEF TypeOK, PhaseInv
<1>4. now' \in [Blobbers -> Markers] /\ \A c \in todo' : now'[c] = marker[c]
  <2>1. now[b] = marker[b] /\ marker[b] \in Markers
    BY <1>1 DEF PhaseInv, TypeOK
  <2>2. now[b] > 0 => marker[b] - 1 \in Markers
    BY <2>1, ShardsAssumption DEF Markers, Versions, Unreachable, NoMarker
  <2> QED
    BY <1>1, <2>2 DEF PhaseInv, TypeOK
<1>5. TypeOK'
  BY <1>1, <1>3, <1>4 DEF TypeOK, foldVars
<1>6. FoldInv'
  BY <1>1 DEF FoldInv, SeenAt, foldVars
<1>7. PhaseInv'
  BY <1>1, <1>3, <1>4 DEF PhaseInv, foldVars
<1>8. FoldDecision'
  BY <1>1 DEF FoldDecision, MayRollback, Seen, At, Highest, Readable, foldVars
<1> QED
  BY <1>5, <1>6, <1>7, <1>8

\* The result after the rollbacks is the one RollbackStatus gives.
LEMMA RollbacksDoneStep ==
  ASSUME IndInv, RollbacksDone
  PROVE  TypeOK' /\ FoldInv' /\ PhaseInv' /\ FoldDecision'
<1> USE DEF IndInv
<1>1. /\ status = "rolling" /\ received = Blobbers /\ MayRollback(marker)
      /\ UNCHANGED <<marker, now, foldVars, allocationVersion, todo, errCnt>>
  BY DEF RollbacksDone, PhaseInv, FoldDecision
<1>2. latestVersion = Highest(marker) /\ versionMap[latestVersion] = At(marker, latestVersion)
  BY <1>1, FoldComplete DEF MayRollback, TypeOK
<1>3. status' = RollbackStatus(marker, errCnt) /\ status' \in {"Broken", "Repair", "Rollback"}
  <2>1. LET latest == Cardinality(At(marker, Highest(marker)))
            fullConsensus == latest - (DataShards - latest)
        IN  status' = IF errCnt > fullConsensus THEN "Broken"
                      ELSE IF errCnt = fullConsensus THEN "Repair" ELSE "Rollback"
    BY <1>2 DEF RollbacksDone, FoldInv
  <2> QED
    BY <2>1 DEF RollbackStatus
<1>4. TypeOK'
  BY <1>1, <1>3 DEF TypeOK, foldVars, Returned
<1>5. FoldInv'
  BY <1>1 DEF FoldInv, SeenAt, foldVars
<1>6. PhaseInv'
  BY <1>1, <1>3 DEF PhaseInv, foldVars
<1>7. FoldDecision'
  BY <1>1, <1>3
     DEF FoldDecision, MayRollback, RollbackStatus, Seen, At, Highest, Readable, foldVars
<1> QED
  BY <1>4, <1>5, <1>6, <1>7

\* IndInv is inductive: one step per statement of CheckAllocStatus.
LEMMA NextIndInv == IndInv /\ [Next]_vars => IndInv'
<1> SUFFICES ASSUME IndInv, [Next]_vars PROVE IndInv'
  OBVIOUS
<1> USE DEF IndInv
<1>1. CASE CheckErrors
  <2>1. /\ status = "read" /\ status' \in {"Broken", "fold"} /\ received = {}
        /\ status' = "Broken" => Blobbers # {}
        /\ UNCHANGED <<marker, now, foldVars, allocationVersion, todo, errCnt>>
    <3>1. TooManyErrors(marker) => Blobbers # {}
      BY FS_EmptySet, ShardsAssumption DEF TooManyErrors
    <3> QED
      BY <1>1, <3>1 DEF CheckErrors, PhaseInv
  <2> QED
    BY <2>1 DEF TypeOK, FoldInv, SeenAt, PhaseInv, FoldDecision, foldVars, Returned
<1>2. ASSUME NEW b \in Blobbers, Receive(b) PROVE IndInv'
  <2>1. status = "fold" /\ status' = "fold" /\ UNCHANGED <<marker, now, todo, errCnt>>
    BY <1>2 DEF Receive
  <2>2. PhaseInv' /\ FoldDecision'
    BY <2>1 DEF PhaseInv, FoldDecision
  <2> QED
    BY <1>2, <2>2, ReceiveFold
<1>3. CASE Decide
  BY <1>3, DecideWithin
<1>4. ASSUME NEW b \in Blobbers, ProcessRollback(b) PROVE IndInv'
  BY <1>4, RollbackStep
<1>5. CASE RollbacksDone
  BY <1>5, RollbacksDoneStep
<1>6. CASE UNCHANGED vars
  BY <1>6 DEF vars, foldVars, TypeOK, FoldInv, SeenAt, PhaseInv, FoldDecision, MayCommit,
     MayRollback, RollbackStatus, Seen, At, Highest, Readable
<1> QED
  BY <1>1, <1>2, <1>3, <1>4, <1>5, <1>6 DEF Next

-----------------------------------------------------------------------------
\* The variables of the CheckAllocStatus model keep their types; errCnt never
\* exceeds the number of blobbers.
THEOREM TypeCorrect == Spec => []TypeOK
<1>1. IndInv => TypeOK
  BY DEF IndInv
<1> QED
  BY <1>1, InitIndInv, NextIndInv, PTL DEF Spec

\* CheckAllocStatus decides within what the markers allow in whatever order its
\* goroutines deliver them, and never returns Repair before the rollbacks.
THEOREM FoldDecisionHolds == Spec => []FoldDecision
<1>1. IndInv => FoldDecision
  BY DEF IndInv
<1> QED
  BY <1>1, InitIndInv, NextIndInv, PTL DEF Spec

\* processRollback only ever takes a blobber from the highest version, and only
\* when fewer than DataShards markers have it, to the version before.
THEOREM RollbackSparesQuorumHolds == Spec => RollbackSparesQuorum
<1>1. ASSUME IndInv, [Next]_vars, NEW b \in Blobbers, now'[b] # now[b]
      PROVE  /\ marker[b] = Highest(marker) /\ now'[b] = marker[b] - 1
             /\ Cardinality(At(marker, marker[b])) < DataShards
  <2>1. PICK c \in Blobbers : ProcessRollback(c)
    BY <1>1 DEF Next, vars, CheckErrors, Decide, RollbacksDone, Receive
  <2>2. c = b /\ b \in todo /\ status = "rolling" /\ now'[b] = marker[b] - 1
    BY <1>1, <2>1 DEF ProcessRollback, IndInv, TypeOK
  <2>3. /\ received = Blobbers /\ todo \subseteq versionMap[latestVersion]
        /\ Cardinality(versionMap[latestVersion]) < DataShards
    BY <1>1, <2>2 DEF IndInv, PhaseInv
  <2>4. /\ versionMap[latestVersion] = At(marker, latestVersion)
        /\ latestVersion = Highest(marker)
    BY <1>1, <2>2, <2>3, FoldComplete DEF IndInv, TypeOK
  <2> QED
    BY <2>2, <2>3, <2>4 DEF At
<1>2. IndInv /\ [Next]_vars =>
        [\A b \in Blobbers : now'[b] # now[b] =>
           /\ marker[b] = Highest(marker) /\ now'[b] = marker[b] - 1
           /\ Cardinality(At(marker, marker[b])) < DataShards]_vars
  BY <1>1
<1> QED
  BY <1>2, InitIndInv, NextIndInv, PTL DEF Spec, RollbackSparesQuorum
=============================================================================
