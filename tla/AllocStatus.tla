---------------------------- MODULE AllocStatus ----------------------------
(***************************************************************************)
(* Allocation.CheckAllocStatus (zboxcore/sdk/rollback.go): it reads the    *)
(* version marker of every blobber, each in a goroutine, puts them into    *)
(* markerChan in the order they arrive, and folds over that channel to     *)
(* decide whether the allocation can be committed to, or whether the       *)
(* latest version has to be rolled back first.                             *)
(***************************************************************************)
EXTENDS VersionMarkers

VARIABLES
  marker,            \* what GetWritemarker returned for each blobber
  now,               \* external: the version each blobber is at
  received,          \* blobbers whose entry the loop over markerChan has seen
  versionMap,        \* version -> blobbers
  latestVersion, prevVersion, consensusReached,
  allocationVersion, \* a.allocationVersion
  todo,              \* processRollback goroutines not finished
  errCnt,            \* rollbacks that failed
  status             \* where the call is, and then what it returned

foldVars == <<received, versionMap, latestVersion, prevVersion, consensusReached>>
vars == <<marker, now, foldVars, allocationVersion, todo, errCnt, status>>

Returned == {"Commit", "Repair", "Broken", "Rollback"}

TypeOK ==
  /\ marker \in [Blobbers -> Markers] /\ now \in [Blobbers -> Markers]
  /\ received \subseteq Blobbers
  /\ versionMap \in [Versions -> SUBSET Blobbers]
  /\ latestVersion \in Versions /\ prevVersion \in Versions
  /\ consensusReached \in BOOLEAN
  /\ allocationVersion \in Versions
  /\ todo \subseteq Blobbers
  /\ errCnt \in 0 .. Cardinality(Blobbers)
  /\ status \in {"read", "fold", "rolling"} \cup Returned

Init ==
  /\ marker \in [Blobbers -> Markers]
  /\ now = marker
  /\ received = {}
  /\ versionMap = [v \in Versions |-> {}]
  /\ latestVersion = 0 /\ prevVersion = 0
  /\ consensusReached = FALSE
  /\ allocationVersion = 0
  /\ todo = {} /\ errCnt = 0
  /\ status = "read"

-----------------------------------------------------------------------------
\* wg.Wait after the reads.
CheckErrors ==
  /\ status = "read"
  /\ status' = IF TooManyErrors(marker) THEN "Broken" ELSE "fold"
  /\ UNCHANGED <<marker, now, foldVars, allocationVersion, todo, errCnt>>

\* A variant that takes the version received last for the latest one.
ReceiveLastAsLatest(b) ==
  /\ status = "fold"
  /\ b \in Blobbers \ received
  /\ received' = received \cup {b}
  /\ marker[b] \in Versions
  /\ latestVersion' = marker[b]
  /\ prevVersion' = marker[b]
  /\ versionMap' = [versionMap EXCEPT ![marker[b]] = @ \cup {b}]
  /\ consensusReached' =
       (consensusReached \/ Cardinality(versionMap'[marker[b]]) >= DataShards)
  /\ UNCHANGED <<marker, now, allocationVersion, todo, errCnt, status>>

\* One round of the loop over markerChan.  prevVersion is given the new latest
\* version, and consensusReached stays when a later version arrives.
Receive(b) ==
  /\ status = "fold"
  /\ b \in Blobbers \ received
  /\ received' = received \cup {b}
  /\ IF marker[b] \notin Versions
       THEN UNCHANGED <<versionMap, latestVersion, prevVersion, consensusReached>>
       ELSE LET v == marker[b] IN
              /\ latestVersion' = IF v > latestVersion THEN v ELSE latestVersion
              /\ prevVersion' = IF v > latestVersion THEN latestVersion' ELSE prevVersion
              /\ versionMap' = [versionMap EXCEPT ![v] = @ \cup {b}]
              /\ consensusReached' =
                   (consensusReached \/ (Cardinality(versionMap'[v]) >= DataShards
                                         /\ v = latestVersion'))
  /\ UNCHANGED <<marker, now, allocationVersion, todo, errCnt, status>>

\* A variant that rolls back whatever the markers say.
DecideRollback ==
  /\ status = "fold"
  /\ received = Blobbers
  /\ status' = "rolling" /\ todo' = versionMap[latestVersion]
  /\ UNCHANGED <<marker, now, foldVars, allocationVersion, errCnt>>

\* The channel is empty: commit, repair, or start the rollbacks.
Decide ==
  /\ status = "fold"
  /\ received = Blobbers
  /\ IF \A v \in Versions : versionMap[v] = {}
       THEN status' = "Commit" /\ UNCHANGED <<allocationVersion, todo>>
     ELSE IF consensusReached
       THEN status' = "Commit" /\ allocationVersion' = latestVersion /\ UNCHANGED todo
     ELSE IF Cardinality(versionMap[latestVersion]) >= DataShards
       THEN status' = "Repair" /\ UNCHANGED <<allocationVersion, todo>>
     ELSE status' = "rolling" /\ todo' = versionMap[latestVersion]
          /\ UNCHANGED allocationVersion
  /\ UNCHANGED <<marker, now, foldVars, errCnt>>

\* processRollback at one blobber, which goes back one version if it has one, or
\* whose request fails after its tries; an answer that is lost counts as a failure.
ProcessRollback(b) ==
  /\ status = "rolling"
  /\ b \in todo
  /\ todo' = todo \ {b}
  /\ \/ /\ now[b] > 0 /\ now' = [now EXCEPT ![b] = marker[b] - 1]
        /\ errCnt' \in {errCnt, errCnt + 1}
     \/ errCnt' = errCnt + 1 /\ UNCHANGED now
  /\ UNCHANGED <<marker, foldVars, allocationVersion, status>>

\* wg.Wait after the rollbacks.
RollbacksDone ==
  /\ status = "rolling"
  /\ todo = {}
  /\ LET fullConsensus == Cardinality(versionMap[latestVersion])
                            - (DataShards - Cardinality(versionMap[prevVersion]))
     IN  status' = IF errCnt > fullConsensus THEN "Broken"
                   ELSE IF errCnt = fullConsensus THEN "Repair" ELSE "Rollback"
  /\ UNCHANGED <<marker, now, foldVars, allocationVersion, todo, errCnt>>

Next == CheckErrors \/ Decide \/ RollbacksDone
          \/ \E b \in Blobbers : Receive(b) \/ ProcessRollback(b)

Spec == Init /\ [][Next]_vars

-----------------------------------------------------------------------------
\* Whatever the order the markers arrive in, the code decides within what
\* MayCommit and MayRollback allow, reports failed rollbacks as RollbackStatus
\* says, and never reaches the Repair result before the rollbacks.
FoldDecision ==
  LET decided == received = Blobbers /\ status \notin {"read", "fold"}
  IN  /\ status = "Commit" => /\ MayCommit(marker)
                              /\ Seen(marker) # {} => allocationVersion = Highest(marker)
      /\ decided /\ status # "Commit" => MayRollback(marker)
      /\ decided /\ status \notin {"Commit", "rolling"} =>
           status = RollbackStatus(marker, errCnt)

\* A version that DataShards readable markers have is never rolled back, and
\* neither is any but the highest version.
RollbackSparesQuorum ==
  [][\A b \in Blobbers : now'[b] # now[b] =>
       /\ marker[b] = Highest(marker) /\ now'[b] = marker[b] - 1
       /\ Cardinality(At(marker, marker[b])) < DataShards]_vars
=============================================================================
