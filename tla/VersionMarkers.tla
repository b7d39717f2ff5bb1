--------------------------- MODULE VersionMarkers ---------------------------
(***************************************************************************)
(* What CheckAllocStatus (zboxcore/sdk/rollback.go) concludes from the     *)
(* version markers of the blobbers, as a relation between the markers and  *)
(* the decision.  AllocStatus shows that the code's loop decides within    *)
(* this relation whatever the order the markers arrive in; MultiOperation  *)
(* uses the relation.                                                      *)
(***************************************************************************)
EXTENDS Integers, FiniteSets

CONSTANTS
  Blobbers,      \* a.Blobbers
  DataShards,    \* a.DataShards
  ParityShards,  \* a.ParityShards
  MaxVersion     \* bound: the highest version of a marker

ASSUME ShardsAssumption ==
  /\ IsFiniteSet(Blobbers)
  /\ DataShards \in Nat \ {0} /\ ParityShards \in Nat
  /\ MaxVersion \in Nat

Versions == 0 .. MaxVersion
Unreachable == -1   \* GetWritemarker returned an error
NoMarker == -2      \* it returned no version marker
Markers == Versions \cup {Unreachable, NoMarker}

\* errCnt of the reads: with too many errors the allocation is broken.
TooManyErrors(m) ==
  LET errCnt == Cardinality({b \in Blobbers : m[b] = Unreachable})
  IN  IF ParityShards > 0 THEN errCnt > ParityShards ELSE errCnt > 0

\* The blobbers at a version, and the versions with enough of them to read.
At(m, v) == {b \in Blobbers : m[b] = v}
Readable(m) == {v \in Versions : Cardinality(At(m, v)) >= DataShards}
Seen(m) == {v \in Versions : At(m, v) # {}}
Highest(m) == CHOOSE v \in Seen(m) : \A w \in Seen(m) : w <= v

\* The loop over markerChan may say Commit when some version has enough
\* markers: that version's markers may all arrive before a later version's.
MayCommit(m) == Seen(m) = {} \/ Readable(m) # {}

\* It may roll back when the highest version does not have enough markers.
MayRollback(m) == Seen(m) # {} /\ Highest(m) \notin Readable(m)

\* The status after n of the rollbacks failed.  prevVersion is latestVersion in
\* the code, so twice the markers of the latest version are counted.
RollbackStatus(m, n) ==
  LET latest == Cardinality(At(m, Highest(m)))
      fullConsensus == latest - (DataShards - latest)
  IN  IF n > fullConsensus THEN "Broken"
      ELSE IF n = fullConsensus THEN "Repair" ELSE "Rollback"
=============================================================================
