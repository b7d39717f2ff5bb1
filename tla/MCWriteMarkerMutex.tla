------------------------- MODULE MCWriteMarkerMutex -------------------------
(* Instances of WriteMarkerMutex for TLC. *)
EXTENDS WriteMarkerMutex, TLC

\* Values of MaxRefresh: one of the connections, or none, is in its
\* section long enough to refresh its locks.
NoRefresh == [c \in Conns |-> 0]
OneRefresh == [c \in Conns |-> IF c = (CHOOSE d \in Conns : TRUE) THEN 1 ELSE 0]

ConnSymmetry == Permutations(Conns)

\* States that differ only in what no later step and no property looks at are
\* one state to TLC: the deferred mask outside "work", the count of locks and
\* the lead blobber once the connection is unlocked, the mask once nothing
\* refreshes it, and failures on blobbers the connection no longer holds when
\* it sends no more requests.
LiveView ==
  [c \in Conns |->
     LET over == pc[c] = "done" /\ refresh[c] \in {"off", "stopped"}
         counting == pc[c] \in Acquiring \cup InSection
     IN  <<pc[c], refresh[c], IF over THEN 0 ELSE rounds[c], waiting[c], sending[c], ctxDone[c], unlocking[c],
           IF over THEN {} ELSE fenced[c],
           IF counting THEN <<consensus[c], acquired[c]>> ELSE <<>>,
           IF pc[c] \in {"unlocked", "done"} THEN 0 ELSE lead[c],
           IF counting \/ (~ctxDone[c] /\ refresh[c] \notin {"off", "stopped"})
             THEN mask[c] ELSE {},
           IF pc[c] = "work" THEN umask[c] ELSE {},
           IF over THEN {b \in failed[c] : holder[b] = c} ELSE failed[c]>>]

View == <<LiveView, holder, budget>>
=============================================================================
