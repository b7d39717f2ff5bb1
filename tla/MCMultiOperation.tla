-------------------------- MODULE MCMultiOperation --------------------------
(* Instances of MultiOperation for TLC. *)
EXTENDS MultiOperation, TLC

Symmetry == Permutations(Blobbers) \cup Permutations(Conns) \cup Permutations(Probes)

\* Local variables of a call, while the call can still read them.  Two states
\* that differ in dead ones only have the same steps and the same properties.
Live(t, phases, v) == IF pc[t] \in phases THEN v ELSE {}
BeforeCommit == {"ops", "lock", "read", "rolling", "Commit"}
View ==
  <<singleClientMode, log, inflight, owner, pc, todo, result, doubt, budget, checkStatus,
    [t \in Checkers |-> Live(t, {"read", "rolling"}, <<marker[t], errCnt[t]>>)],
    [c \in Conns |-> Live(c, BeforeCommit, mask[c])],
    [c \in Conns |-> IF pc[c] = "ops" \/ result[c] = "nil"
                       THEN <<ops[c], changeCount[c]>> ELSE {}],
    [c \in Conns |-> Live(c, {"commit"}, rollbackMask[c])],
    IF singleClientMode THEN <<blobberVersion, allocationVersion>>
      ELSE [c \in Conns |-> Live(c, {"read", "Commit", "commit", "hang"},
                                 <<blobberVersion[c], allocationVersion[c]>>)]>>
=============================================================================
