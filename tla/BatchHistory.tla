---------------------------- MODULE BatchHistory ----------------------------
(***************************************************************************)
(* What the batches of an allocation look like from outside, whatever the  *)
(* number of blobbers: one history of batches.  A batch that runs is       *)
(* appended; the last one is withdrawn as long as its caller was not told  *)
(* that it is completed; a batch is reported completed only while it is    *)
(* the last one.  So the completed batches keep their order and their      *)
(* place, and each was made on top of all that were completed before it.   *)
(***************************************************************************)
EXTENDS Naturals, Sequences

CONSTANT Batches

VARIABLES
  history,   \* the batches, in the order of the versions
  outcome    \* what the caller of each batch was told

vars == <<history, outcome>>

Init ==
  /\ history = <<>>
  /\ outcome = [c \in Batches |-> "none"]

AppendBatch(c) ==
  /\ outcome[c] = "none"
  /\ \A i \in 1 .. Len(history) : history[i] # c
  /\ history' = Append(history, c)
  /\ UNCHANGED outcome

Withdraw ==
  /\ history # <<>>
  /\ outcome[history[Len(history)]] # "completed"
  /\ history' = SubSeq(history, 1, Len(history) - 1)
  /\ UNCHANGED outcome

Complete(c) ==
  /\ outcome[c] = "none"
  /\ history # <<>> /\ history[Len(history)] = c
  /\ outcome' = [outcome EXCEPT ![c] = "completed"]
  /\ UNCHANGED history

Fail(c) ==
  /\ outcome[c] = "none"
  /\ outcome' = [outcome EXCEPT ![c] = "error"]
  /\ UNCHANGED history

Next ==
  \/ \E c \in Batches : AppendBatch(c) \/ Complete(c) \/ Fail(c)
  \/ Withdraw

Spec == Init /\ [][Next]_vars
=============================================================================
