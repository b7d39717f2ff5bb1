--------------------------- MODULE MCAllocStatus ---------------------------
(* Instances of AllocStatus for TLC. *)
EXTENDS AllocStatus, TLC

BlobberSymmetry == Permutations(Blobbers)
=============================================================================
