-------------------------- MODULE MCChunkedUpload --------------------------
(* Instances of ChunkedUpload for TLC. *)
EXTENDS ChunkedUpload, TLC

Symmetry == Permutations(Blobbers) \cup Permutations(Workers)
=============================================================================
