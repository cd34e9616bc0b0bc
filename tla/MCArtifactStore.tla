--------------------------- MODULE MCArtifactStore ---------------------------
(* Instances of ArtifactStore for TLC: one writer, a reader. *)
EXTENDS ArtifactStore
=============================================================================
