---------------------------- MODULE MCArtifactBlobs ----------------------------
(* Instances of ArtifactBlobs for TLC; the cfg files give the constants. *)
EXTENDS ArtifactBlobs, TLC

UploadSymmetry == Permutations(Upload)
================================================================================
