-------------------------- MODULE MCResumableUpload --------------------------
(* Small instances of ResumableUpload for TLC. *)
EXTENDS ResumableUpload, TLC

CONSTANTS s1, s2, s3, o1, o2

One == s1 :> o1
TwoAndOne == s1 :> o1 @@ s2 :> o1 @@ s3 :> o2
WorkerSymmetry == Permutations(Workers)
=============================================================================
