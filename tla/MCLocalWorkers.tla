--------------------------- MODULE MCLocalWorkers ---------------------------
(* Small instances of LocalWorkers for TLC. *)
EXTENDS LocalWorkers, TLC

CONSTANTS r1, r2, a1, a2, o1, o2

OneEach == r1 :> a1 @@ r2 :> a2
TwoOwners == a1 :> o1 @@ a2 :> o2
One == r1 :> a1
Shared == r1 :> a1 @@ r2 :> a1
OneOwner == a1 :> o1
=============================================================================
