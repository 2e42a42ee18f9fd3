-------------------------- MODULE MCCloudDispatch --------------------------
(* Small instances of CloudDispatch for TLC. *)
EXTENDS CloudDispatch, TLC

CONSTANTS r1, a1, o1

One == r1 :> a1
OneOwner == a1 :> o1
=============================================================================
