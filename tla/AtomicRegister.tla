--------------------------- MODULE AtomicRegister ---------------------------
(***************************************************************************)
(* What CloudLog promises its users: one value, moved by one complete      *)
(* mutation at a time, each applied to the value it replaces.              *)
(***************************************************************************)
CONSTANTS Writers, Goal
VARIABLE value

Apply(goal) ==
    \/ goal = "submit" /\ value = "PLANNED" /\ value' = "SUBMITTING"
    \/ goal = "stop" /\ value = "PLANNED" /\ value' = "STOPPED"
    \/ goal = "stop" /\ value = "SUBMITTING" /\ value' = "STOPPING"

Spec == value = "PLANNED" /\ [][\E w \in Writers : Apply(Goal[w])]_value
=============================================================================
