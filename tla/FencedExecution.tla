--------------------------- MODULE FencedExecution ---------------------------
(***************************************************************************)
(* What the job lifecycle promises, without rows, leases or processes.  A  *)
(* run is executed under tokens.  A token is granted at most once, to a    *)
(* run whose owner holds no other, and never more than Limit are held.  A  *)
(* result is published only by the token that is held at that moment, and  *)
(* what was revoked never comes back.                                      *)
(***************************************************************************)
EXTENDS Naturals, FiniteSets

CONSTANTS Runs, Tokens, Limit, OwnerOf(_)

VARIABLES
  phase,    \* [Runs -> {"new", "waiting", "running", "done", "revoked"}]
  granted,  \* [Runs -> SUBSET Tokens]: every token the run was ever given
  held,     \* SUBSET (Runs \X Tokens): granted and not given back
  result    \* [Runs -> Tokens \cup {0}]: the token that published, 0 for none

vars == <<phase, granted, held, result>>

Phases == {"new", "waiting", "running", "done", "revoked"}

Init ==
  /\ phase \in [Runs -> {"new", "waiting"}]
  /\ granted = [r \in Runs |-> {}]
  /\ held = {}
  /\ result = [r \in Runs |-> 0]

Submit(r) ==
  /\ phase[r] = "new"
  /\ phase' = [phase EXCEPT ![r] = "waiting"]
  /\ UNCHANGED <<granted, held, result>>

Acquire(r, t) ==
  /\ phase[r] = "waiting"
  /\ \A u \in granted[r] : u < t
  /\ Cardinality(held) < Limit
  /\ \A h \in held : OwnerOf(h[1]) # OwnerOf(r)
  /\ phase' = [phase EXCEPT ![r] = "running"]
  /\ granted' = [granted EXCEPT ![r] = @ \cup {t}]
  /\ held' = held \cup {<<r, t>>}
  /\ UNCHANGED result

Publish(r, t) ==
  /\ phase[r] = "running"
  /\ <<r, t>> \in held
  /\ phase' = [phase EXCEPT ![r] = "done"]
  /\ result' = [result EXCEPT ![r] = t]
  /\ UNCHANGED <<granted, held>>

(* A token is given back; a run that was still running waits again.         *)
Release(r, t) ==
  /\ <<r, t>> \in held
  /\ held' = held \ {<<r, t>>}
  /\ phase' = [phase EXCEPT ![r] = IF @ = "running" THEN "waiting" ELSE @]
  /\ UNCHANGED <<granted, result>>

(* A run that is given up before it is granted another token.               *)
Drop(r) ==
  /\ phase[r] = "waiting"
  /\ phase' = [phase EXCEPT ![r] = "done"]
  /\ UNCHANGED <<granted, held, result>>

(* Revocation leaves the tokens where they are: it proves no process dead.  *)
(* It erases all the results of the runs it covers.                         *)
Revoke(S) ==
  /\ \A r \in S : phase[r] # "new"
  /\ phase' = [r \in Runs |-> IF r \in S THEN "revoked" ELSE phase[r]]
  /\ result' = [r \in Runs |-> IF r \in S THEN 0 ELSE result[r]]
  /\ UNCHANGED <<granted, held>>

Next ==
  \/ \E r \in Runs : Submit(r) \/ Drop(r)
  \/ \E r \in Runs, t \in Tokens : Acquire(r, t) \/ Publish(r, t) \/ Release(r, t)
  \/ \E S \in SUBSET Runs : Revoke(S)

Spec == Init /\ [][Next]_vars
=============================================================================
