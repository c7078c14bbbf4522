------------------------------ MODULE MCGuardian ------------------------------
(***************************************************************************)
(* Instances of Guardian for TLC: consumer A runs the instances a1 and a2, *)
(* consumer B runs b1 and b2 (a run says which of them exist).             *)
(***************************************************************************)
EXTENDS Guardian, TLC

CONSTANTS a1, a2, b1, b2, A, B

Owner == [i \in Instances |-> IF i \in {a1, a2} THEN A ELSE B]

\* The policies that match the resource agree on one limit.
Limit1 == {[limit |-> 1, duration |-> 1, decay |-> 1]}
Limit2 == {[limit |-> 2, duration |-> 1, decay |-> 1]}
Symmetry == Permutations(Handlers) \cup Permutations({a1, a2})
=============================================================================
