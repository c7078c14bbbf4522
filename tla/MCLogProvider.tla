---------------------------- MODULE MCLogProvider ----------------------------
(***************************************************************************)
(* Instances of LogProvider for TLC.  The source starts with a decaying    *)
(* lease, which a transaction may delete, reactivate or replace.           *)
(***************************************************************************)
EXTENDS LogProvider

CONSTANTS i1, i2

Decaying == {[i \in Instances |-> IF i = i1 THEN "released" ELSE "none"]}
=============================================================================
