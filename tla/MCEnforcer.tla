----------------------------- MODULE MCEnforcer -----------------------------
(* Two processes whose names differ in case only, and one on the blocklist, *)
(* that take over the process ID of each other.                             *)
EXTENDS Enforcer

CONSTANTS p1, p2, blocked

MCProcesses == {p1, p2, blocked}
MCPid == [p \in MCProcesses |-> 1]
MCProps == [p \in MCProcesses |->
               [name |-> IF p = p2 THEN "APP" ELSE "app", user |-> "ann"]]

MCStrings == {"app", "APP", "ann", "", "a(", "ap"}
MCLower(s) == IF s = "APP" THEN "app" ELSE s
MCCompiles == MCStrings \ {"a("}
MCRegex(r) == CASE r = "" -> MCStrings [] r = "ap" -> {"app", "ap"} [] OTHER -> {r}
MCRegexFold(r) == {s \in MCStrings : \E t \in MCRegex(r) : MCLower(s) = MCLower(t)}
MCZero(k) == ""

Criterion(key, comparison, value) == [key |-> key, comparison |-> comparison, value |-> value]

Pol(criteria) == [criteria |-> criteria]

\* Policies that the scan does not list a process for: without criteria, not
\* understood, or about the user, which it does not know when it filters.
Unseen ==
    {Pol(<<>>), Pol(<<Criterion("name", "regex", "a(")>>), Pol(<<Criterion("name", "glob", "app")>>),
     Pol(<<Criterion("name", "regex", "")>>), Pol(<<Criterion("user", "exact", "ann")>>)}

\* Beside them, a policy that matches all and one that matches p1 (and blocked).
MCPolicySets ==
    {Unseen,
     Unseen \cup {Pol(<<Criterion("name", "ignorecase", "app")>>),
                  Pol(<<Criterion("name", "exact", "app"), Criterion("name", "regex", "ap")>>)}}

\* A policy for the programs of a user.
UserPolicySets ==
    {{Pol(<<Criterion("name", "ignorecase", "app"), Criterion("user", "exact", "ann")>>)}}
=============================================================================
