------------------------------- MODULE Policy -------------------------------
(***************************************************************************)
(* Policies and the two ways in which the code decides whether one applies *)
(* to a process: Match, on the server and in the process manager, and      *)
(* Filter, by which the enforcer scans the processes of the machine.       *)
(*                                                                         *)
(* A policy is a record with a sequence of criteria, each a record of the  *)
(* property it examines, a comparison and a value.  Strings are abstract:  *)
(* Lower and Fold say which are equal in lower case and under simple case  *)
(* folding, Regex and RegexFold what a regular expression matches.  The    *)
(* two pairs are not related: a string may equal another in lower case but *)
(* not under folding, and [^a] matches more than (?i)[^a] does.            *)
(***************************************************************************)
EXTENDS Sequences, Functions

CONSTANTS
    Lower(_),     \* strings.ToLower
    Fold(_),      \* the class of a string under strings.EqualFold
    Compiles,     \* the strings that are regular expressions
    Regex(_),     \* what a regular expression matches
    RegexFold(_), \* what it matches with the flag (?i)
    EarlyKeys,    \* the properties known when processes are listed: the
                  \* name, the process ID and those of the environment
    Zero(_)       \* the value of each other property before it is collected

-----------------------------------------------------------------------------
\* Criterion.Match, on the value of the property it examines.
CriterionMatch(c, value) ==
    CASE c.comparison = "exact"      -> c.value = value
      [] c.comparison = "ignorecase" -> Lower(c.value) = Lower(value)
      [] c.comparison = "regex"      -> c.value \in Compiles /\ value \in Regex(c.value)
      [] OTHER                       -> FALSE

\* Criteria.Match: a policy without criteria applies to nothing.
PolicyMatch(pol, props) ==
    /\ pol.criteria # <<>>
    /\ \A c \in Range(pol.criteria) : CriterionMatch(c, props[c.key])

\* Set.Match
Match(pols, props) == {pol \in pols : PolicyMatch(pol, props)}

-----------------------------------------------------------------------------
\* makeMatcher fails on an unknown comparison, a regular expression that is
\* empty and one that does not compile.
Understood(c) ==
    \/ c.comparison \in {"exact", "ignorecase"}
    \/ c.comparison = "regex" /\ c.value \in Compiles \ {""}

\* The matcher of a criterion that is understood.
Matcher(c, value) ==
    CASE c.comparison = "exact"      -> c.value = value
      [] c.comparison = "ignorecase" -> Fold(c.value) = Fold(value)
      [] c.comparison = "regex"      -> value \in RegexFold(c.value)

\* The filter of a policy: it is skipped when it has no criteria or one that
\* is not understood.
Filter(pol, props) ==
    /\ pol.criteria # <<>>
    /\ \A c \in Range(pol.criteria) : Understood(c) /\ Matcher(c, props[c.key])

\* The properties of a process when the filter is applied to it: the scan
\* collects its path, session, user and times afterwards.
Listed(props) == [k \in DOMAIN props |-> IF k \in EarlyKeys THEN props[k] ELSE Zero(k)]

\* The processes that Scan lists, given their properties.
Scanned(pols, props) ==
    {p \in DOMAIN props : \E pol \in pols : Filter(pol, Listed(props[p]))}
=============================================================================
