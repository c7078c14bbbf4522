---------------------------- MODULE PolicyManager ----------------------------
(***************************************************************************)
(* The enforcer's copy of the policies: PolicyManager.Load and Update as   *)
(* Service.run and its policy goroutine call them, and the policy cache,   *)
(* a directory of fsprov with one file per policy that is named by the     *)
(* policy's hash.  The process may crash between any two file operations   *)
(* and in the middle of a write.                                           *)
(***************************************************************************)
EXTENDS FiniteSets

CONSTANTS
    Policies, \* the policies there are
    Served,   \* the sets of them that the guardian may serve
    Unstable  \* policies with several properties: Hash ranges over a map

ASSUME PolicyConstants ==
    Served \subseteq SUBSET Policies /\ Unstable \subseteq Policies

VARIABLES
    policies, \* m.policies
    files,    \* the files of the cache
    service,  \* whether the service is stopped, running or stopping
    update,   \* where the goroutine that updates the policies is
    owed      \* policies in every set that was cached since the cache was complete

vars == <<policies, files, service, update, owed>>

\* A name is a policy with one of the two hashes that we let it have.
Names == Policies \X {1, 2}

\* The names that SetPolicies may compute for a set.
Hashes(set) ==
    {names \in SUBSET {n \in Names : n[1] \in set /\ (n[2] = 1 \/ n[1] \in Unstable)} :
        \A p \in set : Cardinality({n \in names : n[1] = p}) = 1}

Content(ns) == {n[1] : n \in ns}
Whole == {n \in Names : files[n] = "whole"}
Torn  == {n \in Names : files[n] = "torn"}
Existing == Whole \cup Torn

\* started: the goroutines have been started; write and remove: the files left
\* to write and to remove; open: the file that is being written; changed: the
\* set differs from the previous.
NoUpdate == [at |-> "off", started |-> FALSE, write |-> {}, remove |-> {}, open |-> {},
             changed |-> FALSE]

Init ==
    /\ policies = {} /\ owed = {}
    /\ files = [n \in Names |-> "none"]
    /\ service = "stopped" /\ update = NoUpdate

-----------------------------------------------------------------------------
(* Service.Start, and the beginning of Service.run. *)

Start ==
    /\ service = "stopped"
    /\ service' = "running"
    /\ update' = [NoUpdate EXCEPT !.at = "load"]
    /\ UNCHANGED <<policies, files, owed>>

\* Load: a file that cannot be decoded fails the whole load.
Load ==
    /\ update.at = "load"
    /\ policies' = IF Torn = {} THEN Content(Whole) ELSE policies
    /\ update' = [update EXCEPT !.at = "fetch"]
    /\ UNCHANGED <<files, service, owed>>

-----------------------------------------------------------------------------
(* PolicyManager.Update, called once by Service.run and then by the goroutine. *)

\* The timer of the goroutine, in its select with the shutdown channel.
Timer ==
    /\ update.at = "select"
    /\ update' = [update EXCEPT !.at = "fetch"]
    /\ UNCHANGED <<policies, files, service, owed>>

\* client.Policies fails, also when a shutdown interrupts it.
FetchFails ==
    /\ update.at = "fetch"
    /\ update' = [NoUpdate EXCEPT !.at = "select", !.started = TRUE]
    /\ UNCHANGED <<policies, files, service, owed>>

\* Diff compares hashes, which may differ for one and the same policy.
Differs(old, new) ==
    IF old # new THEN {TRUE} ELSE IF old \cap Unstable = {} THEN {FALSE} ELSE BOOLEAN

\* Mutant: files that exist are taken to have the content their name says.
FetchKeeps(set) ==
    /\ update.at = "fetch"
    /\ policies' = set
    /\ \E names \in Hashes(set), changed \in Differs(policies, set) :
         update' = [update EXCEPT !.at = "cache", !.write = names \ Existing,
                                  !.remove = Existing \ names, !.changed = changed]
    /\ owed' = owed \cap set
    /\ UNCHANGED <<files, service>>

\* client.Policies answers: the set is stored, and SetPolicies lists the
\* directory and computes what to write and to remove.
Fetch(set) ==
    /\ update.at = "fetch"
    /\ policies' = set
    /\ \E names \in Hashes(set), changed \in Differs(policies, set) :
         update' = [update EXCEPT !.at = "cache", !.write = names,
                                  !.remove = Existing \ names, !.changed = changed]
    /\ owed' = owed \cap set
    /\ UNCHANGED <<files, service>>

\* ioutil.WriteFile truncates the file ...
Truncate(n) ==
    /\ update.at = "cache" /\ n \in update.write /\ update.open = {}
    /\ files' = [files EXCEPT ![n] = "torn"]
    /\ update' = [update EXCEPT !.open = {n}]
    /\ UNCHANGED <<policies, service, owed>>

\* ... and writes it.
Write(n) ==
    /\ update.at = "cache" /\ update.open = {n}
    /\ files' = [files EXCEPT ![n] = "whole"]
    /\ update' = [update EXCEPT !.open = {}, !.write = @ \ {n}]
    /\ UNCHANGED <<policies, service, owed>>

\* Mutant: old files are removed first.
RemoveFirst(n) ==
    /\ update.at = "cache" /\ n \in update.remove
    /\ files' = [files EXCEPT ![n] = "none"]
    /\ update' = [update EXCEPT !.remove = @ \ {n}]
    /\ UNCHANGED <<policies, service, owed>>

\* When all are written, the old files are removed.
Remove(n) ==
    /\ update.at = "cache" /\ update.write = {} /\ n \in update.remove
    /\ files' = [files EXCEPT ![n] = "none"]
    /\ update' = [update EXCEPT !.remove = @ \ {n}]
    /\ UNCHANGED <<policies, service, owed>>

\* Update returns, with a change to tell of; the first time nobody is told.
Returned ==
    [NoUpdate EXCEPT !.at = IF update.started /\ update.changed THEN "push" ELSE "select",
                     !.started = TRUE]

CacheDone ==
    /\ update.at = "cache" /\ update.write = {} /\ update.remove = {}
    /\ owed' = policies
    /\ update' = Returned
    /\ UNCHANGED <<policies, files, service>>

\* Mutant: Update returns at once when the cache cannot be written.
CacheFailsQuiet ==
    /\ update.at = "cache" /\ update.write \cup update.remove # {}
    /\ update' = [NoUpdate EXCEPT !.at = "select", !.started = TRUE]
    /\ UNCHANGED <<policies, files, service, owed>>

\* A file cannot be written or removed; that is only logged.
CacheFails ==
    /\ update.at = "cache" /\ update.write \cup update.remove # {}
    /\ update' = Returned
    /\ UNCHANGED <<policies, files, service, owed>>

\* The session manager has been handed the policies.
Push ==
    /\ update.at = "push"
    /\ update' = [update EXCEPT !.at = "select"]
    /\ UNCHANGED <<policies, files, service, owed>>

-----------------------------------------------------------------------------
(* Service.Stop, and the end of Service.run. *)

StopService ==
    /\ service = "running"
    /\ service' = "stopping"
    /\ UNCHANGED <<policies, files, update, owed>>

\* The goroutine finds the shutdown channel closed.
UpdateEnds ==
    /\ update.at = "select" /\ service = "stopping"
    /\ update' = [NoUpdate EXCEPT !.at = "ended"]
    /\ UNCHANGED <<policies, files, service, owed>>

ServiceStopped ==
    /\ update.at = "ended"
    /\ service' = "stopped" /\ update' = NoUpdate
    /\ UNCHANGED <<policies, files, owed>>

\* The process ends at any time; what is on disk stays.
Crash ==
    /\ service # "stopped"
    /\ policies' = {} /\ service' = "stopped" /\ update' = NoUpdate
    /\ UNCHANGED <<files, owed>>

-----------------------------------------------------------------------------
UpdateStep ==
    \/ Load \/ Timer \/ FetchFails \/ CacheDone \/ CacheFails
    \/ \E set \in Served : Fetch(set)
    \/ \E n \in Names : Truncate(n) \/ Write(n) \/ Remove(n)

Next == UpdateStep \/ Push \/ Start \/ StopService \/ UpdateEnds \/ ServiceStopped \/ Crash

Spec == Init /\ [][Next]_vars

\* The goroutine runs, the session manager takes the policies it is handed, and a
\* select takes the shutdown channel when it comes up again and again.
FairSpec == Spec /\ WF_vars(UpdateStep \/ Push) /\ SF_vars(UpdateEnds)

-----------------------------------------------------------------------------
(* Properties *)

\* Every variable has its type, and a file is open only while it is torn and
\* still to be written.
TypeOK ==
    /\ policies \subseteq Policies /\ owed \subseteq Policies
    /\ files \in [Names -> {"none", "torn", "whole"}]
    /\ service \in {"running", "stopping", "stopped"}
    /\ update \in [at : {"off", "load", "fetch", "cache", "push", "select", "ended"},
                   started : BOOLEAN, write : SUBSET Names, remove : SUBSET Names,
                   open : SUBSET Names, changed : BOOLEAN]
    /\ update.open \subseteq update.write \cap Torn

\* Whatever crashes and failed writes have left in the directory, the next
\* SetPolicies that returns without an error leaves exactly the policies in it,
\* also when a policy's hash has come out differently (fsprov/provider.go:80-134).
CacheRestored == [][CacheDone => Torn = {} /\ Content(Whole) = policies]_vars

\* A policy that was in every set since the cache was complete is never missing
\* from what a Load returns: new files are written before old ones are removed,
\* and a load from a directory with a file cut off by a crash fails as a whole
\* (fsprov/provider.go:60-64, 116-131).
NoPolicyLost == Torn = {} => owed \subseteq Content(Whole)

\* Updates are what PolicyUpdates promises to the sessions.  In particular an
\* Update that cannot write the cache still reports the change
\* (policymanager_windows.go:106-116).
Phase ==
    CASE update.at \in {"load", "fetch", "cache"} /\ ~update.started -> "starting"
      [] update.at = "cache" /\ update.started /\ update.changed    -> "changed"
      [] update.at \in {"off", "push", "ended"}                     -> update.at
      [] OTHER                                                      -> "updating"

Abstract == INSTANCE PolicyUpdates WITH
    PolicySets <- SUBSET Policies, NoPolicies <- {}, updater <- Phase

PromisedUpdates == Abstract!PromisedUpdates
=============================================================================
