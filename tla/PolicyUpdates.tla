---------------------------- MODULE PolicyUpdates ----------------------------
(***************************************************************************)
(* What the goroutine that updates the enforcer's policies promises to the *)
(* other goroutines of Service.run: the policies are what was loaded or    *)
(* received last; whenever an update after the first one changed them, the *)
(* session manager is handed them before the next update; and the          *)
(* goroutine ends when the service stops.  PolicyManager implements it.    *)
(***************************************************************************)
CONSTANTS
    PolicySets, \* the sets of policies there may be
    NoPolicies  \* the empty set

ASSUME NoPoliciesAssumption == NoPolicies \in PolicySets

VARIABLES
    policies, \* m.policies
    service,  \* whether the service is stopped, running or stopping
    updater   \* where the goroutine is

updateVars == <<policies, service, updater>>

InitUpdates == policies = NoPolicies /\ service = "stopped" /\ updater = "off"

\* Service.Start
StartService ==
    /\ service = "stopped"
    /\ service' = "running" /\ updater' = "starting"
    /\ UNCHANGED policies

\* Load and the first Update replace the policies, ...
FirstPolicies(set) ==
    /\ updater = "starting"
    /\ policies' = set
    /\ UNCHANGED <<service, updater>>

\* ... and then there are goroutines.
FirstUpdateReturns ==
    /\ updater = "starting"
    /\ updater' = "updating"
    /\ UNCHANGED <<policies, service>>

\* A later Update replaces the policies.  The sessions are to be told if that
\* changed them; it may see a change where there is none.
ReplacePolicies(set) ==
    /\ updater = "updating"
    /\ policies' = set
    /\ updater' \in IF set = policies THEN {"updating", "changed"} ELSE {"changed"}
    /\ UNCHANGED service

\* It returns, with a change to tell of.
UpdateReturns ==
    /\ updater = "changed"
    /\ updater' = "push"
    /\ UNCHANGED <<policies, service>>

\* sessions.UpdatePolicies has returned.
PushPolicies ==
    /\ updater = "push"
    /\ updater' = "updating"
    /\ UNCHANGED <<policies, service>>

\* Service.Stop
StopService ==
    /\ service = "running"
    /\ service' = "stopping"
    /\ UNCHANGED <<policies, updater>>

\* The goroutine finds the shutdown channel closed.
UpdaterEnds ==
    /\ updater = "updating" /\ service = "stopping"
    /\ updater' = "ended"
    /\ UNCHANGED <<policies, service>>

\* The rest of Service.run, which waits for all of its goroutines.
RunReturns ==
    /\ updater = "ended"
    /\ service' = "stopped" /\ updater' = "off"
    /\ UNCHANGED policies

\* The process ends at any time.
CrashService ==
    /\ service # "stopped"
    /\ policies' = NoPolicies /\ service' = "stopped" /\ updater' = "off"

Updates ==
    \/ FirstUpdateReturns \/ UpdateReturns
    \/ \E set \in PolicySets : FirstPolicies(set) \/ ReplacePolicies(set)

NextUpdates ==
    Updates \/ PushPolicies \/ StartService \/ StopService \/ UpdaterEnds
    \/ RunReturns \/ CrashService

\* When the service stops the goroutine ends, provided that the session manager
\* takes the policies it is handed.
UpdatesEnd == service = "stopping" ~> updater \in {"ended", "off"}

PromisedUpdates == InitUpdates /\ [][NextUpdates]_updateVars /\ UpdatesEnd
=============================================================================
