------------------------------ MODULE Enforcer ------------------------------
(***************************************************************************)
(* The policy enforcement service of a Windows machine: the enforcement    *)
(* goroutine of enforcer.Service, the ProcessManager it drives and the     *)
(* goroutine (manage) of every Invocation.                                 *)
(*                                                                         *)
(* External: the operating system's processes, which start, exit and reuse *)
(* process IDs; the policies in force, which the policy manager replaces;  *)
(* and each invocation's lease maintainer with the guardian behind it,     *)
(* reduced to what LeaseMaintainer shows its owner: states through a       *)
(* channel of capacity one, and a Release that ends with the channel       *)
(* closed.                                                                 *)
(***************************************************************************)
EXTENDS Naturals, FiniteSets, Policy

CONSTANTS
    Processes,   \* unique process IDs
    Pid,         \* the process ID of each, which others may reuse
    Props,       \* the lease properties of each
    Blocklist,   \* those that are protected or have a name on the blocklist
    PolicySets,  \* the policy sets that may be in force
    Passive,     \* don't kill processes
    Invocations, \* identities of Invocation objects
    None         \* nil

ASSUME EnforcerConstants ==
    /\ Blocklist \subseteq Processes /\ Passive \in BOOLEAN
    /\ DOMAIN Props = Processes /\ DOMAIN Pid = Processes
    /\ None \notin Invocations

VARIABLES
    proc,         \* what has become of each process
    policies,     \* the policy set in force
    service,      \* whether the service is running, stopping or stopped
    enforce,      \* where the enforcement goroutine is
    scan,         \* the processes found by the scan, and those it adds
    todo,         \* managed processes to give up in this pass
    stopping,     \* the invocation whose Stop is waiting for its goroutine
    managed,      \* m.managed
    unmanageable, \* m.unmanageable
    invocations,  \* m.invocations, by process: instance IDs are hashes of it
    inv,          \* the Invocation objects with their goroutines
    leased,       \* processes for whose instance the guardian has a lease
    exempt        \* managed processes that the guardian required no lease for

vars == <<proc, policies, service, enforce, scan, todo, stopping, managed,
          unmanageable, invocations, inv, leased, exempt>>

manager == <<managed, unmanageable, invocations, exempt>>
pass    == <<enforce, scan, todo, stopping>>
outside == <<proc, policies, leased>>

\* What a lease.State tells an invocation: that its lease is active; that it has
\* no license, because the lease is queued or expired or the guardian could not
\* be asked for one; or that none is required.
Kinds == {"active", "denied", "notRequired"}

NoInvocation == [proc |-> None, at |-> "free", cancelled |-> FALSE, termPending |-> FALSE,
                 buf |-> None]

\* What is left of an invocation when maintain has returned.
Ending(i, at) == [NoInvocation EXCEPT !.proc = inv[i].proc, !.at = at]

Live(i) == inv[i].at \in {"managing", "draining"}

Init ==
    /\ proc = [p \in Processes |-> "unborn"]
    /\ policies \in PolicySets
    /\ service = "running"
    /\ enforce = "select"
    /\ scan = [found |-> {}, pending |-> {}]
    /\ todo = {} /\ stopping = None
    /\ managed = {}
    /\ unmanageable = {}
    /\ invocations = [p \in Processes |-> None]
    /\ inv = [i \in Invocations |-> NoInvocation]
    /\ leased = {} /\ exempt = {}

-----------------------------------------------------------------------------
(* The operating system and the policy manager. *)

\* A process ID may be used again when its process is gone.
StartProcess(p) ==
    /\ proc[p] = "unborn"
    /\ \A q \in Processes : Pid[q] = Pid[p] => proc[q] # "running"
    /\ proc' = [proc EXCEPT ![p] = "running"]
    /\ UNCHANGED <<policies, service, pass, manager, inv, leased>>

ExitProcess(p) ==
    /\ proc[p] = "running"
    /\ proc' = [proc EXCEPT ![p] = "exited"]
    /\ UNCHANGED <<policies, service, pass, manager, inv, leased>>

\* PolicyManager.Update stores the policies it received.
ChangePolicies(set) ==
    /\ policies' = set
    /\ UNCHANGED <<proc, service, pass, manager, inv, leased>>

-----------------------------------------------------------------------------
(* ProcessManager.Enforce, which runs with m.mutex held after its scan. *)

Running == {p \in Processes : proc[p] = "running"}

\* Mutant: an entry without an invocation is stopped like the others.
ScanNil ==
    /\ enforce = "select"
    /\ LET found == Running \cap Scanned(policies, Props)
       IN  /\ scan' = [found |-> found,
                       pending |-> {p \in found \ (managed \cup Blocklist) :
                                        Match(policies, Props[p]) # {}}]
           /\ todo' = managed \ (found \ Blocklist)
    /\ enforce' = "stop"
    /\ UNCHANGED <<outside, service, stopping, manager, inv>>

\* Mutant: invocations of processes that are gone are left to themselves.
ScanLeavesDead ==
    /\ enforce = "select"
    /\ LET found == Running \cap Scanned(policies, Props)
       IN  /\ scan' = [found |-> found,
                       pending |-> {p \in found \ (managed \cup Blocklist) :
                                        Match(policies, Props[p]) # {}}]
           /\ todo' = {p \in managed \cap found \cap Blocklist : invocations[p] # None}
    /\ enforce' = "stop"
    /\ UNCHANGED <<outside, service, stopping, manager, inv>>

\* Scan, and the pass over what it found: blocklisted processes are given up,
\* those not yet managed that match a policy are pending.  Managed processes
\* that were not found are given up too.  Their invocations are stopped first.
Scan ==
    /\ enforce = "select"
    /\ LET found == Running \cap Scanned(policies, Props)
       IN  /\ scan' = [found |-> found,
                       pending |-> {p \in found \ (managed \cup Blocklist) :
                                        Match(policies, Props[p]) # {}}]
           /\ todo' = {p \in managed \ (found \ Blocklist) : invocations[p] # None}
    /\ enforce' = "stop"
    /\ UNCHANGED <<outside, service, stopping, manager, inv>>

\* The processes of the machine cannot be listed: Enforce returns at once.
ScanFails ==
    /\ enforce = "select"
    /\ UNCHANGED vars

\* Invocation.Stop cancels the context ...
Stop(p) ==
    /\ enforce \in {"stop", "shutdown"} /\ stopping = None
    /\ p \in todo
    /\ inv' = [inv EXCEPT ![invocations[p]].cancelled = (inv[invocations[p]].at = "managing")]
    /\ stopping' = invocations[p]
    /\ UNCHANGED <<outside, service, enforce, scan, todo, manager>>

\* Mutant: Stop does not wait for the goroutine.
StoppedEarly ==
    /\ stopping # None
    /\ LET p == inv[stopping].proc
       IN  /\ invocations' = [invocations EXCEPT ![p] = None]
           /\ todo' = todo \ {p}
    /\ stopping' = None
    /\ UNCHANGED <<outside, service, enforce, scan, managed, unmanageable, exempt, inv>>

\* ... and waits for manage to return; then the invocation is deleted.
Stopped ==
    /\ stopping # None /\ inv[stopping].at = "done"
    /\ LET p == inv[stopping].proc
       IN  /\ invocations' = [invocations EXCEPT ![p] = None]
           /\ todo' = todo \ {p}
    /\ inv' = [inv EXCEPT ![stopping] = NoInvocation]
    /\ stopping' = None
    /\ UNCHANGED <<outside, service, enforce, scan, managed, unmanageable, exempt>>

\* Mutant: processes that are given up stay in managed.
BookkeepingKeeps ==
    /\ enforce = "stop" /\ todo = {} /\ stopping = None
    /\ unmanageable' = unmanageable \cap scan.found
    /\ LET done == {p \in Processes : invocations[p] # None /\ inv[invocations[p]].at = "done"}
       IN  /\ inv' = [i \in Invocations |->
                         IF \E p \in done : invocations[p] = i THEN NoInvocation ELSE inv[i]]
           /\ invocations' = [p \in Processes |-> IF p \in done THEN None ELSE invocations[p]]
    /\ exempt' = exempt \cap scan.found
    /\ scan' = [scan EXCEPT !.found = {}]
    /\ enforce' = IF scan.pending = {} THEN "select" ELSE "begin"
    /\ UNCHANGED <<outside, service, todo, stopping, managed>>

\* The rest of the bookkeeping: processes that are given up are not managed any
\* more, failures of processes that were not found are forgotten, invocations
\* that are done are deleted.  The processes of the latter stay in managed.
Bookkeeping ==
    /\ enforce = "stop" /\ todo = {} /\ stopping = None
    /\ unmanageable' = unmanageable \cap scan.found
    /\ LET done == {p \in Processes : invocations[p] # None /\ inv[invocations[p]].at = "done"}
       IN  /\ inv' = [i \in Invocations |->
                         IF \E p \in done : invocations[p] = i THEN NoInvocation ELSE inv[i]]
           /\ invocations' = [p \in Processes |-> IF p \in done THEN None ELSE invocations[p]]
    /\ managed' = managed \cap (scan.found \ Blocklist)
    /\ exempt' = exempt \cap managed'
    /\ scan' = [scan EXCEPT !.found = {}]
    /\ enforce' = IF scan.pending = {} THEN "select" ELSE "begin"
    /\ UNCHANGED <<outside, service, todo, stopping>>

\* Enforce is through with a pending process, and returns after the last.
Through(p) ==
    /\ enforce = "begin" /\ p \in scan.pending
    /\ scan' = [scan EXCEPT !.pending = @ \ {p}]
    /\ enforce' = IF scan.pending = {p} THEN "select" ELSE "begin"

\* A pending process that could not be opened in the last minute is skipped.  A
\* record of a failed attempt may be older than that.
Backoff(p) ==
    /\ Through(p)
    /\ p \in unmanageable
    /\ UNCHANGED <<outside, service, todo, stopping, manager, inv>>

\* NewProcess fails: the process is gone, its ID reused, or access is denied.
NewProcessFails(p) ==
    /\ Through(p)
    /\ unmanageable' = unmanageable \cup {p}
    /\ UNCHANGED <<outside, service, todo, stopping, managed, invocations,
                   inv, exempt>>

\* A new object: one that is neither referred to nor running.
Fresh(i) == ~Live(i) /\ \A p \in Processes : invocations[p] # i

\* NewProcess finds the process under its ID, and an invocation is created,
\* whose goroutine starts a lease maintainer.
NewInvocation(p) ==
    /\ Through(p)
    /\ proc[p] = "running"
    /\ \E i \in Invocations : Fresh(i)
    /\ LET i == CHOOSE i \in Invocations : Fresh(i)
       IN  /\ inv' = [inv EXCEPT ![i] = [NoInvocation EXCEPT !.proc = p, !.at = "managing"]]
           /\ invocations' = [invocations EXCEPT ![p] = i]
    /\ managed' = managed \cup {p}
    /\ unmanageable' = unmanageable \ {p}
    /\ UNCHANGED <<outside, service, todo, stopping, exempt>>

-----------------------------------------------------------------------------
(* Service.Stop and Start, for a stop or a pause of the Windows service. *)

StopService ==
    /\ service = "running"
    /\ service' = "stopping"
    /\ UNCHANGED <<outside, pass, manager, inv>>

\* The enforcement goroutine finds the channel closed; ProcessManager.Stop.
Shutdown ==
    /\ enforce = "select" /\ service = "stopping"
    /\ enforce' = "shutdown"
    /\ todo' = {p \in Processes : invocations[p] # None}
    /\ UNCHANGED <<outside, service, scan, stopping, manager, inv>>

ServiceStopped ==
    /\ enforce = "shutdown" /\ todo = {} /\ stopping = None
    /\ enforce' = "ended"
    /\ managed' = {} /\ exempt' = {}
    /\ service' = "stopped"
    /\ UNCHANGED <<outside, scan, todo, stopping, unmanageable, invocations, inv>>

StartService ==
    /\ service = "stopped"
    /\ service' = "running"
    /\ enforce' = "select"
    /\ UNCHANGED <<outside, scan, todo, stopping, manager, inv>>

-----------------------------------------------------------------------------
(* Invocation.manage. *)

\* The lease maintainer acquires, or fails to, and sends its state, if the
\* channel has room.  An answer with a lease means that the guardian has one.
Publish(i, kind) ==
    /\ inv[i].at = "managing" /\ inv[i].buf = None
    /\ inv' = [inv EXCEPT ![i].buf = kind]
    /\ \/ kind # "notRequired" /\ leased' = leased \cup {inv[i].proc}
       \/ kind # "active" /\ UNCHANGED leased
    /\ UNCHANGED <<proc, policies, service, pass, manager>>

\* maintain receives a state: with an active lease the process goes on, without
\* need of one management ends.
Receive(i) ==
    /\ inv[i].at = "managing" /\ inv[i].buf \in {"active", "notRequired"}
    /\ IF inv[i].buf = "active"
       THEN /\ inv' = [inv EXCEPT ![i].buf = None]
            /\ UNCHANGED exempt
       ELSE /\ inv' = [inv EXCEPT ![i] = Ending(i, "draining")]
            /\ exempt' = exempt \cup {inv[i].proc}
    /\ UNCHANGED <<outside, service, pass, managed, unmanageable, invocations>>

\* The process to which opening the ID leads.
Opened(p) == {q \in Running : Pid[q] = Pid[p]}

Denial(i) == inv[i].at = "managing" /\ inv[i].buf = "denied"

\* Without a license the process is terminated, unless a termination command
\* was sent before.
ReceiveAgain(i) ==
    /\ Denial(i) /\ inv[i].termPending
    /\ inv' = [inv EXCEPT ![i].buf = None]
    /\ UNCHANGED <<outside, service, pass, manager>>

\* Mutant: the handle is not checked to be that of the process.
TerminateAny(i) ==
    /\ Denial(i) /\ ~inv[i].termPending /\ ~Passive
    /\ Opened(inv[i].proc) # {}
    /\ proc' = [p \in Processes |-> IF p \in Opened(inv[i].proc) THEN "killed" ELSE proc[p]]
    /\ inv' = [inv EXCEPT ![i].buf = None, ![i].termPending = TRUE]
    /\ UNCHANGED <<policies, leased, service, pass, manager>>

\* Process.Terminate: the handle is that of the process, and has the right.
Terminate(i) ==
    /\ Denial(i) /\ ~inv[i].termPending /\ ~Passive
    /\ inv[i].proc \in Opened(inv[i].proc)
    /\ proc' = [proc EXCEPT ![inv[i].proc] = "killed"]
    /\ inv' = [inv EXCEPT ![i].buf = None, ![i].termPending = TRUE]
    /\ UNCHANGED <<policies, leased, service, pass, manager>>

\* The process is gone or cannot be opened: that counts as terminated.
TerminateMissed(i) ==
    /\ Denial(i) /\ ~inv[i].termPending
    /\ inv' = [inv EXCEPT ![i].buf = None, ![i].termPending = TRUE]
    /\ UNCHANGED <<outside, service, pass, manager>>

\* The handle lacks the right to terminate: the next state tries again.
TerminateFails(i) ==
    /\ Denial(i) /\ ~inv[i].termPending
    /\ inv[i].proc \in Opened(inv[i].proc)
    /\ inv' = [inv EXCEPT ![i].buf = None]
    /\ UNCHANGED <<outside, service, pass, manager>>

\* Mutant: the cancellation is looked at only while the process runs.
CancelledRunning(i) ==
    /\ inv[i].at = "managing" /\ inv[i].cancelled /\ proc[inv[i].proc] = "running"
    /\ inv' = [inv EXCEPT ![i] = Ending(i, "draining")]
    /\ UNCHANGED <<outside, service, pass, manager>>

\* maintain finds its context cancelled.
Cancelled(i) ==
    /\ inv[i].at = "managing" /\ inv[i].cancelled
    /\ inv' = [inv EXCEPT ![i] = Ending(i, "draining")]
    /\ UNCHANGED <<outside, service, pass, manager>>

\* manage drains the channel until Release and Close have returned.  Release may
\* fail, and an acquisition that it interrupted may be carried out later.
Released(i) ==
    /\ inv[i].at = "draining"
    /\ inv' = [inv EXCEPT ![i] = Ending(i, "done")]
    /\ leased' \in {leased, leased \ {inv[i].proc}, leased \cup {inv[i].proc}}
    /\ UNCHANGED <<proc, policies, service, pass, manager>>

\* A lease that no maintainer renews expires.
Expire(p) ==
    /\ p \in leased
    /\ \A i \in Invocations : inv[i].proc = p => ~Live(i)
    /\ leased' = leased \ {p}
    /\ UNCHANGED <<proc, policies, service, pass, manager, inv>>

-----------------------------------------------------------------------------
Enforce(p) ==
    \/ Stop(p) \/ Backoff(p) \/ NewProcessFails(p) \/ NewInvocation(p)

EnforcementGoroutine ==
    \/ Scan \/ Stopped \/ Bookkeeping \/ ServiceStopped
    \/ \E p \in Processes : Enforce(p)

Maintain(i) ==
    \/ Receive(i) \/ ReceiveAgain(i) \/ Terminate(i) \/ TerminateMissed(i)
    \/ TerminateFails(i) \/ Cancelled(i) \/ Released(i)

Next ==
    \/ \E p \in Processes : StartProcess(p) \/ ExitProcess(p) \/ Expire(p)
    \/ \E set \in PolicySets : ChangePolicies(set)
    \/ EnforcementGoroutine \/ ScanFails \/ StopService \/ Shutdown \/ StartService
    \/ \E i \in Invocations : Maintain(i) \/ \E kind \in Kinds : Publish(i, kind)

Spec == Init /\ [][Next]_vars

(* The enforcement goroutine and its ticker run, and its select takes the   *)
(* shutdown channel when it comes up again and again; so do the invocations *)
(* and their maintainers, which repeat their requests; an invocation takes  *)
(* notice of its cancellation, its Release ends with its timeout; leases    *)
(* expire; the processes of the machine can be listed, if not at every      *)
(* tick; and a process that the service tries to open again and again is    *)
(* opened at last.                                                          *)
Fairness ==
    /\ WF_vars(EnforcementGoroutine) /\ SF_vars(Shutdown)
    /\ \A i \in Invocations :
         /\ WF_vars(Maintain(i)) /\ WF_vars(\E kind \in Kinds : Publish(i, kind))
         /\ SF_vars(Cancelled(i))
    /\ \A p \in Processes \ Blocklist :
         WF_vars(Expire(p)) /\ SF_vars(NewInvocation(p))

FairSpec == Spec /\ Fairness

-----------------------------------------------------------------------------
(* Properties *)

\* Every variable has its type, and Stop is called on invocations only: a nil one
\* would panic (processmanager_windows.go:103).
TypeOK ==
    /\ proc \in [Processes -> {"unborn", "running", "exited", "killed"}]
    /\ policies \in PolicySets
    /\ service \in {"running", "stopping", "stopped"}
    /\ enforce \in {"select", "stop", "begin", "shutdown", "ended"}
    /\ scan \in [found : SUBSET Processes, pending : SUBSET Processes]
    /\ todo \subseteq {p \in Processes : invocations[p] # None} /\ stopping \in Invocations \cup {None}
    /\ managed \subseteq Processes
    /\ unmanageable \subseteq Processes /\ exempt \subseteq Processes
    /\ invocations \in [Processes -> Invocations \cup {None}]
    /\ inv \in [Invocations ->
          [proc : Processes \cup {None}, at : {"free", "managing", "draining", "done"},
           cancelled : BOOLEAN, termPending : BOOLEAN,
           buf : Kinds \cup {None}]]
    /\ leased \subseteq Processes

\* No invocation is lost while its goroutine and its lease maintainer run: it is
\* the one the process manager has for that process, so that Enforce and Stop
\* can stop it, and one process never has two maintainers, of which the first
\* to stop would release the other's lease (processmanager_windows.go:101-136).
\* So nothing runs on when the service has stopped, which manages nothing then.
NoInvocationLost ==
    \A i \in Invocations : Live(i) =>
        /\ invocations[inv[i].proc] = i /\ inv[i].proc \in managed
        /\ service # "stopped"

\* A process is killed only when its own invocation was told that it has no
\* license: never a blocklisted one ("must not be managed",
\* blocklist_windows.go:52), never one that took over the ID of a process that
\* is gone (process_windows.go:105), and none in passive mode.
KilledForCause ==
    [][\A p \in Processes : proc[p] # "killed" /\ proc'[p] = "killed" =>
          /\ p \notin Blocklist /\ ~Passive
          /\ \E i \in Invocations : inv[i].proc = p /\ Denial(i)]_vars

\* A scan finds every running process that a policy in force applies to
\* ("Scan returns the set of running processes for which one or more policies
\* might be applicable", scan_windows.go:11).
ScanMissesNothing ==
    [][enforce = "select" /\ enforce' = "stop" =>
          \A p \in Running : Match(policies, Props[p]) # {} => p \in scan'.found]_vars

\* A process that is gone keeps no lease, also when the maintainer would have
\* renewed it for ever (processmanager_windows.go:100-114).
LeaseEnds == \A p \in Processes \ Blocklist : proc[p] \in {"exited", "killed"} ~> p \notin leased

\* Service.Stop returns, although it waits for an Enforce that waits for the
\* invocations it stops (service_windows.go:75-88).
StopReturns == service = "stopping" ~> service = "stopped"

\* Every running process that the scan lists and a policy matches is watched over
\* by an invocation sooner or later, however often it could not be opened before,
\* unless the guardian said that it needs no lease while it was managed
\* (processmanager_windows.go:92-98, 154-202).
Eligible(p) ==
    /\ proc[p] = "running" /\ service = "running"
    /\ p \in Scanned(policies, Props) /\ Match(policies, Props[p]) # {}

EveryMatchWatched ==
    \A p \in Processes \ Blocklist :
        <>[]Eligible(p) => []<>(\/ \E i \in Invocations : Live(i) /\ inv[i].proc = p
                               \/ p \in exempt)
=============================================================================
