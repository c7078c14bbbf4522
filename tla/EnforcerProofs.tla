--------------------------- MODULE EnforcerProofs ---------------------------
(***************************************************************************)
(* Proofs about the enforcer's process manager, for any processes, process *)
(* IDs, policies and number of invocations: the types, that no invocation  *)
(* is lost while its goroutine runs, and that no process is killed but     *)
(* after its own invocation was denied a license.                          *)
(***************************************************************************)
EXTENDS Enforcer, TLAPS

\* Properties are those of processes.
LEMMA ScannedType == Running \cap Scanned(policies, Props) \subseteq Processes
BY DEF Running

\* What is kept for an invocation.
InvType == [proc : Processes \cup {None}, at : {"free", "managing", "draining", "done"},
            cancelled : BOOLEAN, termPending : BOOLEAN, buf : Kinds \cup {None}]

\* An invocation object that is not in use has its type.
LEMMA NoInvocationType == NoInvocation \in InvType
BY DEF NoInvocation, InvType, Kinds

-----------------------------------------------------------------------------
(* The inductive invariant. *)

\* An object in use is the invocation of its process, ...
Registered ==
    \A i \in Invocations : inv[i].at # "free" =>
        inv[i].proc \in Processes /\ invocations[inv[i].proc] = i

\* ... and what invocations refers to is in use, for a process that is managed.
InUse ==
    \A p \in Processes : invocations[p] # None =>
        inv[invocations[p]].proc = p /\ inv[invocations[p]].at # "free" /\ p \in managed

\* Blocklisted processes are never managed, nor about to be.
NotBlocked == \A p \in Blocklist : p \notin managed /\ p \notin scan.pending

\* What is about to be managed is not managed yet.
PendingNew == enforce \in {"stop", "begin"} => scan.pending \cap managed = {}

\* Enforce stops every invocation of a process that it is about to give up, and
\* Stop every one there is.
StopList ==
    /\ enforce = "stop" =>
         \A p \in Processes : p \in managed /\ p \notin scan.found \ Blocklist
                                /\ invocations[p] # None => p \in todo
    /\ enforce = "shutdown" => \A p \in Processes : invocations[p] # None => p \in todo
    /\ enforce \notin {"stop", "shutdown"} => todo = {} /\ stopping = None

\* The invocation that is waited for is in use and on the list.
WaitedFor == stopping # None => inv[stopping].at # "free" /\ inv[stopping].proc \in todo

\* When the service has stopped there are no invocations.
Ended ==
    /\ service = "stopped" <=> enforce = "ended"
    /\ enforce = "ended" => \A p \in Processes : invocations[p] = None
    /\ enforce = "shutdown" => service = "stopping"

IInv ==
    /\ TypeOK /\ Registered /\ InUse /\ NotBlocked /\ PendingNew /\ StopList
    /\ WaitedFor /\ Ended

\* The service starts without invocations.
LEMMA InvariantInit == Init => IInv
<1> SUFFICES ASSUME Init PROVE IInv
  OBVIOUS
<1>1. TypeOK
  BY NoInvocationType DEF Init, TypeOK, InvType
<1>2. Registered /\ InUse
  BY DEF Init, Registered, InUse, NoInvocation
<1>3. NotBlocked /\ PendingNew /\ StopList /\ WaitedFor /\ Ended
  BY DEF Init, NotBlocked, PendingNew, StopList, WaitedFor, Ended
<1> QED
  BY <1>1, <1>2, <1>3 DEF IInv

\* A step of a goroutine other than the enforcement goroutine: it may change an
\* object, but neither whose it is nor whether it is in use.
LEMMA OtherStep ==
    ASSUME IInv, TypeOK', enforce' = enforce, scan' = scan, todo' = todo,
           stopping' = stopping, managed' = managed, invocations' = invocations,
           service' = service,
           \A i \in Invocations : inv'[i].proc = inv[i].proc
                                    /\ (inv'[i].at = "free" <=> inv[i].at = "free")
    PROVE  IInv'
<1>1. Registered'
  BY DEF IInv, Registered
<1>2. InUse'
  BY DEF IInv, InUse, TypeOK
<1>3. NotBlocked' /\ PendingNew' /\ StopList' /\ Ended'
  BY DEF IInv, NotBlocked, PendingNew, StopList, Ended
<1>4. WaitedFor'
  BY DEF IInv, WaitedFor, TypeOK
<1> QED
  BY <1>1, <1>2, <1>3, <1>4 DEF IInv

\* Processes, policies and leases.
LEMMA OutsideStep ==
    ASSUME IInv,
           \/ \E p \in Processes : StartProcess(p) \/ ExitProcess(p) \/ Expire(p)
           \/ \E set \in PolicySets : ChangePolicies(set)
    PROVE  IInv'
<1>1. /\ enforce' = enforce /\ scan' = scan /\ todo' = todo /\ stopping' = stopping
      /\ managed' = managed /\ invocations' = invocations /\ service' = service
      /\ inv' = inv /\ unmanageable' = unmanageable /\ exempt' = exempt
  BY DEF StartProcess, ExitProcess, Expire, ChangePolicies, pass, manager
<1>2. proc' \in [Processes -> {"unborn", "running", "exited", "killed"}]
  BY DEF IInv, TypeOK, StartProcess, ExitProcess, Expire, ChangePolicies
<1>3. policies' \in PolicySets
  BY DEF IInv, TypeOK, StartProcess, ExitProcess, Expire, ChangePolicies
<1>4. leased' \subseteq Processes
  BY DEF IInv, TypeOK, StartProcess, ExitProcess, Expire, ChangePolicies
<1>5. TypeOK'
  BY <1>1, <1>2, <1>3, <1>4 DEF IInv, TypeOK
<1> QED
  BY <1>1, <1>5, OtherStep

\* An object changes, and nothing that the enforcement goroutine has.
LEMMA ObjectStep ==
    ASSUME IInv, NEW i \in Invocations, NEW r \in InvType,
           r.proc = inv[i].proc, r.at = "free" <=> inv[i].at = "free",
           inv' = [inv EXCEPT ![i] = r],
           enforce' = enforce, scan' = scan, todo' = todo, stopping' = stopping,
           managed' = managed, invocations' = invocations, service' = service,
           unmanageable' = unmanageable, exempt' \subseteq Processes,
           leased' \subseteq Processes, policies' = policies,
           proc' \in [Processes -> {"unborn", "running", "exited", "killed"}]
    PROVE  IInv'
<1>1. TypeOK'
  BY DEF IInv, TypeOK, InvType
<1>2. \A j \in Invocations : inv'[j].proc = inv[j].proc
                               /\ (inv'[j].at = "free" <=> inv[j].at = "free")
  BY DEF IInv, TypeOK
<1> QED
  BY <1>1, <1>2, OtherStep

\* The lease maintainer hands a lease state to the channel of its invocation.
LEMMA PublishStep ==
    ASSUME IInv, NEW i \in Invocations, NEW kind \in Kinds, Publish(i, kind)
    PROVE  IInv'
<1> DEFINE r == [inv[i] EXCEPT !.buf = kind]
<1>1. inv' = [inv EXCEPT ![i] = r]
  BY DEF Publish
<1>2. r \in InvType /\ r.proc = inv[i].proc /\ r.at = inv[i].at
  BY DEF IInv, TypeOK, InvType
<1>3. inv[i].proc \in Processes
  BY DEF IInv, Registered, Publish
<1>4. leased' \subseteq Processes
  BY <1>3 DEF IInv, TypeOK, Publish
<1> QED
  BY <1>1, <1>2, <1>4, ObjectStep DEF Publish, pass, manager, IInv, TypeOK

\* An invocation takes the lease state that waits in its channel.
LEMMA ReceiveStep ==
    ASSUME IInv, NEW i \in Invocations, Receive(i)
    PROVE  IInv'
<1>1. inv[i].proc \in Processes /\ inv[i].at = "managing"
  BY DEF IInv, Registered, Receive
<1>2. exempt' \subseteq Processes
  BY <1>1 DEF IInv, TypeOK, Receive
<1>3. PICK r \in InvType : r.proc = inv[i].proc /\ r.at # "free" /\ inv' = [inv EXCEPT ![i] = r]
  <2>1. CASE inv[i].buf = "active"
    <3> DEFINE r == [inv[i] EXCEPT !.buf = None]
    <3>1. inv' = [inv EXCEPT ![i] = r]
      BY <2>1 DEF Receive
    <3>2. r \in InvType /\ r.proc = inv[i].proc /\ r.at = inv[i].at
      BY DEF IInv, TypeOK, InvType
    <3> QED
      BY <1>1, <3>1, <3>2
  <2>2. CASE inv[i].buf # "active"
    <3>1. inv' = [inv EXCEPT ![i] = Ending(i, "draining")]
      BY <2>2 DEF Receive
    <3>2. Ending(i, "draining") \in InvType /\ Ending(i, "draining").proc = inv[i].proc
          /\ Ending(i, "draining").at # "free"
      BY <1>1 DEF Ending, NoInvocation, InvType
    <3> QED
      BY <3>1, <3>2
  <2> QED
    BY <2>1, <2>2
<1> QED
  BY <1>1, <1>2, <1>3, ObjectStep DEF Receive, outside, pass, manager, IInv, TypeOK

\* An invocation that is denied warns, and ends its process or fails to.
LEMMA DenialStep ==
    ASSUME IInv, NEW i \in Invocations,
           ReceiveAgain(i) \/ Terminate(i) \/ TerminateMissed(i) \/ TerminateFails(i)
    PROVE  IInv'
<1> DEFINE r == [inv[i] EXCEPT !.buf = None]
           t == [inv[i] EXCEPT !.buf = None, !.termPending = TRUE]
<1>1. inv' = [inv EXCEPT ![i] = r] \/ inv' = [inv EXCEPT ![i] = t]
  BY DEF ReceiveAgain, Terminate, TerminateMissed, TerminateFails
<1>2. r \in InvType /\ r.proc = inv[i].proc /\ r.at = inv[i].at
  BY DEF IInv, TypeOK, InvType
<1>3. t \in InvType /\ t.proc = inv[i].proc /\ t.at = inv[i].at
  BY DEF IInv, TypeOK, InvType
<1>4. proc' \in [Processes -> {"unborn", "running", "exited", "killed"}]
  BY DEF IInv, TypeOK, ReceiveAgain, Terminate, TerminateMissed, TerminateFails, outside
<1>5. /\ enforce' = enforce /\ scan' = scan /\ todo' = todo /\ stopping' = stopping
      /\ managed' = managed /\ invocations' = invocations /\ service' = service
      /\ unmanageable' = unmanageable /\ exempt' = exempt /\ leased' = leased
      /\ policies' = policies
  BY DEF ReceiveAgain, Terminate, TerminateMissed, TerminateFails, outside, pass, manager
<1> HIDE DEF r, t
<1> QED
  BY <1>1, <1>2, <1>3, <1>4, <1>5, ObjectStep DEF IInv, TypeOK

\* The goroutine of an invocation ends, when it is stopped or its lease is released.
LEMMA EndingStep ==
    ASSUME IInv, NEW i \in Invocations, Cancelled(i) \/ Released(i)
    PROVE  IInv'
<1>1. inv[i].proc \in Processes /\ inv[i].at # "free"
  BY DEF IInv, Registered, Cancelled, Released
<1>2. PICK at \in {"draining", "done"} : inv' = [inv EXCEPT ![i] = Ending(i, at)]
  BY DEF Cancelled, Released
<1>3. Ending(i, at) \in InvType /\ Ending(i, at).proc = inv[i].proc /\ Ending(i, at).at # "free"
  BY <1>1 DEF Ending, NoInvocation, InvType
<1>4. leased' \subseteq Processes
  BY <1>1 DEF IInv, TypeOK, Cancelled, Released, outside
<1>5. /\ enforce' = enforce /\ scan' = scan /\ todo' = todo /\ stopping' = stopping
      /\ managed' = managed /\ invocations' = invocations /\ service' = service
      /\ unmanageable' = unmanageable /\ exempt' = exempt /\ proc' = proc
      /\ policies' = policies
  BY DEF Cancelled, Released, outside, pass, manager
<1> QED
  BY <1>1, <1>2, <1>3, <1>4, <1>5, ObjectStep DEF IInv, TypeOK

-----------------------------------------------------------------------------
(* The enforcement goroutine. *)

\* The scan lists what is to be stopped and what is to be begun.
LEMMA ScanStep == IInv /\ Scan => IInv'
<1> SUFFICES ASSUME IInv, Scan PROVE IInv'
  OBVIOUS
<1> DEFINE found == Running \cap Scanned(policies, Props)
           pending == {p \in found \ (managed \cup Blocklist) : Match(policies, Props[p]) # {}}
<1>1. /\ enforce = "select" /\ enforce' = "stop"
      /\ scan' = [found |-> found, pending |-> pending]
      /\ todo' = {p \in managed \ (found \ Blocklist) : invocations[p] # None}
      /\ stopping' = stopping /\ managed' = managed /\ invocations' = invocations
      /\ inv' = inv /\ service' = service /\ unmanageable' = unmanageable
      /\ exempt' = exempt /\ proc' = proc /\ policies' = policies /\ leased' = leased
  BY DEF Scan, outside, manager
<1>2. found \subseteq Processes /\ pending \subseteq found
      /\ pending \cap managed = {} /\ pending \cap Blocklist = {}
  BY ScannedType
<1> HIDE DEF found, pending
<1>3. scan'.found = found /\ scan'.pending = pending
  BY <1>1
<1>4. TypeOK'
  <2>1. scan' \in [found : SUBSET Processes, pending : SUBSET Processes]
    BY <1>1, <1>2
  <2>2. todo' \subseteq {p \in Processes : invocations'[p] # None}
    BY <1>1 DEF IInv, TypeOK
  <2> QED
    BY <1>1, <2>1, <2>2 DEF IInv, TypeOK
<1>5. Registered' /\ InUse'
  BY <1>1 DEF IInv, Registered, InUse
<1>6. NotBlocked' /\ PendingNew'
  BY <1>1, <1>2, <1>3 DEF IInv, NotBlocked, PendingNew
<1>7. StopList'
  BY <1>1, <1>3 DEF IInv, StopList
<1>8. WaitedFor' /\ Ended'
  BY <1>1 DEF IInv, StopList, WaitedFor, Ended
<1> QED
  BY <1>4, <1>5, <1>6, <1>7, <1>8 DEF IInv

\* Invocation.Stop begins to wait for an invocation in use.
LEMMA StopStep ==
    ASSUME IInv, NEW p \in Processes, Stop(p)
    PROVE  IInv'
<1> DEFINE i == invocations[p]
           r == [inv[i] EXCEPT !.cancelled = (inv[i].at = "managing")]
<1>1. /\ enforce \in {"stop", "shutdown"} /\ stopping = None /\ p \in todo
      /\ inv' = [inv EXCEPT ![i] = r] /\ stopping' = i /\ enforce' = enforce
      /\ scan' = scan /\ todo' = todo /\ managed' = managed /\ invocations' = invocations
      /\ service' = service /\ unmanageable' = unmanageable /\ exempt' = exempt
      /\ proc' = proc /\ policies' = policies /\ leased' = leased
  BY DEF Stop, outside, manager
<1>2. i \in Invocations
  BY <1>1 DEF IInv, TypeOK
<1>3. inv[i].proc = p /\ inv[i].at # "free"
  BY <1>1 DEF IInv, InUse, TypeOK
<1>4. r \in InvType /\ r.proc = inv[i].proc /\ r.at = inv[i].at
  BY <1>2 DEF IInv, TypeOK, InvType
<1> HIDE DEF r, i
<1>5. inv' \in [Invocations -> InvType]
  BY <1>1, <1>4 DEF IInv, TypeOK, InvType
<1>6. \A j \in Invocations : inv'[j].proc = inv[j].proc /\ inv'[j].at = inv[j].at
  BY <1>1, <1>2, <1>4 DEF IInv, TypeOK
<1>7. TypeOK'
  BY <1>1, <1>2, <1>5 DEF IInv, TypeOK, InvType
<1>8. Registered'
  BY <1>1, <1>6 DEF IInv, Registered
<1>9. InUse'
  BY <1>1, <1>6 DEF IInv, InUse, TypeOK
<1>10. NotBlocked' /\ PendingNew' /\ StopList' /\ Ended'
  BY <1>1 DEF IInv, NotBlocked, PendingNew, StopList, Ended
<1>11. WaitedFor'
  BY <1>1, <1>2, <1>3, <1>6 DEF WaitedFor
<1> QED
  BY <1>7, <1>8, <1>9, <1>10, <1>11 DEF IInv

\* It has returned, and the object is deleted.
LEMMA StoppedStep == IInv /\ Stopped => IInv'
<1> SUFFICES ASSUME IInv, Stopped PROVE IInv'
  OBVIOUS
<1> DEFINE p == inv[stopping].proc
<1>1. /\ stopping # None /\ invocations' = [invocations EXCEPT ![p] = None]
      /\ todo' = todo \ {p} /\ inv' = [inv EXCEPT ![stopping] = NoInvocation]
      /\ stopping' = None /\ enforce' = enforce /\ scan' = scan /\ managed' = managed
      /\ service' = service /\ unmanageable' = unmanageable /\ exempt' = exempt
      /\ proc' = proc /\ policies' = policies /\ leased' = leased
  BY DEF Stopped, outside
<1>2. stopping \in Invocations /\ p \in Processes /\ invocations[p] = stopping
  BY <1>1 DEF IInv, TypeOK, WaitedFor, Registered
<1>3. inv' \in [Invocations -> InvType]
  BY <1>1, NoInvocationType DEF IInv, TypeOK, InvType
<1>4. TypeOK'
  BY <1>1, <1>2, <1>3 DEF IInv, TypeOK, InvType
<1>5. Registered'
  <2> SUFFICES ASSUME NEW j \in Invocations, inv'[j].at # "free"
               PROVE  inv'[j].proc \in Processes /\ invocations'[inv'[j].proc] = j
    BY DEF Registered
  <2>1. j # stopping
    BY <1>1, <1>2 DEF IInv, TypeOK, NoInvocation
  <2>2. inv'[j] = inv[j] /\ inv[j].proc \in Processes /\ invocations[inv[j].proc] = j
    BY <1>1, <2>1 DEF IInv, TypeOK, Registered
  <2> QED
    BY <1>1, <1>2, <2>1, <2>2 DEF IInv, TypeOK
<1>6. InUse'
  <2> SUFFICES ASSUME NEW q \in Processes, invocations'[q] # None
               PROVE  /\ inv'[invocations'[q]].proc = q /\ inv'[invocations'[q]].at # "free"
                      /\ q \in managed'
    BY DEF InUse
  <2>1. q # p /\ invocations'[q] = invocations[q]
    BY <1>1, <1>2 DEF IInv, TypeOK
  <2>2. inv[invocations[q]].proc = q /\ inv[invocations[q]].at # "free" /\ q \in managed
        /\ invocations[q] \in Invocations
    BY <2>1 DEF IInv, TypeOK, InUse
  <2>3. invocations[q] # stopping
    BY <2>1, <2>2
  <2> QED
    BY <1>1, <2>1, <2>2, <2>3 DEF IInv, TypeOK
<1>7. StopList'
  BY <1>1, <1>2 DEF IInv, StopList, TypeOK
<1>8. NotBlocked' /\ PendingNew' /\ WaitedFor'
  BY <1>1 DEF IInv, NotBlocked, PendingNew, WaitedFor
<1>9. Ended'
  BY <1>1, <1>2 DEF IInv, Ended, TypeOK
<1> QED
  BY <1>4, <1>5, <1>6, <1>7, <1>8, <1>9 DEF IInv

\* The processes that are given up have no invocation any more.
LEMMA BookkeepingStep == IInv /\ Bookkeeping => IInv'
<1> SUFFICES ASSUME IInv, Bookkeeping PROVE IInv'
  OBVIOUS
<1> DEFINE done == {p \in Processes : invocations[p] # None /\ inv[invocations[p]].at = "done"}
<1>1. /\ enforce = "stop" /\ todo = {} /\ stopping = None
      /\ inv' = [i \in Invocations |->
                   IF \E p \in done : invocations[p] = i THEN NoInvocation ELSE inv[i]]
      /\ invocations' = [p \in Processes |-> IF p \in done THEN None ELSE invocations[p]]
      /\ managed' = managed \cap (scan.found \ Blocklist)
      /\ exempt' = exempt \cap managed' /\ unmanageable' = unmanageable \cap scan.found
      /\ enforce' \in {"select", "begin"} /\ todo' = todo /\ stopping' = stopping
      /\ service' = service /\ proc' = proc /\ policies' = policies /\ leased' = leased
  BY DEF Bookkeeping, outside
<1>2. /\ scan' \in [found : SUBSET Processes, pending : SUBSET Processes]
      /\ scan'.pending = scan.pending
  BY DEF Bookkeeping, IInv, TypeOK
<1>3. \A p \in Processes : invocations[p] # None => p \in managed'
  BY <1>1 DEF IInv, StopList, InUse
<1>4. \A p \in Processes : invocations'[p] # None =>
         invocations'[p] = invocations[p] /\ p \notin done
  BY <1>1
<1>5. inv' \in [Invocations -> InvType] /\ invocations' \in [Processes -> Invocations \cup {None}]
  BY <1>1, NoInvocationType DEF IInv, TypeOK, InvType
<1>6. TypeOK'
  BY <1>1, <1>2, <1>5 DEF IInv, TypeOK, InvType
<1>7. Registered'
  <2> SUFFICES ASSUME NEW j \in Invocations, inv'[j].at # "free"
               PROVE  inv'[j].proc \in Processes /\ invocations'[inv'[j].proc] = j
    BY DEF Registered
  <2>1. inv'[j] = inv[j] /\ ~\E p \in done : invocations[p] = j
    BY <1>1 DEF NoInvocation
  <2>2. inv[j].proc \in Processes /\ invocations[inv[j].proc] = j
    BY <2>1 DEF IInv, Registered
  <2> QED
    BY <1>1, <2>1, <2>2
<1>8. InUse'
  <2> SUFFICES ASSUME NEW q \in Processes, invocations'[q] # None
               PROVE  /\ inv'[invocations'[q]].proc = q /\ inv'[invocations'[q]].at # "free"
                      /\ q \in managed'
    BY DEF InUse
  <2>1. invocations'[q] = invocations[q] /\ q \notin done /\ invocations[q] \in Invocations
    BY <1>4 DEF IInv, TypeOK
  <2>2. inv[invocations[q]].proc = q /\ inv[invocations[q]].at # "free" /\ q \in managed'
    BY <1>3, <2>1 DEF IInv, InUse
  <2>3. ~\E p \in done : invocations[p] = invocations[q]
    <3> SUFFICES ASSUME NEW p \in done, invocations[p] = invocations[q] PROVE FALSE
      OBVIOUS
    <3>1. inv[invocations[p]].proc = p
      BY DEF IInv, InUse
    <3> QED
      BY <2>1, <2>2, <3>1
  <2> QED
    BY <1>1, <2>1, <2>2, <2>3
<1>9. NotBlocked' /\ PendingNew'
  BY <1>1, <1>2 DEF IInv, NotBlocked, PendingNew
<1>10. StopList' /\ WaitedFor'
  BY <1>1 DEF StopList, WaitedFor
<1>11. Ended'
  BY <1>1 DEF IInv, Ended
<1> QED
  BY <1>6, <1>7, <1>8, <1>9, <1>10, <1>11 DEF IInv

\* What Enforce has when it begins with pending processes.
LEMMA ThroughFacts ==
    ASSUME IInv, NEW p \in Processes, Through(p)
    PROVE  /\ enforce = "begin" /\ enforce' \in {"select", "begin"} /\ p \in scan.pending
           /\ scan' \in [found : SUBSET Processes, pending : SUBSET Processes]
           /\ scan'.pending = scan.pending \ {p}
           /\ p \notin managed /\ p \notin Blocklist /\ invocations[p] = None
<1>1. /\ enforce = "begin" /\ enforce' \in {"select", "begin"} /\ p \in scan.pending
      /\ scan' = [scan EXCEPT !.pending = @ \ {p}]
  BY DEF Through
<1>2. scan' \in [found : SUBSET Processes, pending : SUBSET Processes]
      /\ scan'.pending = scan.pending \ {p}
  BY <1>1 DEF IInv, TypeOK
<1>3. p \notin managed /\ p \notin Blocklist
  BY <1>1 DEF IInv, PendingNew, NotBlocked
<1>4. invocations[p] = None
  BY <1>3 DEF IInv, InUse
<1> QED
  BY <1>1, <1>2, <1>3, <1>4

\* A process is skipped.
LEMMA SkipStep ==
    ASSUME IInv, NEW p \in Processes, Backoff(p) \/ NewProcessFails(p)
    PROVE  IInv'
<1>1. Through(p)
  BY DEF Backoff, NewProcessFails
<1>2. /\ todo' = todo /\ stopping' = stopping /\ managed' = managed /\ inv' = inv
      /\ invocations' = invocations /\ service' = service /\ exempt' = exempt
      /\ proc' = proc /\ policies' = policies /\ leased' = leased
      /\ unmanageable' \subseteq Processes
  BY DEF Backoff, NewProcessFails, outside, manager, IInv, TypeOK
<1>3. TypeOK'
  BY <1>1, <1>2, ThroughFacts DEF IInv, TypeOK
<1>4. Registered' /\ InUse'
  BY <1>2 DEF IInv, Registered, InUse
<1>5. NotBlocked' /\ PendingNew'
  BY <1>1, <1>2, ThroughFacts DEF IInv, NotBlocked, PendingNew
<1>6. StopList' /\ WaitedFor' /\ Ended'
  BY <1>1, <1>2, ThroughFacts DEF IInv, StopList, WaitedFor, Ended
<1> QED
  BY <1>3, <1>4, <1>5, <1>6 DEF IInv

\* An invocation begins, with an object that nobody uses.
LEMMA NewInvocationStep ==
    ASSUME IInv, NEW p \in Processes, NewInvocation(p)
    PROVE  IInv'
<1> DEFINE n == [NoInvocation EXCEPT !.proc = p, !.at = "managing"]
<1>1. PICK i \in Invocations :
        /\ Fresh(i)
        /\ inv' = [inv EXCEPT ![i] = n] /\ invocations' = [invocations EXCEPT ![p] = i]
  BY DEF NewInvocation
<1>2. /\ Through(p) /\ managed' = managed \cup {p} /\ unmanageable' = unmanageable \ {p}
      /\ todo' = todo /\ stopping' = stopping /\ service' = service /\ exempt' = exempt
      /\ proc' = proc /\ policies' = policies /\ leased' = leased
  BY DEF NewInvocation, outside
<1>3. n \in InvType /\ n.proc = p /\ n.at = "managing"
  BY DEF NoInvocation, InvType
<1>4. \A q \in Processes : invocations[q] # i
  BY <1>1 DEF Fresh
<1>5. i # None
  BY EnforcerConstants
<1> HIDE DEF n
<1>6. todo = {} /\ stopping = None
  BY <1>2, ThroughFacts DEF IInv, StopList
<1>7. TypeOK'
  <2>1. inv' \in [Invocations -> InvType] /\ invocations' \in [Processes -> Invocations \cup {None}]
    BY <1>1, <1>3 DEF IInv, TypeOK, InvType
  <2> QED
    BY <1>2, <1>6, <2>1, ThroughFacts DEF IInv, TypeOK, InvType
<1>8. Registered'
  <2> SUFFICES ASSUME NEW j \in Invocations, inv'[j].at # "free"
               PROVE  inv'[j].proc \in Processes /\ invocations'[inv'[j].proc] = j
    BY DEF Registered
  <2>1. CASE j = i
    BY <1>1, <1>3, <2>1 DEF IInv, TypeOK
  <2>2. CASE j # i
    <3>1. inv'[j] = inv[j] /\ inv[j].proc \in Processes /\ invocations[inv[j].proc] = j
      BY <1>1, <2>2 DEF IInv, TypeOK, Registered
    <3>2. inv[j].proc # p
      BY <1>2, <3>1, ThroughFacts, EnforcerConstants
    <3> QED
      BY <1>1, <3>1, <3>2 DEF IInv, TypeOK
  <2> QED
    BY <2>1, <2>2
<1>9. InUse'
  <2> SUFFICES ASSUME NEW q \in Processes, invocations'[q] # None
               PROVE  /\ inv'[invocations'[q]].proc = q /\ inv'[invocations'[q]].at # "free"
                      /\ q \in managed'
    BY DEF InUse
  <2>1. CASE q = p
    BY <1>1, <1>2, <1>3, <2>1 DEF IInv, TypeOK
  <2>2. CASE q # p
    <3>1. invocations'[q] = invocations[q] /\ invocations[q] \in Invocations
      BY <1>1, <2>2 DEF IInv, TypeOK
    <3>2. inv'[invocations[q]] = inv[invocations[q]]
      BY <1>1, <1>4, <3>1 DEF IInv, TypeOK
    <3> QED
      BY <1>2, <3>1, <3>2 DEF IInv, InUse
  <2> QED
    BY <2>1, <2>2
<1>10. NotBlocked' /\ PendingNew'
  BY <1>2, ThroughFacts DEF IInv, NotBlocked, PendingNew
<1>11. StopList' /\ WaitedFor'
  BY <1>2, <1>6, ThroughFacts DEF StopList, WaitedFor
<1>12. Ended'
  BY <1>2, ThroughFacts DEF IInv, Ended
<1> QED
  BY <1>7, <1>8, <1>9, <1>10, <1>11, <1>12 DEF IInv

\* Service.Stop and Start.
LEMMA ServiceStep == IInv /\ (StopService \/ Shutdown \/ ServiceStopped \/ StartService) => IInv'
<1> SUFFICES ASSUME IInv, StopService \/ Shutdown \/ ServiceStopped \/ StartService PROVE IInv'
  OBVIOUS
<1>1. CASE StopService
  <2>1. TypeOK' /\ Registered' /\ InUse'
    BY <1>1 DEF StopService, outside, pass, manager, IInv, TypeOK, Registered, InUse
  <2>2. NotBlocked' /\ PendingNew' /\ StopList' /\ WaitedFor' /\ Ended'
    BY <1>1 DEF StopService, outside, pass, manager, IInv, NotBlocked, PendingNew, StopList,
       WaitedFor, Ended
  <2> QED
    BY <2>1, <2>2 DEF IInv
<1>2. CASE Shutdown
  <2>1. TypeOK' /\ Registered' /\ InUse'
    BY <1>2 DEF Shutdown, outside, pass, manager, IInv, TypeOK, Registered, InUse
  <2>2. NotBlocked' /\ PendingNew' /\ StopList' /\ WaitedFor' /\ Ended'
    BY <1>2 DEF Shutdown, outside, pass, manager, IInv, NotBlocked, PendingNew, StopList,
       WaitedFor, Ended
  <2> QED
    BY <2>1, <2>2 DEF IInv
<1>3. CASE ServiceStopped
  <2>1. \A p \in Processes : invocations[p] = None
    BY <1>3 DEF ServiceStopped, IInv, StopList
  <2>2. TypeOK' /\ Registered' /\ InUse'
    BY <1>3, <2>1 DEF ServiceStopped, outside, pass, manager, IInv, TypeOK, Registered, InUse
  <2>3. NotBlocked' /\ PendingNew' /\ StopList' /\ WaitedFor' /\ Ended'
    BY <1>3, <2>1 DEF ServiceStopped, outside, pass, manager, IInv, NotBlocked, PendingNew,
       StopList, WaitedFor, Ended
  <2> QED
    BY <2>2, <2>3 DEF IInv
<1>4. CASE StartService
  <2>1. TypeOK' /\ Registered' /\ InUse'
    BY <1>4 DEF StartService, outside, pass, manager, IInv, TypeOK, Registered, InUse
  <2>2. NotBlocked' /\ PendingNew' /\ StopList' /\ WaitedFor' /\ Ended'
    BY <1>4 DEF StartService, outside, pass, manager, IInv, NotBlocked, PendingNew, StopList,
       WaitedFor, Ended
  <2> QED
    BY <2>1, <2>2 DEF IInv
<1> QED
  BY <1>1, <1>2, <1>3, <1>4

\* Every step keeps the invariant.
LEMMA InvariantStep == IInv /\ [Next]_vars => IInv'
<1> SUFFICES ASSUME IInv, [Next]_vars PROVE IInv'
  OBVIOUS
<1>1. CASE ScanFails \/ UNCHANGED vars
  <2>0. UNCHANGED vars
    BY <1>1 DEF ScanFails
  <2>1. TypeOK' /\ Registered' /\ InUse'
    BY <2>0 DEF vars, IInv, TypeOK, Registered, InUse
  <2>2. NotBlocked' /\ PendingNew' /\ StopList' /\ WaitedFor' /\ Ended'
    BY <2>0 DEF vars, IInv, NotBlocked, PendingNew, StopList, WaitedFor, Ended
  <2> QED
    BY <2>1, <2>2 DEF IInv
<1>2. CASE \/ \E p \in Processes : StartProcess(p) \/ ExitProcess(p) \/ Expire(p)
           \/ \E set \in PolicySets : ChangePolicies(set)
  BY <1>2, OutsideStep
<1>3. CASE EnforcementGoroutine
  BY <1>3, ScanStep, StoppedStep, BookkeepingStep, ServiceStep, StopStep, SkipStep,
     NewInvocationStep DEF EnforcementGoroutine, Enforce
<1>4. CASE StopService \/ Shutdown \/ StartService
  BY <1>4, ServiceStep
<1>5. CASE \E i \in Invocations : Maintain(i) \/ \E kind \in Kinds : Publish(i, kind)
  BY <1>5, ReceiveStep, DenialStep, EndingStep, PublishStep DEF Maintain
<1> QED
  BY <1>1, <1>2, <1>3, <1>4, <1>5 DEF Next

\* The invariant holds in every state.
LEMMA Invariant == Spec => []IInv
BY InvariantInit, InvariantStep, PTL DEF Spec

-----------------------------------------------------------------------------
(* Theorems. *)

\* Every variable of the enforcer keeps its type, and Stop is never called on an
\* invocation that is not there (processmanager_windows.go:101-136).
THEOREM EnforcerTypes == Spec => []TypeOK
<1>1. IInv => TypeOK
  BY DEF IInv
<1> QED
  BY <1>1, Invariant, PTL

\* However processes, policies, invocations and the service interleave, an
\* invocation whose goroutine runs is the one the process manager has for its
\* process, and none runs on when the service has stopped
\* (processmanager_windows.go:101-136, 207-220).
THEOREM InvocationsAreKept == Spec => []NoInvocationLost
<1>1. IInv => NoInvocationLost
  <2> SUFFICES ASSUME IInv, NEW i \in Invocations, Live(i)
               PROVE  /\ invocations[inv[i].proc] = i /\ inv[i].proc \in managed
                      /\ service # "stopped"
    BY DEF NoInvocationLost
  <2>1. inv[i].proc \in Processes /\ invocations[inv[i].proc] = i
    BY DEF Live, IInv, Registered
  <2>2. i # None
    BY EnforcerConstants
  <2> QED
    BY <2>1, <2>2 DEF IInv, InUse, Ended
<1> QED
  BY <1>1, Invariant, PTL

\* A process is killed only after its own invocation was denied a license, never
\* when it is blocklisted or has only taken over the ID, and never in passive mode
\* (invocation_windows.go:267-288, process_windows.go:80-112).
THEOREM KilledOnlyForCause == Spec => KilledForCause
<1> DEFINE Cause == \A p \in Processes : proc[p] # "killed" /\ proc'[p] = "killed" =>
                        /\ p \notin Blocklist /\ ~Passive
                        /\ \E i \in Invocations : inv[i].proc = p /\ Denial(i)
<1>1. IInv /\ [Next]_vars => [Cause]_vars
  <2> SUFFICES ASSUME IInv, Next, NEW p \in Processes, proc[p] # "killed", proc'[p] = "killed"
               PROVE  /\ p \notin Blocklist /\ ~Passive
                      /\ \E i \in Invocations : inv[i].proc = p /\ Denial(i)
    OBVIOUS
  <2>1. ASSUME NEW i \in Invocations, Terminate(i)
        PROVE  /\ p \notin Blocklist /\ ~Passive
               /\ \E j \in Invocations : inv[j].proc = p /\ Denial(j)
    <3>1. inv[i].proc = p /\ Denial(i) /\ ~Passive
      BY <2>1 DEF Terminate, IInv, TypeOK
    <3>2. inv[i].at # "free"
      BY <3>1 DEF Denial
    <3>3. p \in managed
      BY <3>1, <3>2, EnforcerConstants DEF IInv, Registered, InUse
    <3> QED
      BY <3>1, <3>3 DEF IInv, NotBlocked
  <2>2. ASSUME NEW q \in Processes, StartProcess(q) \/ ExitProcess(q) PROVE FALSE
    BY <2>2 DEF StartProcess, ExitProcess, IInv, TypeOK
  <2>3. CASE proc' = proc
    BY <2>3
  <2>4. \/ \E i \in Invocations : Terminate(i)
        \/ \E q \in Processes : StartProcess(q) \/ ExitProcess(q)
        \/ proc' = proc
    BY DEF Next, EnforcementGoroutine, Enforce, Maintain, Expire, ChangePolicies, Scan, Stopped,
       Bookkeeping, ServiceStopped, Stop, Backoff, NewProcessFails, NewInvocation, StopService,
       Shutdown, StartService, Receive, ReceiveAgain, TerminateMissed, TerminateFails, Cancelled,
       Released, Publish, outside, ScanFails, vars
  <2> QED
    BY <2>1, <2>2, <2>3, <2>4
<1> QED
  BY <1>1, Invariant, PTL DEF Spec, KilledForCause
=============================================================================
