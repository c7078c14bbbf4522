------------------------ MODULE PolicyManagerProofs ------------------------
(***************************************************************************)
(* Proofs about the enforcer's policy cache, for any policies, any sets    *)
(* that the guardian may serve and any policies without a stable hash: the *)
(* types, that a crash or a failed write loses no lasting policy, that a   *)
(* SetPolicies that succeeds restores the directory, and that every step   *)
(* is one that PolicyUpdates allows.                                       *)
(***************************************************************************)
EXTENDS PolicyManager, FiniteSetTheorems, TLAPS

-----------------------------------------------------------------------------
(* Files and their content. *)

\* What is in some files is in more files.
LEMMA ContentMonotone ==
    ASSUME NEW A, NEW B, A \subseteq B
    PROVE  Content(A) \subseteq Content(B)
BY DEF Content

\* The content of files is policies.
LEMMA ContentType ==
    ASSUME NEW A \in SUBSET Names
    PROVE  Content(A) \subseteq Policies
BY DEF Content, Names

\* However the hashes of a set come out, the files named by them have exactly
\* its policies as their content.
LEMMA HashesContent ==
    ASSUME NEW set \in SUBSET Policies, NEW names \in Hashes(set)
    PROVE  names \subseteq Names /\ Content(names) = set
<1>1. names \subseteq Names /\ \A n \in names : n[1] \in set
  BY DEF Hashes
<1>2. ASSUME NEW p \in set PROVE \E n \in names : n[1] = p
  <2>1. Cardinality({n \in names : n[1] = p}) = 1
    BY DEF Hashes
  <2>2. {n \in names : n[1] = p} # {}
    <3>1. Cardinality({}) = 0
      BY FS_EmptySet
    <3> QED
      BY <2>1, <3>1
  <2> QED
    BY <2>2
<1> QED
  BY <1>1, <1>2 DEF Content

-----------------------------------------------------------------------------
(* The inductive invariant. *)

\* Files are named to be written or removed only while they are.
NothingToDo ==
    update.at # "cache" => update.write = {} /\ update.remove = {} /\ update.open = {}

\* The goroutines have been started when the first Update has returned.
StartedPhases ==
    /\ update.at = "load" => ~update.started
    /\ update.at \in {"push", "select"} => update.started

\* What is owed is there, in files that may be cut off ...
OwedThere == owed \subseteq Content(Existing)

\* ... and while the directory is changed, the files that are not to be removed,
\* with those still to be written, are the policies.
Replacing ==
    update.at = "cache" =>
        /\ owed \subseteq policies
        /\ update.write \cap update.remove = {}
        /\ Torn \subseteq update.write \cup update.remove
        /\ policies = Content(update.write \cup (Whole \ update.remove))

IInv == TypeOK /\ NothingToDo /\ StartedPhases /\ OwedThere /\ Replacing

\* The service starts without policies and without a cache.
LEMMA InvariantInit == Init => IInv
<1> SUFFICES ASSUME Init PROVE IInv
  OBVIOUS
<1>1. TypeOK
  BY DEF Init, TypeOK, NoUpdate, Torn
<1>2. OwedThere
  BY DEF Init, OwedThere
<1> QED
  BY <1>1, <1>2 DEF Init, IInv, NothingToDo, StartedPhases, Replacing, NoUpdate

\* Files that nobody writes keep what they are.
LEMMA FilesUnchanged ==
    ASSUME files' = files
    PROVE  Whole' = Whole /\ Torn' = Torn /\ Existing' = Existing
BY DEF Whole, Torn, Existing

\* A step that leaves the files alone and ends, or does not begin, their
\* replacement.
LEMMA OutsideStep ==
    ASSUME IInv, files' = files, update'.at # "cache", TypeOK', NothingToDo', StartedPhases',
           owed' \subseteq owed
    PROVE  IInv'
<1>1. OwedThere'
  BY FilesUnchanged DEF IInv, OwedThere
<1>2. Replacing'
  BY DEF Replacing
<1> QED
  BY <1>1, <1>2 DEF IInv

\* The service starts.
LEMMA StartStep == IInv /\ Start => IInv'
<1> SUFFICES ASSUME IInv, Start PROVE IInv'
  OBVIOUS
<1>1. TypeOK'
  BY DEF IInv, TypeOK, Start, NoUpdate, Torn
<1>2. NothingToDo' /\ StartedPhases' /\ update'.at # "cache"
  BY DEF NothingToDo, StartedPhases, Start, NoUpdate
<1> QED
  BY <1>1, <1>2, OutsideStep DEF Start

\* The cached policies are loaded.
LEMMA LoadStep == IInv /\ Load => IInv'
<1> SUFFICES ASSUME IInv, Load PROVE IInv'
  OBVIOUS
<1>1. Content(Whole) \subseteq Policies
  BY ContentType DEF Whole
<1>2. TypeOK'
  BY <1>1 DEF IInv, TypeOK, Load, Torn
<1>3. NothingToDo' /\ StartedPhases' /\ update'.at # "cache"
  BY DEF IInv, TypeOK, NothingToDo, StartedPhases, Load
<1> QED
  BY <1>2, <1>3, OutsideStep DEF Load

\* The polling timer fires.
LEMMA TimerStep == IInv /\ Timer => IInv'
<1> SUFFICES ASSUME IInv, Timer PROVE IInv'
  OBVIOUS
<1>1. TypeOK'
  BY DEF IInv, TypeOK, Timer, Torn
<1>2. NothingToDo' /\ StartedPhases' /\ update'.at # "cache"
  BY DEF IInv, TypeOK, NothingToDo, StartedPhases, Timer
<1> QED
  BY <1>1, <1>2, OutsideStep DEF Timer

\* The policies cannot be fetched.
LEMMA FetchFailsStep == IInv /\ FetchFails => IInv'
<1> SUFFICES ASSUME IInv, FetchFails PROVE IInv'
  OBVIOUS
<1>1. TypeOK'
  BY DEF IInv, TypeOK, FetchFails, NoUpdate, Torn
<1>2. NothingToDo' /\ StartedPhases' /\ update'.at # "cache"
  BY DEF NothingToDo, StartedPhases, FetchFails, NoUpdate
<1> QED
  BY <1>1, <1>2, OutsideStep DEF FetchFails

\* The session manager has been handed the policies.
LEMMA PushStep == IInv /\ Push => IInv'
<1> SUFFICES ASSUME IInv, Push PROVE IInv'
  OBVIOUS
<1>1. TypeOK'
  BY DEF IInv, TypeOK, Push, Torn
<1>2. NothingToDo' /\ StartedPhases' /\ update'.at # "cache"
  BY DEF IInv, TypeOK, NothingToDo, StartedPhases, Push
<1> QED
  BY <1>1, <1>2, OutsideStep DEF Push

\* The policy goroutine finds the shutdown channel closed.
LEMMA UpdateEndsStep == IInv /\ UpdateEnds => IInv'
<1> SUFFICES ASSUME IInv, UpdateEnds PROVE IInv'
  OBVIOUS
<1>1. TypeOK'
  BY DEF IInv, TypeOK, UpdateEnds, NoUpdate, Torn
<1>2. NothingToDo' /\ StartedPhases' /\ update'.at # "cache"
  BY DEF NothingToDo, StartedPhases, UpdateEnds, NoUpdate
<1> QED
  BY <1>1, <1>2, OutsideStep DEF UpdateEnds

\* The service has stopped, or the process has.
LEMMA StoppedStep == IInv /\ (ServiceStopped \/ Crash) => IInv'
<1> SUFFICES ASSUME IInv, ServiceStopped \/ Crash PROVE IInv'
  OBVIOUS
<1>1. policies' \in {policies, {}} /\ service' = "stopped" /\ update' = NoUpdate
      /\ files' = files /\ owed' = owed
  BY DEF ServiceStopped, Crash
<1>2. TypeOK'
  BY <1>1 DEF IInv, TypeOK, NoUpdate, Torn
<1>3. NothingToDo' /\ StartedPhases' /\ update'.at # "cache"
  BY <1>1 DEF NothingToDo, StartedPhases, NoUpdate
<1> QED
  BY <1>1, <1>2, <1>3, OutsideStep

\* The service is told to stop.
LEMMA StopServiceStep == IInv /\ StopService => IInv'
<1> SUFFICES ASSUME IInv, StopService PROVE IInv'
  OBVIOUS
<1>1. TypeOK'
  BY DEF IInv, TypeOK, StopService, Torn
<1>2. NothingToDo' /\ StartedPhases' /\ OwedThere' /\ Replacing'
  BY FilesUnchanged DEF IInv, NothingToDo, StartedPhases, OwedThere, Replacing, StopService
<1> QED
  BY <1>1, <1>2 DEF IInv

\* The replacement begins: whatever is in the directory is to be written anew
\* or to be removed.
LEMMA FetchStep ==
    ASSUME IInv, NEW set \in Served, Fetch(set)
    PROVE  IInv'
<1>1. PICK names \in Hashes(set), changed \in Differs(policies, set) :
        update' = [update EXCEPT !.at = "cache", !.write = names,
                                 !.remove = Existing \ names, !.changed = changed]
  BY DEF Fetch
<1>2. set \in SUBSET Policies
  BY PolicyConstants
<1>3. names \subseteq Names /\ Content(names) = set
  BY <1>2, HashesContent
<1>4. Existing \ names \subseteq Names
  BY DEF Existing, Whole, Torn
<1>5. changed \in BOOLEAN
  BY DEF Differs
<1>6. update.open = {} /\ policies' = set /\ owed' = owed \cap set /\ files' = files
  BY DEF Fetch, IInv, NothingToDo
<1>7. /\ update'.at = "cache" /\ update'.write = names /\ update'.remove = Existing \ names
      /\ update'.started = update.started
  BY <1>1 DEF IInv, TypeOK
<1>8. TypeOK'
  BY <1>1, <1>2, <1>3, <1>4, <1>5, <1>6 DEF IInv, TypeOK, Fetch
<1>9. NothingToDo' /\ StartedPhases'
  BY <1>7 DEF NothingToDo, StartedPhases
<1>10. OwedThere'
  BY <1>6, FilesUnchanged DEF IInv, OwedThere
<1>11. Replacing'
  <2>1. Torn' \subseteq update'.write \cup update'.remove
    BY <1>6, <1>7, FilesUnchanged DEF Existing
  <2>2. update'.write \cup (Whole' \ update'.remove) = names
    BY <1>6, <1>7, FilesUnchanged DEF Existing
  <2> QED
    BY <1>3, <1>6, <1>7, <2>1, <2>2 DEF Replacing
<1> QED
  BY <1>8, <1>9, <1>10, <1>11 DEF IInv

\* A file is opened, and with that cut off.
LEMMA TruncateStep ==
    ASSUME IInv, NEW n \in Names, Truncate(n)
    PROVE  IInv'
<1>1. /\ update.at = "cache" /\ n \in update.write /\ update.open = {}
      /\ policies' = policies /\ service' = service /\ owed' = owed
      /\ files' = [files EXCEPT ![n] = "torn"] /\ update' = [update EXCEPT !.open = {n}]
  BY DEF Truncate
<1>2. /\ update'.at = "cache" /\ update'.write = update.write /\ update'.open = {n}
      /\ update'.remove = update.remove /\ update'.started = update.started
  BY <1>1 DEF IInv, TypeOK
<1>3. Whole' = Whole \ {n} /\ Torn' = Torn \cup {n}
  BY <1>1 DEF IInv, TypeOK, Whole, Torn
<1>4. TypeOK'
  BY <1>1, <1>2, <1>3 DEF IInv, TypeOK
<1>5. OwedThere'
  <2>1. Content(Existing) \subseteq Content(Existing')
    BY <1>3, ContentMonotone DEF Existing
  <2> QED
    BY <1>1, <2>1 DEF IInv, OwedThere
<1>6. Replacing'
  <2>1. update'.write \cup (Whole' \ update'.remove) = update.write \cup (Whole \ update.remove)
    BY <1>1, <1>2, <1>3
  <2> QED
    BY <1>1, <1>2, <1>3, <2>1 DEF IInv, Replacing
<1> QED
  BY <1>1, <1>2, <1>4, <1>5, <1>6 DEF IInv, NothingToDo, StartedPhases

\* It is written.
LEMMA WriteStep ==
    ASSUME IInv, NEW n \in Names, Write(n)
    PROVE  IInv'
<1>1. /\ update.at = "cache" /\ update.open = {n}
      /\ policies' = policies /\ service' = service /\ owed' = owed
      /\ files' = [files EXCEPT ![n] = "whole"]
      /\ update' = [update EXCEPT !.open = {}, !.write = @ \ {n}]
  BY DEF Write
<1>2. /\ update'.at = "cache" /\ update'.write = update.write \ {n} /\ update'.open = {}
      /\ update'.remove = update.remove /\ update'.started = update.started
  BY <1>1 DEF IInv, TypeOK
<1>3. Whole' = Whole \cup {n} /\ Torn' = Torn \ {n} /\ n \in update.write /\ n \in Torn
  BY <1>1 DEF IInv, TypeOK, Whole, Torn
<1>4. TypeOK'
  BY <1>1, <1>2, <1>3 DEF IInv, TypeOK
<1>5. OwedThere'
  <2>1. Existing' = Existing
    BY <1>3 DEF Existing
  <2> QED
    BY <1>1, <2>1 DEF IInv, OwedThere
<1>6. Replacing'
  <2>1. n \notin update.remove
    BY <1>1, <1>3 DEF IInv, Replacing
  <2>2. update'.write \cup (Whole' \ update'.remove) = update.write \cup (Whole \ update.remove)
    BY <1>2, <1>3, <2>1
  <2> QED
    BY <1>1, <1>2, <1>3, <2>2 DEF IInv, Replacing
<1> QED
  BY <1>1, <1>2, <1>4, <1>5, <1>6 DEF IInv, NothingToDo, StartedPhases

\* A file is removed when all are written: what it held is either not owed or in
\* a file that stays.
LEMMA RemoveStep ==
    ASSUME IInv, NEW n \in Names, Remove(n)
    PROVE  IInv'
<1>1. /\ update.at = "cache" /\ update.write = {} /\ n \in update.remove
      /\ policies' = policies /\ service' = service /\ owed' = owed
      /\ files' = [files EXCEPT ![n] = "none"]
      /\ update' = [update EXCEPT !.remove = @ \ {n}]
  BY DEF Remove
<1>2. /\ update'.at = "cache" /\ update'.write = {} /\ update'.open = update.open
      /\ update'.remove = update.remove \ {n} /\ update'.started = update.started
      /\ update.open = {}
  BY <1>1 DEF IInv, TypeOK
<1>3. Whole' = Whole \ {n} /\ Torn' = Torn \ {n}
  BY <1>1 DEF IInv, TypeOK, Whole, Torn
<1>4. TypeOK'
  BY <1>1, <1>2, <1>3 DEF IInv, TypeOK
<1>5. update'.write \cup (Whole' \ update'.remove) = update.write \cup (Whole \ update.remove)
  BY <1>1, <1>2, <1>3
<1>6. Replacing'
  BY <1>1, <1>2, <1>3, <1>5 DEF IInv, Replacing
<1>7. OwedThere'
  <2>1. policies = Content(Whole \ update.remove)
    BY <1>1 DEF IInv, Replacing
  <2>2. Content(Whole \ update.remove) \subseteq Content(Existing')
    BY <1>1, <1>3, ContentMonotone DEF Existing
  <2> QED
    BY <1>1, <2>1, <2>2 DEF IInv, Replacing, OwedThere
<1> QED
  BY <1>1, <1>2, <1>4, <1>6, <1>7 DEF IInv, NothingToDo, StartedPhases

\* When nothing is left to write or to remove, the directory is the policies.
LEMMA DoneContent ==
    ASSUME IInv, CacheDone
    PROVE  Torn = {} /\ Content(Whole) = policies
<1>1. update.at = "cache" /\ update.write = {} /\ update.remove = {}
  BY DEF CacheDone
<1>2. update.write \cup (Whole \ update.remove) = Whole
  BY <1>1
<1> QED
  BY <1>1, <1>2 DEF IInv, Replacing

\* Update returns.
LEMMA ReturnedType == IInv /\ update' = Returned /\ files' = files =>
    /\ update'.at # "cache" /\ NothingToDo' /\ StartedPhases'
    /\ (policies' = policies /\ service' = service /\ owed' \subseteq Policies => TypeOK')
<1> SUFFICES ASSUME IInv, update' = Returned, files' = files
             PROVE  /\ update'.at # "cache" /\ NothingToDo' /\ StartedPhases'
                    /\ (policies' = policies /\ service' = service /\ owed' \subseteq Policies
                          => TypeOK')
  OBVIOUS
<1>1. /\ update'.at \in {"push", "select"} /\ update'.started = TRUE
      /\ update'.write = {} /\ update'.remove = {} /\ update'.open = {}
  BY DEF Returned, NoUpdate
<1>2. update'.at # "cache" /\ NothingToDo' /\ StartedPhases'
  BY <1>1 DEF NothingToDo, StartedPhases
<1>3. policies' = policies /\ service' = service /\ owed' \subseteq Policies => TypeOK'
  BY DEF IInv, TypeOK, Returned, NoUpdate, Torn
<1> QED
  BY <1>2, <1>3

\* The directory is the policies when every file is written and removed.
LEMMA CacheDoneStep == IInv /\ CacheDone => IInv'
<1> SUFFICES ASSUME IInv, CacheDone PROVE IInv'
  OBVIOUS
<1>1. owed' = policies /\ update' = Returned /\ policies' = policies /\ files' = files
      /\ service' = service
  BY DEF CacheDone
<1>2. TypeOK' /\ NothingToDo' /\ StartedPhases' /\ update'.at # "cache"
  BY <1>1, ReturnedType DEF IInv, TypeOK
<1>3. OwedThere'
  BY <1>1, DoneContent, FilesUnchanged, ContentMonotone DEF OwedThere, Existing
<1>4. Replacing'
  BY <1>2 DEF Replacing
<1> QED
  BY <1>2, <1>3, <1>4 DEF IInv

\* The directory is left as it is by a failure.
LEMMA CacheFailsStep == IInv /\ CacheFails => IInv'
<1> SUFFICES ASSUME IInv, CacheFails PROVE IInv'
  OBVIOUS
<1>1. owed' = owed /\ update' = Returned /\ policies' = policies /\ files' = files
      /\ service' = service
  BY DEF CacheFails
<1>2. TypeOK' /\ NothingToDo' /\ StartedPhases' /\ update'.at # "cache"
  BY <1>1, ReturnedType DEF IInv, TypeOK
<1> QED
  BY <1>1, <1>2, OutsideStep

\* Every step keeps the invariant.
LEMMA InvariantStep == IInv /\ [Next]_vars => IInv'
<1> SUFFICES ASSUME IInv, [Next]_vars PROVE IInv'
  OBVIOUS
<1>1. CASE UNCHANGED vars
  <2>1. TypeOK' /\ NothingToDo' /\ StartedPhases'
    BY <1>1 DEF vars, IInv, TypeOK, NothingToDo, StartedPhases, Torn
  <2>2. OwedThere' /\ Replacing'
    BY <1>1, FilesUnchanged DEF vars, IInv, OwedThere, Replacing
  <2> QED
    BY <2>1, <2>2 DEF IInv
<1>2. CASE UpdateStep
  BY <1>2, LoadStep, TimerStep, FetchFailsStep, CacheDoneStep, CacheFailsStep, FetchStep,
     TruncateStep, WriteStep, RemoveStep DEF UpdateStep
<1>3. CASE Push \/ Start \/ StopService \/ UpdateEnds \/ ServiceStopped \/ Crash
  BY <1>3, PushStep, StartStep, StopServiceStep, UpdateEndsStep, StoppedStep
<1> QED
  BY <1>1, <1>2, <1>3 DEF Next

\* The invariant holds in every state.
LEMMA Invariant == Spec => []IInv
BY InvariantInit, InvariantStep, PTL DEF Spec

-----------------------------------------------------------------------------
(* Theorems. *)

\* Every variable of the policy manager keeps its type, and a file is open only
\* while SetPolicies has it to write (fsprov/provider.go:114-120).
THEOREM PolicyTypes == Spec => []TypeOK
<1>1. IInv => TypeOK
  BY DEF IInv
<1> QED
  BY <1>1, Invariant, PTL

\* Whatever crashes, failed writes and unstable hashes there were, a load that
\* succeeds misses no policy that every set had since the cache was complete
\* (fsprov/provider.go:116-131).
THEOREM PoliciesKept == Spec => []NoPolicyLost
<1>1. IInv => NoPolicyLost
  <2> SUFFICES ASSUME IInv, Torn = {} PROVE owed \subseteq Content(Whole)
    BY DEF NoPolicyLost
  <2>1. Existing = Whole
    BY DEF Existing
  <2> QED
    BY <2>1 DEF IInv, OwedThere
<1> QED
  BY <1>1, Invariant, PTL

\* A SetPolicies that returns without an error leaves exactly the policies in the
\* directory (fsprov/provider.go:80-134).
THEOREM CacheIsRestored == Spec => CacheRestored
<1>1. IInv /\ [Next]_vars => [CacheDone => Torn = {} /\ Content(Whole) = policies]_vars
  BY DoneContent
<1> QED
  BY <1>1, Invariant, PTL DEF Spec, CacheRestored

-----------------------------------------------------------------------------
(* The refinement. *)

\* The initial states are initial states of PolicyUpdates.
LEMMA RefinementInit == Init => Abstract!InitUpdates
BY DEF Init, NoUpdate, Phase, Abstract!InitUpdates

\* What PolicyUpdates sees of the goroutine, by where it is.
LEMMA PhaseValue ==
    ASSUME IInv
    PROVE  /\ update.at = "off" => Phase = "off"
           /\ update.at = "load" => Phase = "starting"
           /\ update.at = "select" => Phase = "updating"
           /\ update.at = "push" => Phase = "push"
           /\ update.at = "ended" => Phase = "ended"
           /\ update.at \in {"fetch", "cache"} /\ ~update.started => Phase = "starting"
           /\ update.at = "fetch" /\ update.started => Phase = "updating"
           /\ update.at = "cache" /\ update.started =>
                Phase = IF update.changed THEN "changed" ELSE "updating"
BY DEF Phase, IInv, TypeOK, StartedPhases

\* The same in the next state.
LEMMA PhaseValueNext ==
    ASSUME IInv'
    PROVE  /\ update'.at = "off" => Phase' = "off"
           /\ update'.at = "load" => Phase' = "starting"
           /\ update'.at = "select" => Phase' = "updating"
           /\ update'.at = "push" => Phase' = "push"
           /\ update'.at = "ended" => Phase' = "ended"
           /\ update'.at \in {"fetch", "cache"} /\ ~update'.started => Phase' = "starting"
           /\ update'.at = "fetch" /\ update'.started => Phase' = "updating"
           /\ update'.at = "cache" /\ update'.started =>
                Phase' = IF update'.changed THEN "changed" ELSE "updating"
BY DEF Phase, IInv, TypeOK, StartedPhases

\* Update returns: the first time the goroutines start, later the sessions are
\* told of a change.
LEMMA RefinementReturn ==
    ASSUME IInv, IInv', update.at = "cache", update' = Returned, policies' = policies,
           service' = service
    PROVE  [Abstract!Updates]_(Abstract!updateVars)
<1>1. update.started \in BOOLEAN /\ update.changed \in BOOLEAN
  BY DEF IInv, TypeOK
<1>2. CASE ~update.started
  <2>1. update'.at = "select"
    BY <1>2 DEF Returned, NoUpdate
  <2>2. Phase = "starting" /\ Phase' = "updating"
    BY <1>2, <2>1, PhaseValue, PhaseValueNext
  <2> QED
    BY <2>2 DEF Abstract!Updates, Abstract!FirstUpdateReturns
<1>3. CASE update.started /\ update.changed
  <2>1. update'.at = "push"
    BY <1>3 DEF Returned, NoUpdate
  <2>2. Phase = "changed" /\ Phase' = "push"
    BY <1>3, <2>1, PhaseValue, PhaseValueNext
  <2> QED
    BY <2>2 DEF Abstract!Updates, Abstract!UpdateReturns
<1>4. CASE update.started /\ ~update.changed
  <2>1. update'.at = "select"
    BY <1>4 DEF Returned, NoUpdate
  <2>2. Phase = "updating" /\ Phase' = "updating"
    BY <1>4, <2>1, PhaseValue, PhaseValueNext
  <2> QED
    BY <2>2 DEF Abstract!updateVars
<1> QED
  BY <1>1, <1>2, <1>3, <1>4

\* New policies: the first time nobody needs to be told of them.
LEMMA RefinementFetch ==
    ASSUME IInv, IInv', NEW set \in Served, Fetch(set)
    PROVE  Abstract!Updates
<1>1. PICK names \in Hashes(set), changed \in Differs(policies, set) :
        update' = [update EXCEPT !.at = "cache", !.write = names,
                                 !.remove = Existing \ names, !.changed = changed]
  BY DEF Fetch
<1>2. /\ update'.at = "cache" /\ update'.started = update.started
      /\ update'.changed = changed /\ update.at = "fetch" /\ policies' = set
      /\ service' = service /\ update.started \in BOOLEAN
  BY <1>1 DEF IInv, TypeOK, Fetch
<1>3. set \in SUBSET Policies
  BY PolicyConstants
<1>4. changed \in BOOLEAN /\ (set # policies => changed)
  BY DEF Differs
<1>5. CASE ~update.started
  <2>1. Phase = "starting" /\ Phase' = "starting"
    BY <1>2, <1>5, PhaseValue, PhaseValueNext
  <2>2. Abstract!FirstPolicies(set)
    BY <1>2, <2>1 DEF Abstract!FirstPolicies
  <2> QED
    BY <1>3, <2>2 DEF Abstract!Updates
<1>6. CASE update.started
  <2>1. Phase = "updating" /\ Phase' = IF changed THEN "changed" ELSE "updating"
    BY <1>2, <1>6, PhaseValue, PhaseValueNext
  <2>2. Abstract!ReplacePolicies(set)
    BY <1>2, <1>4, <2>1 DEF Abstract!ReplacePolicies
  <2> QED
    BY <1>3, <2>2 DEF Abstract!Updates
<1> QED
  BY <1>2, <1>5, <1>6

\* Every step is a step that PolicyUpdates allows, or changes nothing there.
LEMMA RefinementStep ==
    ASSUME IInv, IInv', [Next]_vars
    PROVE  [Abstract!NextUpdates]_(Abstract!updateVars)
<1>1. CASE UNCHANGED vars
  BY <1>1 DEF vars, Phase, Abstract!updateVars
<1>2. CASE Start
  <2>1. Phase' = "starting"
    BY <1>2, PhaseValueNext DEF Start, NoUpdate
  <2> QED
    BY <1>2, <2>1 DEF Start, Abstract!StartService, Abstract!NextUpdates
<1>3. CASE Load
  <2>1. update.at = "load" /\ update'.at = "fetch" /\ ~update'.started /\ service' = service
    BY <1>3 DEF Load, IInv, TypeOK, StartedPhases
  <2>2. Phase = "starting" /\ Phase' = "starting"
    BY <2>1, PhaseValue, PhaseValueNext
  <2>3. policies' \in SUBSET Policies
    BY DEF IInv, TypeOK
  <2> QED
    BY <2>1, <2>2, <2>3 DEF Abstract!FirstPolicies, Abstract!Updates, Abstract!NextUpdates
<1>4. CASE Timer
  <2>1. update.at = "select" /\ update'.at = "fetch" /\ update'.started
    BY <1>4 DEF Timer, IInv, TypeOK, StartedPhases
  <2>2. Phase = "updating" /\ Phase' = "updating"
    BY <2>1, PhaseValue, PhaseValueNext
  <2> QED
    BY <1>4, <2>2 DEF Timer, Abstract!updateVars
<1>5. CASE FetchFails
  <2>1. update.at = "fetch" /\ update'.at = "select" /\ update.started \in BOOLEAN
    BY <1>5 DEF FetchFails, NoUpdate, IInv, TypeOK
  <2>2. Phase \in {"starting", "updating"} /\ Phase' = "updating"
    BY <2>1, PhaseValue, PhaseValueNext
  <2> QED
    BY <1>5, <2>2 DEF FetchFails, Abstract!FirstUpdateReturns, Abstract!Updates,
       Abstract!NextUpdates, Abstract!updateVars
<1>6. CASE CacheDone \/ CacheFails
  <2>1. [Abstract!Updates]_(Abstract!updateVars)
    BY <1>6, RefinementReturn DEF CacheDone, CacheFails
  <2> QED
    BY <2>1 DEF Abstract!NextUpdates
<1>7. ASSUME NEW set \in Served, Fetch(set) PROVE Abstract!NextUpdates
  BY <1>7, RefinementFetch DEF Abstract!NextUpdates
<1>8. ASSUME NEW n \in Names, Truncate(n) \/ Write(n) \/ Remove(n)
      PROVE  UNCHANGED Abstract!updateVars
  <2>1. /\ update'.at = update.at /\ update'.started = update.started
        /\ update'.changed = update.changed
    BY <1>8 DEF Truncate, Write, Remove, IInv, TypeOK
  <2>2. Phase' = Phase
    BY <2>1 DEF Phase
  <2> QED
    BY <1>8, <2>2 DEF Truncate, Write, Remove, Abstract!updateVars
<1>9. CASE Push
  <2>1. update.at = "push" /\ update'.at = "select"
    BY <1>9 DEF Push, IInv, TypeOK
  <2>2. Phase = "push" /\ Phase' = "updating"
    BY <2>1, PhaseValue, PhaseValueNext
  <2> QED
    BY <1>9, <2>2 DEF Push, Abstract!PushPolicies, Abstract!NextUpdates
<1>10. CASE StopService
  BY <1>10 DEF StopService, Phase, Abstract!StopService, Abstract!NextUpdates
<1>11. CASE UpdateEnds
  <2>1. update.at = "select" /\ update'.at = "ended"
    BY <1>11 DEF UpdateEnds, NoUpdate
  <2>2. Phase = "updating" /\ Phase' = "ended"
    BY <2>1, PhaseValue, PhaseValueNext
  <2> QED
    BY <1>11, <2>2 DEF UpdateEnds, Abstract!UpdaterEnds, Abstract!NextUpdates
<1>12. CASE ServiceStopped
  <2>1. update.at = "ended" /\ update'.at = "off"
    BY <1>12 DEF ServiceStopped, NoUpdate
  <2>2. Phase = "ended" /\ Phase' = "off"
    BY <2>1, PhaseValue, PhaseValueNext
  <2> QED
    BY <1>12, <2>2 DEF ServiceStopped, Abstract!RunReturns, Abstract!NextUpdates
<1>13. CASE Crash
  <2>1. update'.at = "off"
    BY <1>13 DEF Crash, NoUpdate
  <2>2. Phase' = "off"
    BY <2>1, PhaseValueNext
  <2> QED
    BY <1>13, <2>2 DEF Crash, Abstract!CrashService, Abstract!NextUpdates
<1> QED
  BY <1>1, <1>2, <1>3, <1>4, <1>5, <1>6, <1>7, <1>8, <1>9, <1>10, <1>11, <1>12, <1>13
     DEF Next, UpdateStep

\* Load and Update do what the session manager relies on: PolicyManager implements
\* the safety part of PolicyUpdates, for any policies and sets served
\* (policymanager_windows.go:48-136, service_windows.go:106-149).
THEOREM UpdatesArePromised ==
    Spec => Abstract!InitUpdates /\ [][Abstract!NextUpdates]_(Abstract!updateVars)
BY RefinementInit, RefinementStep, Invariant, PTL DEF Spec
=============================================================================
