--------------------------- MODULE SessionsProofs ---------------------------
(***************************************************************************)
(* Proofs about the enforcer's sessions, for any number of sessions and    *)
(* Session objects, any policies and any capacity of the channels: the     *)
(* types, and that a connected session has the current policies but for    *)
(* the two cases that the model marks.                                     *)
(***************************************************************************)
EXTENDS Sessions, TLAPS

\* What is kept for a Session.
SessionType ==
    [id : SessionIDs \cup {None},
     conn : {"free", "start", "connected", "failed", "send", "leases", "ended"},
     read : PolicySets, ui : {"none", "running", "exited"}, out : 0..Buffer,
     sent : PolicySets, disconnect : BOOLEAN, stale : BOOLEAN]

\* A session that does not exist yet has its type.
LEMMA NoSessionType == NoSession \in SessionType /\ NoSession.conn = "free"
<1>1. 0 \in 0..Buffer
  BY SessionConstants
<1> QED
  BY <1>1, NoPoliciesAssumption DEF NoSession, SessionType

\* A message that is sent changes the channel only, which has room for it.
LEMMA SendType ==
    ASSUME NEW s \in SessionType
    PROVE  Send(s) \in SessionType /\ Send(s) = [s EXCEPT !.out = Send(s).out]
<1>1. (IF s.out < Buffer THEN s.out + 1 ELSE s.out) \in 0..Buffer
  BY SessionConstants DEF SessionType
<1>2. Send(s) = [s EXCEPT !.out = IF s.out < Buffer THEN s.out + 1 ELSE s.out]
  BY DEF Send
<1> QED
  BY <1>1, <1>2 DEF SessionType

\* Policies that are sent are marked as stale when they are not the current ones,
\* or find no room.
LEMMA SendPoliciesType ==
    ASSUME NEW s \in SessionType, NEW set \in PolicySets, NEW current \in PolicySets
    PROVE  LET t == SendPolicies(s, set, current)
           IN  /\ t \in SessionType /\ t.id = s.id /\ t.conn = s.conn
               /\ ~t.stale => t.sent = current
<1> DEFINE u == Send(s)
<1>1. u \in SessionType /\ u.id = s.id /\ u.conn = s.conn
  BY SendType DEF SessionType
<1>2. SendPolicies(s, set, current) =
        IF s.out < Buffer THEN [u EXCEPT !.sent = set, !.stale = (set # current)]
                          ELSE [u EXCEPT !.stale = TRUE]
  BY DEF SendPolicies
<1> HIDE DEF u
<1>3. CASE s.out < Buffer
  <2> DEFINE t == [u EXCEPT !.sent = set, !.stale = (set # current)]
  <2>1. SendPolicies(s, set, current) = t
    BY <1>2, <1>3
  <2>2. t \in SessionType /\ t.id = s.id /\ t.conn = s.conn /\ t.sent = set
    BY <1>1 DEF SessionType
  <2>3. t.stale = (set # current)
    BY <1>1 DEF SessionType
  <2> QED
    BY <2>1, <2>2, <2>3
<1>4. CASE ~(s.out < Buffer)
  <2> DEFINE t == [u EXCEPT !.stale = TRUE]
  <2>1. SendPolicies(s, set, current) = t
    BY <1>2, <1>4
  <2>2. t \in SessionType /\ t.id = s.id /\ t.conn = s.conn /\ t.stale = TRUE
    BY <1>1 DEF SessionType
  <2> QED
    BY <2>1, <2>2
<1> QED
  BY <1>3, <1>4

-----------------------------------------------------------------------------
(* The inductive invariant. *)

\* What managed refers to is a Session of that ID.
Own ==
    \A id \in SessionIDs : managed[id] # None =>
        session[managed[id]].id = id /\ session[managed[id]].conn # "free"

\* A Session that exists has an ID.
Named == \A o \in Objects : session[o].conn # "free" => session[o].id \in SessionIDs

\* A Session that the policies were sent to has been sent the current ones last.
Current ==
    \A id \in SessionIDs :
        LET s == session[managed[id]]
        IN  managed[id] # None /\ s.conn \in {"leases", "ended"} /\ ~s.stale => s.sent = pols

IInv == TypeOK /\ Own /\ Named /\ Current

\* What is known of a session that is managed.
LEMMA ManagedFacts ==
    ASSUME IInv, NEW o \in Objects, Managed(o)
    PROVE  /\ session[o].conn # "free" /\ session[o].id \in SessionIDs
           /\ managed[session[o].id] = o
           /\ session[o].conn \in {"leases", "ended"} /\ ~session[o].stale
                => session[o].sent = pols
<1>1. PICK id \in SessionIDs : managed[id] = o
  BY DEF Managed
<1>2. managed[id] # None
  BY <1>1, SessionConstants
<1> QED
  BY <1>1, <1>2 DEF IInv, Own, Current

\* The service starts without sessions.
LEMMA InvariantInit == Init => IInv
<1> SUFFICES ASSUME Init PROVE IInv
  OBVIOUS
<1>1. TypeOK
  BY NoPoliciesAssumption, NoSessionType DEF Init, InitUpdates, TypeOK, SessionType
<1> QED
  BY <1>1, NoSessionType DEF Init, IInv, Own, Named, Current

\* One object changes: if it is managed it keeps its ID, and what it was sent last
\* is current.
LEMMA ObjectStep ==
    ASSUME IInv, NEW o \in Objects, NEW r \in SessionType,
           session' = [session EXCEPT ![o] = r], managed' = managed, pols' = pols,
           UNCHANGED <<updateVars, present, scanner, stop>>, attempted' \subseteq SessionIDs,
           r.conn # "free" => r.id = session[o].id /\ session[o].conn # "free",
           Managed(o) => /\ r.id = session[o].id /\ r.conn # "free"
                         /\ r.conn \in {"leases", "ended"} /\ ~r.stale => r.sent = pols
    PROVE  IInv'
<1>1. TypeOK'
  BY DEF IInv, TypeOK, SessionType, updateVars
<1>2. ASSUME NEW id \in SessionIDs, managed'[id] # None
      PROVE  /\ session'[managed'[id]].id = id /\ session'[managed'[id]].conn # "free"
             /\ session'[managed'[id]].conn \in {"leases", "ended"}
                  /\ ~session'[managed'[id]].stale => session'[managed'[id]].sent = pols'
  <2>1. managed[id] \in Objects /\ managed'[id] = managed[id]
    BY <1>2 DEF IInv, TypeOK
  <2>2. CASE managed[id] = o
    <3>1. Managed(o) /\ session'[o] = r
      BY <2>2 DEF Managed, IInv, TypeOK
    <3> QED
      BY <1>2, <2>1, <2>2, <3>1 DEF IInv, Own
  <2>3. CASE managed[id] # o
    <3>1. session'[managed[id]] = session[managed[id]]
      BY <2>1, <2>3 DEF IInv, TypeOK
    <3> QED
      BY <1>2, <2>1, <3>1 DEF IInv, Own, Current
  <2> QED
    BY <2>2, <2>3
<1>3. Own' /\ Current'
  BY <1>2 DEF Own, Current
<1>4. Named'
  BY DEF IInv, Named, TypeOK
<1> QED
  BY <1>1, <1>3, <1>4 DEF IInv

\* The sessions stay as they are.
LEMMA UnchangedStep ==
    ASSUME IInv, session' = session, managed' = managed, pols' = pols, TypeOK'
    PROVE  IInv'
BY DEF IInv, Own, Named, Current

\* UpdatePolicies sends the new policies to every managed session.
LEMMA UpdateStep ==
    ASSUME IInv, NEW set \in PolicySets, UpdatePolicies(set), managed' = managed,
           policies' \in PolicySets, service' \in {"running", "stopping", "stopped"},
           updater' \in {"off", "starting", "updating", "changed", "push", "ended"},
           present' = present, attempted' = attempted, stop' = stop,
           scanner' \in [at : {"off", "prime", "scan", "select", "ended"}, read : PolicySets]
    PROVE  IInv'
<1>1. pols' = set /\ session' = [o \in Objects |->
          IF Managed(o) THEN SendPolicies(session[o], set, set) ELSE session[o]]
  BY DEF UpdatePolicies
<1>2. \A o \in Objects : session[o] \in SessionType
  BY DEF IInv, TypeOK, SessionType
<1>3. ASSUME NEW o \in Objects
      PROVE  /\ session'[o] \in SessionType /\ session'[o].id = session[o].id
             /\ session'[o].conn = session[o].conn
             /\ Managed(o) /\ ~session'[o].stale => session'[o].sent = set
  BY <1>1, <1>2, SendPoliciesType, ZenonT(40)
<1>4. session' \in [Objects -> SessionType]
  BY <1>1, <1>3
<1>5. TypeOK'
  BY <1>1, <1>4 DEF IInv, TypeOK, SessionType
<1>6. ASSUME NEW id \in SessionIDs, managed'[id] # None
      PROVE  /\ session'[managed'[id]].id = id /\ session'[managed'[id]].conn # "free"
             /\ ~session'[managed'[id]].stale => session'[managed'[id]].sent = pols'
  <2>1. managed[id] \in Objects /\ Managed(managed[id])
    BY <1>6 DEF IInv, TypeOK, Managed
  <2> QED
    BY <1>1, <1>3, <1>6, <2>1 DEF IInv, Own
<1>7. Own' /\ Current'
  BY <1>6 DEF Own, Current
<1>8. Named'
  BY <1>3 DEF IInv, Named
<1> QED
  BY <1>5, <1>7, <1>8 DEF IInv

-----------------------------------------------------------------------------
(* The goroutines of the service. *)

\* The policy manager, and the beginning and the end of the service.
LEMMA PolicyStep ==
    ASSUME IInv, UNCHANGED sessionVars,
           Updates \/ StartService \/ StopService \/ UpdaterEnds
    PROVE  IInv'
<1>1. /\ policies' \in PolicySets /\ service' \in {"running", "stopping", "stopped"}
      /\ updater' \in {"off", "starting", "updating", "changed", "push", "ended"}
  <2>1. CASE StartService \/ StopService \/ UpdaterEnds
    BY <2>1 DEF StartService, StopService, UpdaterEnds, IInv, TypeOK
  <2>2. CASE FirstUpdateReturns \/ UpdateReturns
    BY <2>2 DEF FirstUpdateReturns, UpdateReturns, IInv, TypeOK
  <2>3. ASSUME NEW set \in PolicySets, FirstPolicies(set) \/ ReplacePolicies(set)
        PROVE  /\ policies' \in PolicySets /\ service' \in {"running", "stopping", "stopped"}
               /\ updater' \in {"off", "starting", "updating", "changed", "push", "ended"}
    BY <2>3 DEF FirstPolicies, ReplacePolicies, IInv, TypeOK
  <2> QED
    BY <2>1, <2>2, <2>3 DEF Updates
<1>2. TypeOK'
  BY <1>1 DEF IInv, TypeOK, sessionVars
<1> QED
  BY <1>2, UnchangedStep DEF sessionVars

\* The policies are handed to the session manager.
LEMMA PushStep == IInv /\ (Push \/ Primed) => IInv'
<1> SUFFICES ASSUME IInv, Push \/ Primed PROVE IInv'
  OBVIOUS
<1>1. CASE Push
  BY <1>1, UpdateStep DEF Push, PushPolicies, IInv, TypeOK
<1>2. CASE Primed
  <2>1. scanner.read \in PolicySets
        /\ scanner' \in [at : {"off", "prime", "scan", "select", "ended"}, read : PolicySets]
    BY <1>2, NoPoliciesAssumption DEF Primed, IInv, TypeOK
  <2> QED
    BY <1>2, <2>1, UpdateStep DEF Primed, updateVars, IInv, TypeOK
<1> QED
  BY <1>1, <1>2

\* Steps of the session goroutine and of Stop that change no session.
LEMMA QuietStep ==
    ASSUME IInv, Prime \/ ScannerEnds \/ StopSessions \/ StopNext \/ \E id \in SessionIDs : LogOn(id)
    PROVE  IInv'
<1>1. session' = session /\ managed' = managed /\ pols' = pols /\ UNCHANGED updateVars
      /\ attempted' = attempted
  BY DEF Prime, ScannerEnds, StopSessions, StopNext, LogOn
<1>2. scanner' \in [at : {"off", "prime", "scan", "select", "ended"}, read : PolicySets]
  BY DEF Prime, ScannerEnds, StopSessions, StopNext, LogOn, IInv, TypeOK
<1>3. stop' \in {"off", "next"} \cup Objects /\ present' \subseteq SessionIDs
  BY DEF Prime, ScannerEnds, StopSessions, StopNext, LogOn, IInv, TypeOK
<1>4. TypeOK'
  BY <1>1, <1>2, <1>3 DEF IInv, TypeOK, updateVars
<1> QED
  BY <1>1, <1>4, UnchangedStep

\* A session that is given up has its type.
LEMMA AbandonedType ==
    ASSUME IInv, NEW o \in Objects
    PROVE  /\ Abandoned(o) \in SessionType /\ Abandoned(o).id = session[o].id
           /\ session[o].conn = "free" => Abandoned(o).conn = "free"
<1>1. session[o] \in SessionType
  BY DEF IInv, TypeOK, SessionType
<1> QED
  BY <1>1, NoSessionType DEF Abandoned, NoSession, SessionType

\* A scan gives up sessions and takes objects that nobody uses for new ones.
LEMMA ScanStep ==
    ASSUME IInv, NEW waiting, Scan(waiting)
    PROVE  IInv'
<1> DEFINE dead == {id \in SessionIDs :
                      managed[id] # None /\ (id \notin present \/ session[managed[id]].ui = "none")}
           new  == {id \in present \ waiting : managed[id] = None}
           fresh == {o \in Objects : session[o] = NoSession}
           Newcomer(object, o) ==
               [NoSession EXCEPT !.id = CHOOSE id \in new : object[id] = o, !.conn = "start"]
<1>1. PICK object \in [new -> fresh] :
        /\ \A a, b \in new : object[a] = object[b] => a = b
        /\ managed' = [id \in SessionIDs |->
              IF id \in new THEN object[id] ELSE IF id \in dead THEN None ELSE managed[id]]
        /\ session' = [o \in Objects |->
              IF \E id \in new : object[id] = o THEN Newcomer(object, o)
              ELSE IF \E id \in dead : managed[id] = o THEN Abandoned(o) ELSE session[o]]
  BY DEF Scan
<1>2. /\ pols' = pols /\ UNCHANGED updateVars /\ present' = present /\ stop' = stop
      /\ attempted' = attempted \cap present
      /\ scanner' \in [at : {"off", "prime", "scan", "select", "ended"}, read : PolicySets]
  BY DEF Scan, IInv, TypeOK
<1>3. new \subseteq SessionIDs /\ \A id \in new : managed[id] = None
  BY DEF IInv, TypeOK
<1>4. \A id \in new : object[id] \in Objects /\ session[object[id]] = NoSession
  BY <1>1
<1> HIDE DEF dead, new, fresh
<1>5. ASSUME NEW o \in Objects, NEW id \in new, object[id] = o
      PROVE  /\ Newcomer(object, o) \in SessionType /\ Newcomer(object, o).id = id
             /\ Newcomer(object, o).conn = "start"
  <2>1. (CHOOSE a \in new : object[a] = o) = id
    BY <1>1, <1>5
  <2> QED
    BY <1>3, <2>1, NoSessionType DEF NoSession, SessionType
<1> HIDE DEF Newcomer
<1>6. session' \in [Objects -> SessionType]
  <2>1. \A o \in Objects : session[o] \in SessionType
    BY DEF IInv, TypeOK, SessionType
  <2> QED
    BY <1>1, <1>5, <2>1, AbandonedType
<1>7. managed' \in [SessionIDs -> Objects \cup {None}]
  BY <1>1, <1>4 DEF IInv, TypeOK
<1>8. TypeOK'
  BY <1>2, <1>6, <1>7 DEF IInv, TypeOK, SessionType, updateVars
<1>9. ASSUME NEW id \in SessionIDs, managed'[id] # None
      PROVE  /\ session'[managed'[id]].id = id /\ session'[managed'[id]].conn # "free"
             /\ session'[managed'[id]].conn \in {"leases", "ended"}
                  /\ ~session'[managed'[id]].stale => session'[managed'[id]].sent = pols'
  <2>1. CASE id \in new
    <3>1. managed'[id] = object[id] /\ object[id] \in Objects
      BY <1>1, <1>4, <2>1
    <3>2. session'[object[id]] = Newcomer(object, object[id])
      BY <1>1, <2>1, <3>1
    <3>3. session'[object[id]].id = id /\ session'[object[id]].conn = "start"
      BY <1>5, <2>1, <3>1, <3>2
    <3> QED
      BY <3>1, <3>3
  <2>2. CASE id \notin new
    <3>1. id \notin dead /\ managed'[id] = managed[id] /\ managed[id] \in Objects
      BY <1>1, <1>9, <2>2 DEF IInv, TypeOK
    <3>2. session[managed[id]].id = id /\ session[managed[id]].conn # "free"
      BY <1>9, <3>1 DEF IInv, Own
    <3>3. ~\E a \in new : object[a] = managed[id]
      BY <1>4, <3>2, NoSessionType
    <3>4. ~\E a \in dead : managed[a] = managed[id]
      <4> SUFFICES ASSUME NEW a \in dead, managed[a] = managed[id] PROVE FALSE
        OBVIOUS
      <4>1. a \in SessionIDs /\ managed[a] # None
        BY DEF dead
      <4>2. session[managed[a]].id = a
        BY <4>1 DEF IInv, Own
      <4> QED
        BY <3>1, <3>2, <4>2
    <3>5. session'[managed[id]] = session[managed[id]]
      BY <1>1, <3>1, <3>3, <3>4
    <3> QED
      BY <1>2, <1>9, <3>1, <3>2, <3>5 DEF IInv, Current
  <2> QED
    BY <2>1, <2>2
<1>10. Own' /\ Current'
  BY <1>9 DEF Own, Current
<1>11. Named'
  BY <1>1, <1>3, <1>5, AbandonedType DEF IInv, Named
<1> QED
  BY <1>8, <1>10, <1>11 DEF IInv

-----------------------------------------------------------------------------
(* A session. *)

\* A session goes on, without any policies being sent.
LEMMA ProgressStep ==
    ASSUME IInv, NEW o \in Objects,
           \/ Connect(o) \/ ConnectFails(o) \/ Deliver(o) \/ Exit(o) \/ Wait(o) \/ Kill(o)
    PROVE  IInv'
<1>1. session[o] \in SessionType
  BY DEF IInv, TypeOK, SessionType
<1>2. PICK r \in SessionType :
        /\ session' = [session EXCEPT ![o] = r]
        /\ r.id = session[o].id /\ r.stale = session[o].stale /\ r.sent = session[o].sent
        /\ \/ r.conn = session[o].conn
           \/ (r.conn \in {"connected", "failed"} /\ session[o].conn = "start")
  <2>1. CASE Connect(o)
    <3> DEFINE r == [session[o] EXCEPT !.conn = "connected", !.ui = "running"]
    <3>1. session' = [session EXCEPT ![o] = r]
      BY <2>1 DEF Connect
    <3>2. session[o].conn = "start"
      BY <2>1 DEF Connect
    <3>3. /\ r \in SessionType /\ r.id = session[o].id /\ r.stale = session[o].stale
          /\ r.sent = session[o].sent /\ r.conn = "connected"
      BY <1>1 DEF SessionType
    <3>4. r.conn \in {"connected", "failed"}
      BY <3>3
    <3> HIDE DEF r
    <3> r \in SessionType
      BY <3>3
    <3> WITNESS r \in SessionType
    <3> QED
      BY <3>1, <3>2, <3>3, <3>4
  <2>2. CASE ConnectFails(o)
    <3> DEFINE r == [session[o] EXCEPT !.conn = "failed"]
    <3>1. session' = [session EXCEPT ![o] = r]
      BY <2>2 DEF ConnectFails
    <3>2. session[o].conn = "start"
      BY <2>2 DEF ConnectFails
    <3>3. /\ r \in SessionType /\ r.id = session[o].id /\ r.stale = session[o].stale
          /\ r.sent = session[o].sent /\ r.conn = "failed"
      BY <1>1 DEF SessionType
    <3>4. r.conn \in {"connected", "failed"}
      BY <3>3
    <3> HIDE DEF r
    <3> r \in SessionType
      BY <3>3
    <3> WITNESS r \in SessionType
    <3> QED
      BY <3>1, <3>2, <3>3, <3>4
  <2>3. CASE Deliver(o)
    <3> DEFINE r == [session[o] EXCEPT !.out = session[o].out - 1]
    <3>1. session' = [session EXCEPT ![o] = r]
      BY <2>3 DEF Deliver
    <3>2. session[o].out - 1 \in 0..Buffer
      BY <1>1, <2>3, SessionConstants DEF Deliver, SessionType
    <3>3. /\ r \in SessionType /\ r.id = session[o].id /\ r.stale = session[o].stale
          /\ r.sent = session[o].sent /\ r.conn = session[o].conn
      BY <1>1, <3>2 DEF SessionType
    <3> QED
      BY <3>1, <3>3
  <2>4. CASE Exit(o) \/ Wait(o) \/ Kill(o)
    <3>1. PICK u \in {"exited", "none"} : session' = [session EXCEPT ![o].ui = u]
      BY <2>4 DEF Exit, Wait, Kill
    <3> DEFINE r == [session[o] EXCEPT !.ui = u]
    <3>2. session' = [session EXCEPT ![o] = r]
      BY <3>1
    <3>3. /\ r \in SessionType /\ r.id = session[o].id /\ r.stale = session[o].stale
          /\ r.sent = session[o].sent /\ r.conn = session[o].conn
      BY <1>1 DEF SessionType
    <3> QED
      BY <3>2, <3>3
  <2> QED
    BY <2>1, <2>2, <2>3, <2>4
<1>3. UNCHANGED others
  BY DEF Connect, ConnectFails, Deliver, Exit, Wait, Kill
<1>4. Managed(o) => /\ r.conn # "free"
                    /\ r.conn \in {"leases", "ended"} /\ ~r.stale => r.sent = pols
  BY <1>2, ManagedFacts
<1> QED
  BY <1>2, <1>3, <1>4, ObjectStep DEF others, IInv, TypeOK

\* A session that could not be connected is given up.
LEMMA ForgetFailedStep ==
    ASSUME IInv, NEW o \in Objects, ForgetFailed(o)
    PROVE  IInv'
<1> DEFINE sid == session[o].id
           r == IF session[o].disconnect THEN [session[o] EXCEPT !.conn = "ended"] ELSE NoSession
<1>1. /\ session' = [session EXCEPT ![o] = r] /\ pols' = pols /\ present' = present
      /\ scanner' = scanner /\ stop' = stop /\ UNCHANGED updateVars
      /\ session[o].conn = "failed"
  BY DEF ForgetFailed
<1>2. r \in SessionType
  BY NoSessionType DEF IInv, TypeOK, SessionType
<1>3. IF managed[sid] = o
      THEN managed' = [managed EXCEPT ![sid] = None] /\ attempted' = attempted \cup {sid}
      ELSE managed' = managed /\ attempted' = attempted
  BY DEF ForgetFailed
<1>4. sid \in SessionIDs
  BY <1>1 DEF IInv, Named
<1> HIDE DEF r
<1>5. session' \in [Objects -> SessionType]
  BY <1>1, <1>2 DEF IInv, TypeOK, SessionType
<1>6. CASE managed[sid] = o
  <2>1. TypeOK'
    BY <1>1, <1>3, <1>4, <1>5, <1>6 DEF IInv, TypeOK, SessionType, updateVars
  <2>2. ASSUME NEW id \in SessionIDs, managed'[id] # None
        PROVE  /\ managed'[id] = managed[id] /\ managed[id] \in Objects
               /\ session'[managed[id]] = session[managed[id]]
    <3>1. id # sid /\ managed'[id] = managed[id] /\ managed[id] \in Objects
      BY <1>3, <1>4, <1>6, <2>2 DEF IInv, TypeOK
    <3>2. session[managed[id]].id = id
      BY <2>2, <3>1 DEF IInv, Own
    <3>3. managed[id] # o
      BY <3>1, <3>2
    <3> QED
      BY <1>1, <3>1, <3>3 DEF IInv, TypeOK
  <2>3. Named'
    BY <1>1, <1>4, <1>5, NoSessionType DEF IInv, Named, TypeOK, r
  <2>4. Own' /\ Current'
    BY <1>1, <2>2 DEF IInv, Own, Current
  <2> QED
    BY <2>1, <2>3, <2>4 DEF IInv
<1>7. CASE managed[sid] # o
  <2>1. ~Managed(o)
    BY <1>7, ManagedFacts
  <2>2. r.conn # "free" => r.id = session[o].id /\ session[o].conn # "free"
    BY <1>1, NoSessionType DEF r, IInv, TypeOK
  <2> QED
    BY <1>1, <1>2, <1>3, <1>7, <2>1, <2>2, ObjectStep DEF IInv, TypeOK
<1> QED
  BY <1>6, <1>7

\* The goroutine of a session reads the policies.
LEMMA ReadStep ==
    ASSUME IInv, NEW o \in Objects, ReadPolicies(o)
    PROVE  IInv'
<1>1. session[o] \in SessionType
  BY DEF IInv, TypeOK, SessionType
<1>2. /\ managed' = managed /\ pols' = pols /\ UNCHANGED <<updateVars, present, scanner, stop>>
      /\ attempted' \subseteq SessionIDs
  BY DEF ReadPolicies, IInv, TypeOK
<1>3. CASE Managed(o)
  <2> DEFINE r == [session[o] EXCEPT !.conn = "send", !.read = pols]
  <2>1. session' = [session EXCEPT ![o] = r]
    BY <1>3 DEF ReadPolicies
  <2>2. r \in SessionType /\ r.id = session[o].id /\ r.conn = "send"
    BY <1>1 DEF SessionType, IInv, TypeOK
  <2>3. session[o].conn # "free"
    BY DEF ReadPolicies
  <2> HIDE DEF r
  <2> QED
    BY <1>2, <2>1, <2>2, <2>3, ObjectStep
<1>4. CASE ~Managed(o)
  <2> DEFINE t == [session[o] EXCEPT !.conn = "ended"]
             r == Settled(o, t)
  <2>1. session' = [session EXCEPT ![o] = r]
    BY <1>4 DEF ReadPolicies
  <2>2. t \in SessionType /\ t.id = session[o].id
    BY <1>1 DEF SessionType
  <2> HIDE DEF t
  <2>3. r \in SessionType /\ (r.conn # "free" => r.id = session[o].id)
    BY <2>2, NoSessionType DEF Settled
  <2>4. session[o].conn # "free"
    BY DEF ReadPolicies
  <2> HIDE DEF r
  <2> QED
    BY <1>2, <1>4, <2>1, <2>3, <2>4, ObjectStep
<1> QED
  BY <1>3, <1>4

\* It sends them: what is not current any more is marked.
LEMMA SendCurrentStep ==
    ASSUME IInv, NEW o \in Objects, SendCurrent(o)
    PROVE  IInv'
<1> DEFINE t == SendPolicies(session[o], session[o].read, pols)
           r == [t EXCEPT !.conn = "leases", !.read = NoPolicies]
<1>1. session' = [session EXCEPT ![o] = r] /\ UNCHANGED others /\ session[o].conn = "send"
  BY DEF SendCurrent
<1>2. session[o] \in SessionType /\ pols \in PolicySets /\ session[o].read \in PolicySets
  BY DEF IInv, TypeOK, SessionType
<1>3. t \in SessionType /\ t.id = session[o].id /\ (~t.stale => t.sent = pols)
  BY <1>2, SendPoliciesType
<1> HIDE DEF t
<1>4. r \in SessionType /\ r.id = session[o].id /\ r.conn = "leases" /\ r.stale = t.stale
      /\ r.sent = t.sent
  BY <1>3, NoPoliciesAssumption DEF SessionType
<1> HIDE DEF r
<1> QED
  BY <1>1, <1>3, <1>4, ObjectStep DEF others, IInv, TypeOK

\* Other messages leave what was sent last as it is.
LEMMA SendStep ==
    ASSUME IInv, NEW o \in Objects, SendLeases(o) \/ SendProcessTermination(o)
    PROVE  IInv'
<1> DEFINE t == Send(session[o])
           r == [t EXCEPT !.conn = "ended"]
<1>1. session[o] \in SessionType
  BY DEF IInv, TypeOK, SessionType
<1>2. /\ t \in SessionType /\ t.id = session[o].id /\ t.conn = session[o].conn
      /\ t.stale = session[o].stale /\ t.sent = session[o].sent
  BY <1>1, SendType DEF SessionType
<1>3. UNCHANGED others
  BY DEF SendLeases, SendProcessTermination
<1>4. CASE SendLeases(o)
  <2>1. session' = [session EXCEPT ![o] = r] /\ session[o].conn = "leases"
    BY <1>4 DEF SendLeases
  <2> HIDE DEF t
  <2>2. /\ r \in SessionType /\ r.id = t.id /\ r.conn = "ended" /\ r.stale = t.stale
        /\ r.sent = t.sent
    BY <1>2 DEF SessionType
  <2> HIDE DEF r
  <2>3. Managed(o) /\ ~r.stale => r.sent = pols
    BY <1>2, <2>1, <2>2, ManagedFacts
  <2> QED
    BY <1>2, <1>3, <2>1, <2>2, <2>3, ObjectStep DEF others, IInv, TypeOK
<1>5. CASE SendProcessTermination(o)
  <2>1. session' = [session EXCEPT ![o] = t]
    BY <1>5 DEF SendProcessTermination
  <2> HIDE DEF t
  <2>2. Managed(o) => /\ t.conn # "free"
                      /\ t.conn \in {"leases", "ended"} /\ ~t.stale => t.sent = pols
    BY <1>2, ManagedFacts
  <2> QED
    BY <1>2, <1>3, <2>1, <2>2, ObjectStep DEF others, IInv, TypeOK
<1> QED
  BY <1>4, <1>5

\* Disconnect returns.
LEMMA DisconnectedStep ==
    ASSUME IInv, NEW o \in Objects, Disconnected(o)
    PROVE  IInv'
<1> DEFINE t == [session[o] EXCEPT !.disconnect = FALSE]
           r == Settled(o, t)
<1>1. session[o] \in SessionType
  BY DEF IInv, TypeOK, SessionType
<1>2. session' = [session EXCEPT ![o] = r] /\ UNCHANGED others
  BY DEF Disconnected
<1>3. /\ t \in SessionType /\ t.id = session[o].id /\ t.conn = session[o].conn
      /\ t.stale = session[o].stale /\ t.sent = session[o].sent
  BY <1>1 DEF SessionType
<1> HIDE DEF t
<1>4. r \in SessionType /\ (Managed(o) => r = t) /\ (r.conn # "free" => r = t)
  BY <1>3, NoSessionType DEF Settled
<1> HIDE DEF r
<1>5. Managed(o) => /\ r.id = session[o].id /\ r.conn # "free"
                    /\ r.conn \in {"leases", "ended"} /\ ~r.stale => r.sent = pols
  BY <1>3, <1>4, ManagedFacts
<1> QED
  BY <1>2, <1>3, <1>4, <1>5, ObjectStep DEF others, IInv, TypeOK

-----------------------------------------------------------------------------
(* The end of the service, and the users. *)

\* Stop gives up a session.
LEMMA StopSessionStep ==
    ASSUME IInv, NEW sid \in SessionIDs, StopSession(sid)
    PROVE  IInv'
<1> DEFINE o == managed[sid]
<1>1. /\ o # None /\ session' = [session EXCEPT ![o] = Abandoned(o)]
      /\ managed' = [managed EXCEPT ![sid] = None] /\ stop' = o
      /\ UNCHANGED <<updateVars, present, scanner, pols, attempted>>
  BY DEF StopSession
<1>2. o \in Objects
  BY <1>1 DEF IInv, TypeOK
<1>3. TypeOK'
  <2>1. session' \in [Objects -> SessionType]
    BY <1>1, <1>2, AbandonedType DEF IInv, TypeOK, SessionType
  <2> QED
    BY <1>1, <1>2, <2>1 DEF IInv, TypeOK, SessionType, updateVars
<1>4. ASSUME NEW id \in SessionIDs, managed'[id] # None
      PROVE  managed'[id] = managed[id] /\ session'[managed[id]] = session[managed[id]]
  <2>1. id # sid /\ managed'[id] = managed[id] /\ managed[id] \in Objects
    BY <1>1, <1>4 DEF IInv, TypeOK
  <2>2. session[managed[id]].id = id /\ session[o].id = sid
    BY <1>1, <1>4, <2>1 DEF IInv, Own
  <2>3. managed[id] # o
    BY <2>1, <2>2
  <2> QED
    BY <1>1, <2>1, <2>3 DEF IInv, TypeOK
<1>5. Own' /\ Current'
  BY <1>1, <1>4 DEF IInv, Own, Current
<1>6. Named'
  BY <1>1, <1>2, AbandonedType DEF IInv, Named, TypeOK
<1> QED
  BY <1>3, <1>5, <1>6 DEF IInv

\* Service.run returns.
LEMMA ServiceStoppedStep == IInv /\ ServiceStopped => IInv'
<1> SUFFICES ASSUME IInv, ServiceStopped PROVE IInv'
  OBVIOUS
<1>1. TypeOK'
  BY NoPoliciesAssumption DEF ServiceStopped, RunReturns, IInv, TypeOK
<1> QED
  BY <1>1, UnchangedStep DEF ServiceStopped

\* A crash leaves no sessions.
LEMMA CrashStep == IInv /\ Crash => IInv'
<1> SUFFICES ASSUME IInv, Crash PROVE IInv'
  OBVIOUS
<1>1. TypeOK'
  BY NoPoliciesAssumption, NoSessionType DEF Crash, CrashService, IInv, TypeOK, SessionType
<1>2. Own' /\ Named' /\ Current'
  BY NoSessionType DEF Crash, Own, Named, Current
<1> QED
  BY <1>1, <1>2 DEF IInv

\* The user interface of a user who logs off ends.
LEMMA LogOffStep ==
    ASSUME IInv, NEW sid \in SessionIDs, LogOff(sid)
    PROVE  IInv'
<1>1. /\ managed' = managed /\ pols' = pols /\ present' = present \ {sid}
      /\ UNCHANGED <<updateVars, scanner, attempted, stop>>
      /\ session' = [o \in Objects |->
            IF session[o].id = sid /\ session[o].ui = "running"
            THEN [session[o] EXCEPT !.ui = "exited"] ELSE session[o]]
  BY DEF LogOff
<1>2. ASSUME NEW o \in Objects
      PROVE  /\ session'[o] \in SessionType /\ session'[o].id = session[o].id
             /\ session'[o].conn = session[o].conn /\ session'[o].sent = session[o].sent
             /\ session'[o].stale = session[o].stale
  <2> DEFINE r == [session[o] EXCEPT !.ui = "exited"]
  <2>1. session[o] \in SessionType
    BY DEF IInv, TypeOK, SessionType
  <2>2. r \in SessionType /\ r.id = session[o].id /\ r.conn = session[o].conn
        /\ r.sent = session[o].sent /\ r.stale = session[o].stale
    BY <2>1 DEF SessionType
  <2>3. session'[o] \in {r, session[o]}
    BY <1>1
  <2> QED
    BY <2>1, <2>2, <2>3
<1>3. session' \in [Objects -> SessionType]
  BY <1>1, <1>2
<1>4. TypeOK'
  BY <1>1, <1>3 DEF IInv, TypeOK, SessionType, updateVars
<1>5. \A id \in SessionIDs : managed[id] # None => managed[id] \in Objects
  BY DEF IInv, TypeOK
<1>6. Own' /\ Current'
  BY <1>1, <1>2, <1>5 DEF IInv, Own, Current
<1>7. Named'
  BY <1>2 DEF IInv, Named
<1> QED
  BY <1>4, <1>6, <1>7 DEF IInv

\* Every step keeps the invariant.
LEMMA InvariantStep == IInv /\ [Next]_vars => IInv'
<1> SUFFICES ASSUME IInv, [Next]_vars PROVE IInv'
  OBVIOUS
<1>1. CASE UNCHANGED vars
  <2>1. TypeOK'
    BY <1>1 DEF vars, updateVars, sessionVars, IInv, TypeOK
  <2> QED
    BY <1>1, <2>1, UnchangedStep DEF vars, sessionVars
<1>2. CASE PolicyGoroutine \/ UpdaterEnd \/ ((StartService \/ StopService) /\ UNCHANGED sessionVars)
  BY <1>2, PolicyStep, PushStep DEF PolicyGoroutine, UpdaterEnd
<1>3. CASE SessionGoroutine \/ ScannerEnds
  BY <1>3, PushStep, QuietStep, ScanStep DEF SessionGoroutine
<1>4. CASE Stopping \/ Crash
  BY <1>4, QuietStep, StopSessionStep, ServiceStoppedStep, CrashStep DEF Stopping
<1>5. CASE \E o \in Objects :
             Connecting(o) \/ SendProcessTermination(o) \/ Deliver(o) \/ Exit(o) \/ Disconnecting(o)
  BY <1>5, ProgressStep, ForgetFailedStep, ReadStep, SendCurrentStep, SendStep, DisconnectedStep
     DEF Connecting, Disconnecting
<1>6. CASE \E id \in SessionIDs : LogOn(id) \/ LogOff(id)
  BY <1>6, QuietStep, LogOffStep
<1> QED
  BY <1>1, <1>2, <1>3, <1>4, <1>5, <1>6 DEF Next

\* The invariant holds in every state.
LEMMA Invariant == Spec => []IInv
BY InvariantInit, InvariantStep, PTL DEF Spec

-----------------------------------------------------------------------------
(* Theorems. *)

\* Every variable of the sessions keeps its type, and no channel ever holds more
\* than its capacity (session_windows.go:54-64).
THEOREM SessionTypes == Spec => []TypeOK
<1>1. IInv => TypeOK
  BY DEF IInv
<1> QED
  BY <1>1, Invariant, PTL

\* For any number of sessions and any interleaving, a connected session has the
\* session manager's policies, unless its channel was full or an update came
\* between the moments at which its goroutine read and sent them
\* (sessionmanager_windows.go:116-159).
THEOREM SessionsAreUpToDate == Spec => []SessionsUpToDate
<1>1. IInv => SessionsUpToDate
  BY DEF IInv, Current, SessionsUpToDate
<1> QED
  BY <1>1, Invariant, PTL
=============================================================================
