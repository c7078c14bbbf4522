------------------------------ MODULE Sessions ------------------------------
(***************************************************************************)
(* The enforcer's SessionManager and its Sessions, beside the goroutine    *)
(* that updates the policies they bring to the users, of which they use    *)
(* what PolicyUpdates says: Service.run's session goroutine, the goroutine *)
(* that connects a new session, the one that waits for its user interface  *)
(* process, and SessionManager.Stop.                                       *)
(*                                                                         *)
(* External: who is logged on, and the user interface processes, which     *)
(* start or not, take messages in order, and may exit.                     *)
(***************************************************************************)
EXTENDS Naturals, Sequences, PolicyUpdates

CONSTANTS
    SessionIDs, \* the sessions of the machine
    Objects,    \* identities of Session objects
    None,       \* nil
    Buffer      \* capacity of a session's outbound channel (64 in the repository)

ASSUME SessionConstants == None \notin Objects /\ Buffer \in Nat \ {0}

VARIABLES
    present,   \* sessions that winsession lists
    scanner,   \* where the session goroutine is, and the policies it has read
    pols,      \* m.pols
    managed,   \* m.managed
    attempted, \* m.attempted: sessions whose last connection failed
    session,   \* the Session objects
    stop       \* SessionManager.Stop, which holds m.mutex: what it waits for

sessionVars == <<present, scanner, pols, managed, attempted, session, stop>>
vars == <<updateVars, sessionVars>>

\* conn: the goroutine that connects; read: the policies it has read; ui: the
\* process, until the stopped channel is closed; out: how many messages are in
\* the outbound channel; sent: the policies that were put into it last;
\* disconnect: a goroutine is in Disconnect; stale: an update has overtaken, or
\* did not find room for, what was sent last.
NoSession == [id |-> None, conn |-> "free", read |-> NoPolicies, ui |-> "none", out |-> 0,
              sent |-> NoPolicies, disconnect |-> FALSE, stale |-> FALSE]

Init ==
    /\ InitUpdates
    /\ present = {} /\ pols = NoPolicies /\ attempted = {} /\ stop = "off"
    /\ scanner = [at |-> "off", read |-> NoPolicies]
    /\ managed = [id \in SessionIDs |-> None]
    /\ session = [o \in Objects |-> NoSession]

Unlocked == stop = "off"

Managed(o) == \E id \in SessionIDs : managed[id] = o

\* A session that is not managed is forgotten when it has no goroutine left but
\* the one that waits for its process.
Settled(o, s) ==
    IF ~Managed(o) /\ s.conn = "ended" /\ ~s.disconnect THEN NoSession ELSE s

\* Mutant: the channel is taken to have room.
SendBlind(s) == [s EXCEPT !.out = @ + 1]

\* Session.Send: a message that finds no room is dropped.
Send(s) == [s EXCEPT !.out = IF @ < Buffer THEN @ + 1 ELSE @]

\* Session.SendPolicies, while the session manager has the policies current.
SendPolicies(s, set, current) ==
    IF s.out < Buffer THEN [Send(s) EXCEPT !.sent = set, !.stale = (set # current)]
                      ELSE [Send(s) EXCEPT !.stale = TRUE]

\* SessionManager.UpdatePolicies; a session whose goroutine has read the
\* policies and not yet sent them gets the older set after the newer.
UpdatePolicies(set) ==
    /\ Unlocked
    /\ pols' = set
    /\ session' = [o \in Objects |->
                      IF Managed(o) THEN SendPolicies(session[o], set, set) ELSE session[o]]

-----------------------------------------------------------------------------
(* The policy goroutine, and the session goroutine. *)

\* changed: s.sessions.UpdatePolicies(s.policies.Policies())
Push ==
    /\ PushPolicies
    /\ UpdatePolicies(policies)
    /\ UNCHANGED <<present, scanner, managed, attempted, stop>>

\* The session goroutine starts after the first update, and reads the policies ...
Prime ==
    /\ scanner.at = "off" /\ updater \notin {"off", "starting"}
    /\ scanner' = [at |-> "prime", read |-> policies]
    /\ UNCHANGED <<updateVars, present, pols, managed, attempted, session, stop>>

\* ... which it hands to the session manager.
Primed ==
    /\ scanner.at = "prime"
    /\ UpdatePolicies(scanner.read)
    /\ scanner' = [at |-> "scan", read |-> NoPolicies]
    /\ UNCHANGED <<updateVars, present, managed, attempted, stop>>

\* A session that is given up is disconnected; nobody looks at its channel then.
Abandoned(o) ==
    LET s == session[o]
    IN  [NoSession EXCEPT !.id = s.id, !.ui = s.ui, !.disconnect = TRUE,
             !.conn = IF s.conn \in {"send", "leases"} THEN "ended" ELSE s.conn]

\* Mutant: a session that has ended by itself stays managed.
ScanTrusts(waiting) ==
    /\ scanner.at \in {"scan", "select"}
    /\ Unlocked
    /\ LET dead == {id \in SessionIDs :
                       managed[id] # None /\ id \notin present}
           new  == {id \in present \ waiting : managed[id] = None}
       IN  /\ \E object \in [new -> {o \in Objects : session[o] = NoSession}] :
                  /\ \A a, b \in new : object[a] = object[b] => a = b
                  /\ managed' = [id \in SessionIDs |->
                        IF id \in new THEN object[id]
                        ELSE IF id \in dead THEN None ELSE managed[id]]
                  /\ session' = [o \in Objects |->
                        IF \E id \in new : object[id] = o
                        THEN [NoSession EXCEPT !.id = CHOOSE id \in new : object[id] = o,
                                               !.conn = "start"]
                        ELSE IF \E id \in dead : managed[id] = o
                        THEN Abandoned(o) ELSE session[o]]
    /\ attempted' = attempted \cap present
    /\ scanner' = [scanner EXCEPT !.at = "select"]
    /\ UNCHANGED <<updateVars, present, pols, stop>>

\* Scan: sessions that are gone or not connected are given up, their Disconnect
\* left to a goroutine; new ones are connected by a goroutine each, unless that
\* failed a short time ago (waiting).
Scan(waiting) ==
    /\ scanner.at \in {"scan", "select"}
    /\ Unlocked
    /\ LET dead == {id \in SessionIDs :
                       managed[id] # None /\ (id \notin present \/ session[managed[id]].ui = "none")}
           new  == {id \in present \ waiting : managed[id] = None}
       IN  /\ \E object \in [new -> {o \in Objects : session[o] = NoSession}] :
                  /\ \A a, b \in new : object[a] = object[b] => a = b
                  /\ managed' = [id \in SessionIDs |->
                        IF id \in new THEN object[id]
                        ELSE IF id \in dead THEN None ELSE managed[id]]
                  /\ session' = [o \in Objects |->
                        IF \E id \in new : object[id] = o
                        THEN [NoSession EXCEPT !.id = CHOOSE id \in new : object[id] = o,
                                               !.conn = "start"]
                        ELSE IF \E id \in dead : managed[id] = o
                        THEN Abandoned(o) ELSE session[o]]
    /\ attempted' = attempted \cap present
    /\ scanner' = [scanner EXCEPT !.at = "select"]
    /\ UNCHANGED <<updateVars, present, pols, stop>>

ScannerEnds ==
    /\ scanner.at = "select" /\ service = "stopping"
    /\ scanner' = [scanner EXCEPT !.at = "ended"]
    /\ UNCHANGED <<updateVars, present, pols, managed, attempted, session, stop>>

-----------------------------------------------------------------------------
(* A session: Connect, its goroutines, and Disconnect. *)

others == <<updateVars, present, scanner, pols, managed, attempted, stop>>

\* Connect starts the user interface, with s.mutex held ...
Connect(o) ==
    /\ session[o].conn = "start" /\ session[o].id \in present
    /\ session' = [session EXCEPT ![o].conn = "connected", ![o].ui = "running"]
    /\ UNCHANGED others

\* ... or fails, because the user has logged off or the process does not start.
ConnectFails(o) ==
    /\ session[o].conn = "start"
    /\ session' = [session EXCEPT ![o].conn = "failed"]
    /\ UNCHANGED others

\* The goroutine takes m.mutex.  A failed session is given up, if it is still
\* the one managed; the next scans wait before they try again.
ForgetFailed(o) ==
    /\ session[o].conn = "failed" /\ Unlocked
    /\ LET id == session[o].id
       IN  IF managed[id] = o
           THEN managed' = [managed EXCEPT ![id] = None] /\ attempted' = attempted \cup {id}
           ELSE UNCHANGED <<managed, attempted>>
    /\ session' = [session EXCEPT ![o] =
          IF session[o].disconnect THEN [session[o] EXCEPT !.conn = "ended"] ELSE NoSession]
    /\ UNCHANGED <<updateVars, present, scanner, pols, stop>>

\* With the connection, it reads the policies ...
ReadPolicies(o) ==
    /\ session[o].conn = "connected" /\ Unlocked
    /\ attempted' = attempted \ {session[o].id}
    /\ session' = [session EXCEPT ![o] =
          IF Managed(o) THEN [session[o] EXCEPT !.conn = "send", !.read = pols]
          ELSE Settled(o, [session[o] EXCEPT !.conn = "ended"])]
    /\ UNCHANGED <<updateVars, present, scanner, pols, managed, stop>>

\* ... and sends them, without the mutex, ...
SendCurrent(o) ==
    /\ session[o].conn = "send"
    /\ session' = [session EXCEPT ![o] =
          [SendPolicies(session[o], session[o].read, pols)
             EXCEPT !.conn = "leases", !.read = NoPolicies]]
    /\ UNCHANGED others

\* ... and the leases, of which there are none: UpdateLeases is never called.
SendLeases(o) ==
    /\ session[o].conn = "leases"
    /\ session' = [session EXCEPT ![o] = [Send(session[o]) EXCEPT !.conn = "ended"]]
    /\ UNCHANGED others

\* An invocation tells the session that it has terminated a process.
SendProcessTermination(o) ==
    /\ Managed(o)
    /\ session' = [session EXCEPT ![o] = Send(session[o])]
    /\ UNCHANGED others

\* A message reaches the user interface.
Deliver(o) ==
    /\ session[o].ui = "running" /\ session[o].out > 0
    /\ session' = [session EXCEPT ![o].out = @ - 1]
    /\ UNCHANGED others

\* The user interface exits, at the latest when the user logs off or it is killed.
Exit(o) ==
    /\ session[o].ui = "running"
    /\ session' = [session EXCEPT ![o].ui = "exited"]
    /\ UNCHANGED others

\* Mutant: Disconnect keeps s.mutex while it waits.
WaitLocked(o) ==
    /\ session[o].ui = "exited" /\ ~session[o].disconnect
    /\ session' = [session EXCEPT ![o].ui = "none"]
    /\ UNCHANGED others

\* cmd.Wait returns; the goroutine takes s.mutex, and closes the stopped channel.
Wait(o) ==
    /\ session[o].ui = "exited"
    /\ session' = [session EXCEPT ![o].ui = "none"]
    /\ UNCHANGED others

\* Disconnect kills the process ...
Kill(o) ==
    /\ session[o].disconnect /\ session[o].ui = "running"
    /\ session' = [session EXCEPT ![o].ui = "exited"]
    /\ UNCHANGED others

\* ... and waits for the stopped channel.  Without a connection it fails at once.
Disconnected(o) ==
    /\ session[o].disconnect /\ session[o].ui = "none"
    /\ session' = [session EXCEPT ![o] = Settled(o, [session[o] EXCEPT !.disconnect = FALSE])]
    /\ UNCHANGED others

-----------------------------------------------------------------------------
(* The end of Service.run, which waits for the other goroutines. *)

StopSessions ==
    /\ updater = "ended" /\ scanner.at = "ended" /\ stop = "off"
    /\ stop' = "next"
    /\ UNCHANGED <<updateVars, present, scanner, pols, managed, attempted, session>>

\* SessionManager.Stop disconnects one session after the other ...
StopSession(id) ==
    /\ stop = "next" /\ managed[id] # None
    /\ session' = [session EXCEPT ![managed[id]] = Abandoned(managed[id])]
    /\ managed' = [managed EXCEPT ![id] = None]
    /\ stop' = managed[id]
    /\ UNCHANGED <<updateVars, present, scanner, pols, attempted>>

StopNext ==
    /\ stop \in Objects /\ ~session[stop].disconnect
    /\ stop' = "next"
    /\ UNCHANGED <<updateVars, present, scanner, pols, managed, attempted, session>>

ServiceStopped ==
    /\ stop = "next" /\ \A id \in SessionIDs : managed[id] = None
    /\ RunReturns
    /\ stop' = "off"
    /\ scanner' = [at |-> "off", read |-> NoPolicies]
    /\ UNCHANGED <<present, pols, managed, attempted, session>>

\* With the process its user interfaces end, whose input is closed.
Crash ==
    /\ CrashService
    /\ pols' = NoPolicies /\ attempted' = {} /\ stop' = "off"
    /\ scanner' = [at |-> "off", read |-> NoPolicies]
    /\ managed' = [id \in SessionIDs |-> None]
    /\ session' = [o \in Objects |-> NoSession]
    /\ UNCHANGED present

LogOn(id) ==
    /\ id \notin present
    /\ present' = present \cup {id}
    /\ UNCHANGED <<updateVars, scanner, pols, managed, attempted, session, stop>>

LogOff(id) ==
    /\ id \in present
    /\ present' = present \ {id}
    /\ session' = [o \in Objects |->
                      IF session[o].id = id /\ session[o].ui = "running"
                      THEN [session[o] EXCEPT !.ui = "exited"] ELSE session[o]]
    /\ UNCHANGED <<updateVars, scanner, pols, managed, attempted, stop>>

-----------------------------------------------------------------------------
PolicyGoroutine == (Updates /\ UNCHANGED sessionVars) \/ Push

UpdaterEnd == UpdaterEnds /\ UNCHANGED sessionVars

SessionGoroutine == Prime \/ Primed \/ \E waiting \in SUBSET attempted : Scan(waiting)

Connecting(o) ==
    \/ Connect(o) \/ ConnectFails(o) \/ ForgetFailed(o) \/ ReadPolicies(o)
    \/ SendCurrent(o) \/ SendLeases(o)

Disconnecting(o) == Wait(o) \/ Kill(o) \/ Disconnected(o)

Stopping ==
    StopSessions \/ StopNext \/ ServiceStopped \/ \E id \in SessionIDs : StopSession(id)

Next ==
    \/ PolicyGoroutine \/ UpdaterEnd \/ SessionGoroutine \/ ScannerEnds \/ Stopping \/ Crash
    \/ (StartService \/ StopService) /\ UNCHANGED sessionVars
    \/ \E o \in Objects :
         Connecting(o) \/ SendProcessTermination(o) \/ Deliver(o) \/ Exit(o) \/ Disconnecting(o)
    \/ \E id \in SessionIDs : LogOn(id) \/ LogOff(id)

Spec == Init /\ [][Next]_vars

(* The goroutines run and their updates end; a select takes the shutdown    *)
(* channel when it comes up again and again; the wait after a failed        *)
(* connection ends; a user interface that is started again and again starts *)
(* at last, before the next scan in five seconds, and ends when it is       *)
(* killed.                                                                  *)
Fairness ==
    /\ WF_vars((FirstUpdateReturns \/ UpdateReturns) /\ UNCHANGED sessionVars) /\ WF_vars(Push) /\ SF_vars(UpdaterEnd)
    /\ WF_vars(SessionGoroutine) /\ SF_vars(Scan({})) /\ SF_vars(ScannerEnds)
    /\ WF_vars(Stopping)
    /\ \A o \in Objects :
         WF_vars(Connecting(o)) /\ SF_vars(Managed(o) /\ Connect(o)) /\ WF_vars(Disconnecting(o))

FairSpec == Spec /\ Fairness

-----------------------------------------------------------------------------
(* Properties *)

\* Every variable has its type, and no channel holds more than its capacity.
TypeOK ==
    /\ policies \in PolicySets /\ pols \in PolicySets
    /\ service \in {"running", "stopping", "stopped"}
    /\ updater \in {"off", "starting", "updating", "changed", "push", "ended"}
    /\ present \subseteq SessionIDs /\ attempted \subseteq SessionIDs
    /\ scanner \in [at : {"off", "prime", "scan", "select", "ended"}, read : PolicySets]
    /\ managed \in [SessionIDs -> Objects \cup {None}]
    /\ stop \in {"off", "next"} \cup Objects
    /\ session \in [Objects ->
          [id : SessionIDs \cup {None},
           conn : {"free", "start", "connected", "failed", "send", "leases", "ended"},
           read : PolicySets, ui : {"none", "running", "exited"}, out : 0..Buffer,
           sent : PolicySets, disconnect : BOOLEAN, stale : BOOLEAN]]

\* A connected session has the session manager's policies, or they are in its
\* channel, whenever they changed: before its user interface started, while it
\* did, or later.  The exceptions are a full channel and an update between the
\* moments at which its goroutine reads the policies and sends them
\* (sessionmanager_windows.go:120-141, 150-159).
SessionsUpToDate ==
    \A id \in SessionIDs :
        LET s == session[managed[id]]
        IN  managed[id] # None /\ s.ui # "none" /\ s.conn \in {"leases", "ended"} /\ ~s.stale => s.sent = pols

\* Service.Stop returns, although it waits for the goroutines, and Disconnect
\* for the user interface of every session (sessionmanager_windows.go:184).
StopReturns == service = "stopping" ~> service = "stopped"

\* A user who stays logged on while the service runs gets a user interface, again
\* and again, however often it fails to start or exits
\* (sessionmanager_windows.go:80-102, 215-237).
InterfaceReturns ==
    \A id \in SessionIDs :
        <>[](id \in present /\ service = "running")
            => []<>(managed[id] # None /\ session[managed[id]].ui # "none")
=============================================================================
