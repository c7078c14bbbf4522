--------------------------- MODULE LeaseMaintainer ---------------------------
(***************************************************************************)
(* guardian.LeaseMaintainer with an owner that uses it as the runner and   *)
(* the enforcer's invocations do: one goroutine (main) calls Acquire and   *)
(* Listen and drains the listener's channel, another (stopper) calls       *)
(* Release or Stop, and then Close.  The maintainer runs two goroutines of *)
(* its own: run, and one (fwd) that turns the shutdown channel into the    *)
(* cancellation of requests.  Listen starts a goroutine that sends the     *)
(* current state.                                                          *)
(*                                                                         *)
(* The guardian server is external: a request reaches it or not, and is    *)
(* carried out at some time, also after the client gave up waiting.        *)
(***************************************************************************)
EXTENDS Naturals, Sequences

CONSTANTS
    None,      \* nobody holds the mutex
    Buffer,    \* capacity of the listener's channel (1 in the repository)
    MaxStates  \* bound: acquisitions whose result is sent to the listener

ASSUME MaintainerConstants ==
    /\ Buffer \in Nat \ {0} /\ MaxStates \in Nat
    /\ None \notin {"main", "stopper", "run", "listen"}

VARIABLES
    main,      \* where the owner's first goroutine is
    stopper,   \* where the owner's second goroutine is
    release,   \* what the stopper passes on: release before shutdown
    run,       \* where the run goroutine is
    fwd,       \* where the forwarding goroutine is
    cancelled, \* the context of acquisitions is cancelled
    opMutex,   \* who holds it
    stateMutex,\* who holds it
    started,   \* lm.shutdown is not nil
    state,     \* lm.state
    listener,  \* the channel: "none", "open" or "closed", and what it holds
    request,   \* the client's request to the guardian and its answer
    tried,     \* the client's call has failed over to another guardian
    granted,   \* the guardian holds a lease for the instance
    late,      \* requests the client gave up on that the guardian still has
    forgotten, \* the guardian may hold a lease the maintainer does not know of
    seen       \* the last acquisition the owner has seen the result of

vars == <<main, stopper, release, run, fwd, cancelled, opMutex, stateMutex, started,
          state, listener, request, tried, granted, late, forgotten, seen>>

owner  == <<main, stopper, release, seen>>
server == <<granted, late, forgotten>>
call   == <<request, tried>>

\* lm.state: n counts the acquisitions it is the result of.
States == [n : Nat, acquired : BOOLEAN, online : BOOLEAN, failed : BOOLEAN]

ZeroState == [n |-> 0, acquired |-> FALSE, online |-> FALSE, failed |-> FALSE]

Init ==
    /\ main = "new" /\ stopper = "idle" /\ release = FALSE
    /\ run = "off" /\ fwd = "off" /\ cancelled = FALSE
    /\ opMutex = None /\ stateMutex = None /\ started = FALSE
    /\ state = ZeroState
    /\ listener = [at |-> "none", buf |-> <<>>]
    /\ request = "none" /\ tried = FALSE /\ granted = FALSE
    /\ late = {} /\ forgotten = FALSE /\ seen = 0

StartCall(r) == request' = r /\ tried' = FALSE
EndCall == request' = "none" /\ tried' = FALSE

\* A send on the listener's channel.
Room == Len(listener.buf) < Buffer
Send == listener' = [listener EXCEPT !.buf = Append(@, state.n)]

-----------------------------------------------------------------------------
(* The owner's first goroutine. *)

Acquire ==
    /\ main = "new"
    /\ opMutex = None
    /\ ~started
    /\ started' = TRUE
    /\ run' = "select" /\ fwd' = "wait"
    /\ main' = "acquired"
    /\ UNCHANGED <<stopper, release, seen, cancelled, opMutex, stateMutex, state, listener,
                   call, server>>

\* Listen on a maintainer that is not started returns a closed channel.
ListenStopped ==
    /\ main = "acquired"
    /\ opMutex = None
    /\ ~started
    /\ main' = "ended"
    /\ UNCHANGED <<stopper, release, seen, run, fwd, cancelled, opMutex, stateMutex, started,
                   state, listener, call, server>>

ListenLock ==
    /\ main = "acquired"
    /\ opMutex = None
    /\ started
    /\ opMutex' = "main"
    /\ main' = "listen"
    /\ UNCHANGED <<stopper, release, seen, run, fwd, cancelled, stateMutex, started, state,
                   listener, call, server>>

\* Mutant: a new listener waits for the next acquisition.
ListenSilent ==
    /\ main = "listen"
    /\ stateMutex = None
    /\ listener' = [at |-> "open", buf |-> <<>>]
    /\ opMutex' = None
    /\ main' = "drain"
    /\ UNCHANGED <<stopper, release, seen, run, fwd, cancelled, stateMutex, started, state,
                   call, server>>

\* The current state, unless it is zero, is sent by a new goroutine, which
\* gives the mutex back.
Listen ==
    /\ main = "listen"
    /\ stateMutex = None
    /\ listener' = [at |-> "open", buf |-> <<>>]
    /\ stateMutex' = IF state = ZeroState THEN None ELSE "listen"
    /\ opMutex' = None
    /\ main' = "drain"
    /\ UNCHANGED <<stopper, release, seen, run, fwd, cancelled, started, state, call, server>>

ListenSend ==
    /\ stateMutex = "listen"
    /\ Room
    /\ Send
    /\ stateMutex' = None
    /\ UNCHANGED <<owner, run, fwd, cancelled, opMutex, started, state, call, server>>

Receive ==
    /\ main = "drain"
    /\ \/ /\ listener.buf # <<>>
          /\ seen' = Head(listener.buf)
          /\ listener' = [listener EXCEPT !.buf = Tail(@)]
          /\ UNCHANGED main
       \/ /\ listener.buf = <<>> /\ listener.at = "closed"
          /\ main' = "ended"
          /\ UNCHANGED <<seen, listener>>
    /\ UNCHANGED <<stopper, release, run, fwd, cancelled, opMutex, stateMutex, started,
                   state, call, server>>

-----------------------------------------------------------------------------
(* The owner's second goroutine: Release or Stop, then Close. *)

\* Lock and enter stop(), which fails at once if nothing is started, as it may
\* be when the owner's context ends early (runner.go:101-107).
CallStop(r) ==
    /\ stopper = "idle"
    /\ opMutex = None
    /\ release' = r
    /\ IF started THEN opMutex' = "stopper" /\ stopper' = "send"
                  ELSE UNCHANGED opMutex /\ stopper' = "close"
    /\ UNCHANGED <<main, seen, run, fwd, cancelled, stateMutex, started, state, listener,
                   call, server>>

\* shutdown <- release, received by the forwarding goroutine.
StopSend ==
    /\ stopper \in {"send", "closeSend"}
    /\ fwd = "wait"
    /\ fwd' = "pass"
    /\ stopper' = IF stopper = "send" THEN "wait" ELSE "closeWait"
    /\ UNCHANGED <<main, release, seen, run, cancelled, opMutex, stateMutex, started, state,
                   listener, call, server>>

\* <-lm.stopped; then Release and Stop return, and Close goes on.
StopWait ==
    /\ stopper \in {"wait", "closeWait"}
    /\ run = "stopped"
    /\ run' = "off"
    /\ started' = FALSE
    /\ state' = [state EXCEPT !.online = FALSE]
    /\ IF stopper = "wait" THEN stopper' = "close" /\ opMutex' = None
                           ELSE stopper' = "closing" /\ UNCHANGED opMutex
    /\ UNCHANGED <<main, release, seen, fwd, cancelled, stateMutex, listener, call, server>>

\* Mutant: Close takes the state mutex before it stops the run goroutine.
CallCloseLocked ==
    /\ stopper \in {"idle", "close"}
    /\ opMutex = None /\ stateMutex = None
    /\ opMutex' = "stopper" /\ stateMutex' = "stopper"
    /\ release' = FALSE
    /\ stopper' = IF started THEN "closeSend" ELSE "closing"
    /\ UNCHANGED <<main, seen, run, fwd, cancelled, started, state, listener, call, server>>

CallClose ==
    /\ stopper \in {"idle", "close"}
    /\ opMutex = None
    /\ opMutex' = "stopper"
    /\ release' = IF started THEN FALSE ELSE release
    /\ stopper' = IF started THEN "closeSend" ELSE "closing"
    /\ UNCHANGED <<main, seen, run, fwd, cancelled, stateMutex, started, state, listener,
                   call, server>>

\* Mutant: the listeners are closed without the state mutex.
CloseUnlocked ==
    /\ stopper = "closing"
    /\ listener' = [listener EXCEPT !.at = IF @ = "open" THEN "closed" ELSE @]
    /\ opMutex' = None
    /\ stopper' = "ended"
    /\ UNCHANGED <<main, release, seen, run, fwd, cancelled, stateMutex, started, state,
                   call, server>>

\* Mutant: the channels of the listeners are dropped and not closed.
CloseDrops ==
    /\ stopper = "closing"
    /\ stateMutex = None
    /\ opMutex' = None
    /\ stopper' = "ended"
    /\ UNCHANGED <<main, release, seen, run, fwd, cancelled, stateMutex, started, state,
                   listener, call, server>>

Close ==
    /\ stopper = "closing"
    /\ stateMutex = None
    /\ listener' = [listener EXCEPT !.at = IF @ = "open" THEN "closed" ELSE @]
    /\ opMutex' = None
    /\ stopper' = "ended"
    /\ UNCHANGED <<main, release, seen, run, fwd, cancelled, stateMutex, started, state,
                   call, server>>

-----------------------------------------------------------------------------
(* The forwarding goroutine and run. *)

\* release := <-upstream; downstream <- release
Pass ==
    /\ fwd = "pass"
    /\ fwd' = "passed"
    /\ UNCHANGED <<owner, run, cancelled, opMutex, stateMutex, started, state, listener,
                   call, server>>

Cancel ==
    /\ fwd = "passed"
    /\ fwd' = "off"
    /\ cancelled' = TRUE
    /\ UNCHANGED <<owner, run, opMutex, stateMutex, started, state, listener, call, server>>

Received == fwd = "passed" \/ cancelled

\* select: the timer has fired ...
Timer ==
    /\ run = "select"
    /\ state.n < MaxStates
    /\ run' = "acquire"
    /\ UNCHANGED <<owner, fwd, cancelled, opMutex, stateMutex, started, state, listener,
                   call, server>>

\* ... or the shutdown value has arrived.
Shutdown ==
    /\ run = "select"
    /\ Received
    /\ run' = IF release THEN "release" ELSE "stopped"
    /\ UNCHANGED <<owner, fwd, cancelled, opMutex, stateMutex, started, state, listener,
                   call, server>>

AcquireSend ==
    /\ run = "acquire"
    /\ stateMutex = None
    /\ stateMutex' = "run"
    /\ run' = "acquiring"
    /\ StartCall("acquire")
    /\ UNCHANGED <<owner, fwd, cancelled, opMutex, started, state, listener, server>>

\* client.Acquire returns with a lease or with ErrLeaseNotRequired ...  A lease
\* makes good whatever the client gave up on before, unless that is still to
\* be carried out.
AcquireAnswer ==
    /\ run = "acquiring"
    /\ request \in {"leased", "notRequired"}
    /\ forgotten' = IF request = "leased" THEN "acquire" \in late ELSE forgotten
    /\ state' = [n |-> state.n + 1, acquired |-> (request = "leased"), online |-> TRUE,
                 failed |-> FALSE]
    /\ EndCall
    /\ run' = "broadcast"
    /\ UNCHANGED <<owner, fwd, cancelled, opMutex, stateMutex, started, listener, granted, late>>

FailedAcquire ==
    /\ run = "acquiring"
    /\ state' = [state EXCEPT !.n = @ + 1, !.online = FALSE, !.failed = TRUE]
    /\ EndCall
    /\ run' = "broadcast"
    /\ UNCHANGED <<owner, fwd, cancelled, opMutex, stateMutex, started, listener, granted>>

\* ... or with an error: the guardian was not reached ...
AcquireUnreached ==
    /\ request = "acquire"
    /\ FailedAcquire
    /\ UNCHANGED <<late, forgotten>>

\* ... or the client gave up, on its timeout or because it was cancelled, with
\* the request on its way, being carried out or answered.
AcquireAbandoned ==
    /\ FailedAcquire
    /\ late' = IF request = "acquire" THEN late \cup {"acquire"} ELSE late
    /\ forgotten' = (forgotten \/ request # "notRequired")

\* Send the state to the listener, holding the mutex.
Broadcast ==
    /\ run = "broadcast"
    /\ IF listener.at = "open" THEN Room /\ Send ELSE UNCHANGED listener
    /\ stateMutex' = None
    /\ run' = "select"
    /\ UNCHANGED <<owner, fwd, cancelled, opMutex, started, state, call, server>>

\* Mutant: only an online maintainer asks the guardian to release.
ReleaseOnline ==
    /\ run = "release"
    /\ stateMutex = None
    /\ IF state.acquired /\ state.online
       THEN stateMutex' = "run" /\ StartCall("release") /\ run' = "releasing"
            /\ UNCHANGED state
       ELSE state' = [state EXCEPT !.acquired = FALSE, !.online = FALSE, !.failed = FALSE]
            /\ run' = "stopped" /\ UNCHANGED <<stateMutex, call>>
    /\ UNCHANGED <<owner, fwd, cancelled, opMutex, started, listener, server>>

Release ==
    /\ run = "release"
    /\ stateMutex = None
    /\ IF state.acquired
       THEN stateMutex' = "run" /\ StartCall("release") /\ run' = "releasing"
            /\ UNCHANGED state
       ELSE state' = [state EXCEPT !.acquired = FALSE, !.online = FALSE, !.failed = FALSE]
            /\ run' = "stopped" /\ UNCHANGED <<stateMutex, call>>
    /\ UNCHANGED <<owner, fwd, cancelled, opMutex, started, listener, server>>

ReleaseAnswer ==
    /\ run = "releasing"
    /\ request = "released"
    /\ state' = [state EXCEPT !.acquired = FALSE, !.online = FALSE, !.failed = FALSE]
    /\ EndCall /\ stateMutex' = None /\ run' = "stopped"
    /\ UNCHANGED <<owner, fwd, cancelled, opMutex, started, listener, server>>

\* The guardian is not reached, or does not answer within ten seconds.
ReleaseFails ==
    /\ run = "releasing"
    /\ state' = [state EXCEPT !.failed = TRUE]
    /\ EndCall /\ stateMutex' = None /\ run' = "stopped"
    /\ late' \in {late, IF request = "release" THEN late \cup {"release"} ELSE late}
    /\ UNCHANGED <<owner, fwd, cancelled, opMutex, started, listener, granted, forgotten>>

\* The client repeats a request that failed on another guardian, once.  The
\* first was not sent, or its connection broke with the request on its way,
\* being carried out or answered; that no lease is required counts as failing.
Failover ==
    LET r == IF run = "acquiring" THEN "acquire" ELSE "release"
    IN  /\ run \in {"acquiring", "releasing"}
        /\ ~tried /\ (run = "acquiring" => ~cancelled)
        /\ request' = r /\ tried' = TRUE
        /\ \/ request = r /\ UNCHANGED <<late, forgotten>>
           \/ /\ late' = IF request = r THEN late \cup {r} ELSE late
              /\ forgotten' = (forgotten \/ (r = "acquire" /\ request # "notRequired"))
        /\ UNCHANGED <<owner, run, fwd, cancelled, opMutex, stateMutex, started, state,
                       listener, granted>>

-----------------------------------------------------------------------------
(* The guardian server. *)

local == <<owner, run, fwd, cancelled, opMutex, stateMutex, started, state, listener>>

\* When no policy asks for a lease any more, an earlier lease is left alone.
ServeAcquire ==
    /\ request = "acquire"
    /\ \/ request' = "leased" /\ granted' = TRUE /\ UNCHANGED forgotten
       \/ request' = "notRequired" /\ UNCHANGED granted /\ forgotten' = (forgotten \/ granted)
    /\ UNCHANGED <<local, tried, late>>

ServeRelease ==
    /\ request = "release"
    /\ request' = "released"
    /\ granted' = FALSE
    /\ UNCHANGED <<local, tried, late, forgotten>>

\* A request is carried out that nobody waits for any more.
ServeLate(r) ==
    /\ r \in late
    /\ late' = late \ {r}
    /\ granted' = (r = "acquire")
    /\ UNCHANGED <<local, call, forgotten>>

\* The lease expires at the guardian.
Expire ==
    /\ granted
    /\ granted' = FALSE
    /\ UNCHANGED <<local, call, late, forgotten>>

-----------------------------------------------------------------------------
Main == Acquire \/ ListenStopped \/ ListenLock \/ Listen \/ Receive

Stopper == StopSend \/ StopWait \/ Close \/ (stopper = "close" /\ CallClose)

Forward == Pass \/ Cancel

Running == AcquireSend \/ AcquireAnswer \/ AcquireUnreached \/ AcquireAbandoned
           \/ Failover \/ Broadcast \/ Release \/ ReleaseAnswer \/ ReleaseFails

Guardian == ServeAcquire \/ ServeRelease \/ Expire \/ \E r \in late : ServeLate(r)

Next ==
    \/ Main \/ ListenSend
    \/ \E r \in BOOLEAN : CallStop(r)
    \/ (stopper = "idle" /\ CallClose) \/ Stopper
    \/ Forward \/ Timer \/ Shutdown \/ Running
    \/ Guardian

Spec == Init /\ [][Next]_vars

(* The goroutines run; a request ends, at the latest with its timeout; Go's *)
(* mutexes starve nobody; select takes the shutdown value when it comes up  *)
(* again and again; the owner drains its channel (maintainer.go:160).       *)
Fairness ==
    /\ WF_vars(ListenSend) /\ WF_vars(Forward)
    /\ SF_vars(Main) /\ SF_vars(Stopper) /\ SF_vars(Shutdown) /\ SF_vars(Running)

FairSpec == Spec /\ Fairness

-----------------------------------------------------------------------------
(* Properties *)

\* Every variable has its type, and the listener's channel never holds more
\* states than its buffer (maintainer.go:170).
TypeOK ==
    /\ main \in {"new", "acquired", "listen", "drain", "ended"}
    /\ stopper \in {"idle", "send", "wait", "close", "closeSend", "closeWait", "closing", "ended"}
    /\ run \in {"off", "select", "acquire", "acquiring", "broadcast", "release",
                "releasing", "stopped"}
    /\ fwd \in {"off", "wait", "pass", "passed"}
    /\ opMutex \in {None, "main", "stopper"}
    /\ stateMutex \in {None, "run", "listen", "stopper"}
    /\ state \in States /\ seen \in Nat
    /\ listener \in [at : {"none", "open", "closed"}, buf : Seq(Nat)]
    /\ Len(listener.buf) <= Buffer
    /\ request \in {"none", "acquire", "leased", "notRequired", "release", "released"}
    /\ late \subseteq {"acquire", "release"}
    /\ release \in BOOLEAN /\ cancelled \in BOOLEAN /\ started \in BOOLEAN
    /\ tried \in BOOLEAN /\ granted \in BOOLEAN /\ forgotten \in BOOLEAN

\* Nobody sends on a channel that Close has closed, which would panic.
NoSendOnClosed ==
    run = "broadcast" \/ stateMutex = "listen" => listener.at # "closed"

\* The owner never keeps an outdated state: when nobody is about to send, what
\* it received or finds in its channel ends with the last acquisition's result,
\* also when it began to listen later (maintainer.go:157).
ListenerUpToDate ==
    stateMutex = None /\ main = "drain"
        => state.n = IF listener.buf = <<>> THEN seen ELSE listener.buf[Len(listener.buf)]

\* Release has returned, and its request did not fail.
Released == release /\ ~started /\ stopper \in {"close", "closing", "ended"} /\ ~state.failed

\* A Release that succeeded leaves the guardian without a lease, whatever
\* acquisitions failed or were repeated before, unless the client gave up on one
\* that the guardian received, or was told that it needs no lease while it had
\* one, and was granted none since with nothing left to be carried out
\* (maintainer.go:260-281).
ReleasedUnlessForgotten == Released /\ ~forgotten => ~granted

\* Release, Stop and Close return, although they wait for run, which waits for
\* the guardian, the mutexes and the listener (maintainer.go:101-135).
StopReturns == stopper # "idle" ~> stopper = "ended"

\* Close has returned before the owner called Acquire.
ClosedEarly == stopper = "ended" /\ main = "new"

\* Once somebody stops the maintainer the owner's channel is closed, so that its
\* loop ends (maintainer.go:166, runner.go:115).  It is not when Release and Close
\* both return before Acquire is called, which the runner allows when its context
\* ends early (runner.go:101-107): then nobody stops what Acquire starts.
OwnerEnds == stopper \notin {"idle", "ended"} ~> main = "ended" \/ ClosedEarly
=============================================================================
