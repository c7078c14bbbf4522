------------------------ MODULE LeaseMaintainerProofs ------------------------
(***************************************************************************)
(* Proofs about the lease maintainer, for any capacity of the listener's   *)
(* channel and any number of acquisitions: the types, that nobody sends on *)
(* a closed channel, that the owner is up to date and that what is known   *)
(* of is released.                                                         *)
(***************************************************************************)
EXTENDS LeaseMaintainer, TLAPS

\* The stopper waits for run to end.
Waiting == {"wait", "closeWait"}

-----------------------------------------------------------------------------
(* The inductive invariant. *)

\* Who holds the mutexes: stop, Close and Listen hold opMutex, an acquisition
\* and a release of run hold stateMutex.
Mutexes ==
    /\ stopper \in Waiting \cup {"send", "closeSend", "closing"} => opMutex = "stopper"
    /\ main = "listen" => opMutex = "main"
    /\ run \in {"acquiring", "broadcast", "releasing"} => stateMutex = "run"

\* A maintainer is started once, and run is there only while it is started.
Started ==
    /\ main = "new" => ~started /\ state = ZeroState /\ fwd = "off" /\ ~cancelled
    /\ ~started => run = "off"
    /\ ~started /\ stopper = "idle" => main = "new"
    /\ stopper \in Waiting \cup {"send", "closeSend"} => started
    /\ stopper = "closing" => ~started

\* Run is told to end only by a stopper that waits for it.
Told ==
    /\ run # "off" /\ (fwd \in {"pass", "passed"} \/ cancelled) => stopper \in Waiting
    /\ run \in {"release", "releasing", "stopped"} => stopper \in Waiting

\* The listener's channel is opened once, and closed when run is gone.
Channel ==
    /\ main \in {"new", "acquired", "listen"} => listener.at = "none"
    /\ main = "drain" => listener.at # "none"
    /\ stateMutex = "listen" => listener.at = "open"
    /\ listener.at = "closed" => run = "off" /\ main \in {"drain", "ended"}

\* Where the goroutines are.
Control == Mutexes /\ Started /\ Told /\ Channel

\* What the owner received last, or will.
Last == IF listener.buf = <<>> THEN seen ELSE listener.buf[Len(listener.buf)]

\* The owner has the last state unless it is about to be sent.
Sent ==
    /\ main \in {"new", "acquired", "listen"} => seen = 0
    /\ main = "drain" /\ run # "broadcast" /\ stateMutex # "listen" => state.n = Last

\* A request is there only while run waits for its answer.
Requests ==
    /\ request \in {"acquire", "leased", "notRequired"} => run = "acquiring"
    /\ request \in {"release", "released"} => run = "releasing"

\* As long as nothing is forgotten, the maintainer knows of the guardian's lease.
Known ==
    ~forgotten =>
        /\ "acquire" \notin late
        /\ granted => state.acquired \/ request = "leased"
        /\ request \in {"notRequired", "released"} => ~granted

\* A release that has ended left nothing, or failed.
Ended ==
    /\ stopper = "idle" => ~release
    /\ release /\ (run = "stopped" \/ (~started /\ stopper \in {"close", "closing", "ended"}))
         => ~state.acquired \/ state.failed

\* The invariant behind ReleasedUnlessForgotten.
ReleaseInv == Requests /\ Known /\ Ended

\* The flags.
Flags ==
    /\ release \in BOOLEAN /\ cancelled \in BOOLEAN /\ started \in BOOLEAN
    /\ tried \in BOOLEAN /\ granted \in BOOLEAN /\ forgotten \in BOOLEAN

\* Where everybody is, and what is under way.
Places ==
    /\ main \in {"new", "acquired", "listen", "drain", "ended"}
    /\ stopper \in {"idle", "send", "wait", "close", "closeSend", "closeWait", "closing", "ended"}
    /\ run \in {"off", "select", "acquire", "acquiring", "broadcast", "release",
                "releasing", "stopped"}
    /\ fwd \in {"off", "wait", "pass", "passed"}
    /\ opMutex \in {None, "main", "stopper"}
    /\ stateMutex \in {None, "run", "listen", "stopper"}
    /\ request \in {"none", "acquire", "leased", "notRequired", "release", "released"}
    /\ late \subseteq {"acquire", "release"}

\* The state and the listener.
Values ==
    /\ state \in States /\ seen \in Nat
    /\ listener \in [at : {"none", "open", "closed"}, buf : Seq(Nat)]
    /\ Len(listener.buf) <= Buffer

\* These are the types.
LEMMA TypeParts == TypeOK <=> Flags /\ Places /\ Values
BY DEF TypeOK, Flags, Places, Values

\* The types and the control, which every proof below rests on.
IInv == TypeOK /\ Control

\* Before anything is started everything holds.
LEMMA InvariantInit == Init => IInv /\ Sent /\ ReleaseInv
<1> SUFFICES ASSUME Init PROVE IInv /\ Sent /\ ReleaseInv
  OBVIOUS
<1>1. TypeOK
  <2>1. Flags
    BY Zenon DEF Init, Flags
  <2>2. Places
    BY DEF Init, Places
  <2>3. state \in States /\ seen \in Nat
    BY DEF Init, States, ZeroState
  <2>4. /\ listener \in [at : {"none", "open", "closed"}, buf : Seq(Nat)]
        /\ Len(listener.buf) <= Buffer
    BY MaintainerConstants DEF Init
  <2> QED
    BY <2>1, <2>2, <2>3, <2>4, TypeParts DEF Values
<1>2. Control
  BY MaintainerConstants DEF Init, Control, Mutexes, Started, Told, Channel, Waiting
<1>3. Sent
  BY DEF Init, Sent
<1>4. ReleaseInv
  BY DEF Init, ReleaseInv, Requests, Known, Ended, ZeroState
<1> QED
  BY <1>1, <1>2, <1>3, <1>4 DEF IInv

-----------------------------------------------------------------------------
(* The control. *)

\* The owner's first goroutine keeps the control.
LEMMA MainControl == IInv /\ (Main \/ ListenSend) => Control'
<1> SUFFICES ASSUME IInv, Main \/ ListenSend PROVE Control'
  OBVIOUS
<1> USE MaintainerConstants DEF IInv, Control, Mutexes, Started, Told, Channel, Waiting, TypeOK
<1>1. CASE Acquire
  BY <1>1 DEF Acquire, call, server
<1>2. CASE ListenStopped
  BY <1>2 DEF ListenStopped, call, server
<1>3. CASE ListenLock
  BY <1>3 DEF ListenLock, call, server
<1>4. CASE Listen
  BY <1>4 DEF Listen, call, server
<1>5. CASE Receive
  BY <1>5 DEF Receive, call, server
<1>6. CASE ListenSend
  BY <1>6 DEF ListenSend, Send, owner, call, server
<1> QED
  BY <1>1, <1>2, <1>3, <1>4, <1>5, <1>6 DEF Main

\* So does the one that stops.
LEMMA StopperControl ==
    IInv /\ ((\E r \in BOOLEAN : CallStop(r)) \/ CallClose \/ StopSend \/ StopWait \/ Close)
        => Control'
<1> SUFFICES ASSUME IInv,
                    (\E r \in BOOLEAN : CallStop(r)) \/ CallClose \/ StopSend \/ StopWait \/ Close
             PROVE Control'
  OBVIOUS
<1> USE MaintainerConstants DEF IInv, Control, Mutexes, Started, Told, Channel, Waiting, TypeOK
<1>1. CASE \E r \in BOOLEAN : CallStop(r)
  BY <1>1 DEF CallStop, call, server
<1>2. CASE CallClose
  BY <1>2 DEF CallClose, call, server
<1>3. CASE StopSend
  BY <1>3 DEF StopSend, call, server
<1>4. CASE StopWait
  BY <1>4 DEF StopWait, call, server
<1>5. CASE Close
  BY <1>5 DEF Close, call, server
<1> QED
  BY <1>1, <1>2, <1>3, <1>4, <1>5

\* So do the maintainer's goroutines.
LEMMA RunControl == IInv /\ (Forward \/ Timer \/ Shutdown \/ Running) => Control'
<1> SUFFICES ASSUME IInv, Forward \/ Timer \/ Shutdown \/ Running PROVE Control'
  OBVIOUS
<1> USE MaintainerConstants DEF IInv, Control, Mutexes, Started, Told, Channel, Waiting, TypeOK
<1>1. CASE Forward
  BY <1>1 DEF Forward, Pass, Cancel, owner, call, server
<1>2. CASE Timer \/ Shutdown
  BY <1>2 DEF Timer, Shutdown, Received, owner, call, server
<1>3. CASE AcquireSend
  BY <1>3 DEF AcquireSend, StartCall, owner, server
<1>4. CASE AcquireAnswer
  BY <1>4 DEF AcquireAnswer, EndCall, owner, server
<1>5. CASE AcquireUnreached \/ AcquireAbandoned
  BY <1>5 DEF AcquireUnreached, AcquireAbandoned, FailedAcquire, EndCall, owner
<1>6. CASE Broadcast
  BY <1>6 DEF Broadcast, Send, owner, call, server
<1>7. CASE Release
  BY <1>7 DEF Release, StartCall, owner, call, server
<1>8. CASE ReleaseAnswer \/ ReleaseFails
  BY <1>8 DEF ReleaseAnswer, ReleaseFails, EndCall, owner, server
<1>9. CASE Failover
  BY <1>9 DEF Failover, owner
<1> QED
  BY <1>1, <1>2, <1>3, <1>4, <1>5, <1>6, <1>7, <1>8, <1>9 DEF Running

\* The guardian has no part in it.
LEMMA GuardianControl == IInv /\ (Guardian \/ UNCHANGED vars) => Control'
<1> SUFFICES ASSUME IInv, Guardian \/ UNCHANGED vars PROVE Control'
  OBVIOUS
<1>1. UNCHANGED local
  BY DEF Guardian, ServeAcquire, ServeRelease, ServeLate, Expire, local, owner, vars
<1> QED
  BY <1>1 DEF IInv, Control, Mutexes, Started, Told, Channel, local, owner

-----------------------------------------------------------------------------
(* The types. *)

\* A state that is sent and received keeps the channel's type, and does not
\* exceed its capacity if there was room.
LEMMA ChannelTypes ==
    ASSUME TypeOK
    PROVE  /\ Room /\ Send => /\ listener' \in [at : {"none", "open", "closed"}, buf : Seq(Nat)]
                              /\ Len(listener'.buf) <= Buffer
                              /\ listener'.at = listener.at
                              /\ listener'.buf # <<>>
                              /\ listener'.buf[Len(listener'.buf)] = state.n
           /\ listener.buf # <<>> /\ listener' = [listener EXCEPT !.buf = Tail(@)] =>
                 /\ Head(listener.buf) \in Nat
                 /\ listener' \in [at : {"none", "open", "closed"}, buf : Seq(Nat)]
                 /\ Len(listener'.buf) <= Buffer
                 /\ listener'.at = listener.at
                 /\ listener'.buf = <<>> => Head(listener.buf) = listener.buf[Len(listener.buf)]
                 /\ listener'.buf # <<>> =>
                       listener'.buf[Len(listener'.buf)] = listener.buf[Len(listener.buf)]
<1> DEFINE b == listener.buf
<1>1. b \in Seq(Nat) /\ Len(b) <= Buffer /\ Buffer \in Nat /\ state.n \in Nat
  BY MaintainerConstants DEF TypeOK, States
<1>2. /\ Append(b, state.n) \in Seq(Nat) /\ Len(Append(b, state.n)) = Len(b) + 1
      /\ Append(b, state.n) # <<>> /\ Append(b, state.n)[Len(b) + 1] = state.n
      /\ Len(b) \in Nat
  BY <1>1
<1>3. ASSUME b # <<>>
      PROVE  /\ Head(b) \in Nat /\ Tail(b) \in Seq(Nat) /\ Len(Tail(b)) = Len(b) - 1
             /\ Tail(b) = <<>> => Head(b) = b[Len(b)]
             /\ Tail(b) # <<>> => Tail(b)[Len(Tail(b))] = b[Len(b)]
  <2>1. /\ Head(b) \in Nat /\ Head(b) = b[1] /\ Tail(b) \in Seq(Nat)
        /\ Len(b) \in Nat \ {0} /\ Len(Tail(b)) = Len(b) - 1
    BY <1>1, <1>3
  <2>2. Tail(b) # <<>> => Len(Tail(b)) \in 1..Len(Tail(b)) /\ Tail(b)[Len(Tail(b))] = b[Len(b)]
    BY <1>1, <2>1
  <2>3. ASSUME Tail(b) = <<>> PROVE Len(b) = 1
    <3>1. \A t \in Seq(Nat) : t = <<>> => Len(t) = 0
      OBVIOUS
    <3>2. Len(Tail(b)) = 0
      BY <2>1, <2>3, <3>1, Zenon
    <3> QED
      BY <2>1, <3>2
  <2> QED
    BY <2>1, <2>2, <2>3
<1>4. ASSUME Room, Send
      PROVE  /\ listener'.buf = Append(b, state.n) /\ listener'.at = listener.at
             /\ listener' \in [at : {"none", "open", "closed"}, buf : Seq(Nat)]
             /\ Len(b) + 1 <= Buffer
  <2>1. listener' = [listener EXCEPT !.buf = Append(b, state.n)]
    BY <1>4 DEF Send
  <2>2. Len(b) + 1 <= Buffer
    BY <1>1, <1>2, <1>4 DEF Room
  <2> HIDE DEF b
  <2> QED
    BY <1>2, <2>1, <2>2 DEF TypeOK
<1>5. ASSUME listener' = [listener EXCEPT !.buf = Tail(@)], b # <<>>
      PROVE  /\ listener'.buf = Tail(b) /\ listener'.at = listener.at
             /\ listener' \in [at : {"none", "open", "closed"}, buf : Seq(Nat)]
  BY <1>3, <1>5 DEF TypeOK
<1>6. Len(b) \in Nat
  BY <1>2
<1> HIDE DEF b
<1>7. ASSUME Room, Send
      PROVE  /\ listener' \in [at : {"none", "open", "closed"}, buf : Seq(Nat)]
             /\ Len(listener'.buf) <= Buffer
             /\ listener'.at = listener.at /\ listener'.buf # <<>>
             /\ listener'.buf[Len(listener'.buf)] = state.n
  BY <1>2, <1>4, <1>7
<1>8. ASSUME listener' = [listener EXCEPT !.buf = Tail(@)], b # <<>>
      PROVE  /\ Head(b) \in Nat
             /\ listener' \in [at : {"none", "open", "closed"}, buf : Seq(Nat)]
             /\ Len(listener'.buf) <= Buffer
             /\ listener'.at = listener.at
             /\ listener'.buf = <<>> => Head(b) = b[Len(b)]
             /\ listener'.buf # <<>> => listener'.buf[Len(listener'.buf)] = b[Len(b)]
  <2>1. listener'.buf = Tail(b)
    BY <1>5, <1>8
  <2>2. Len(Tail(b)) = Len(b) - 1
    BY <1>3, <1>8
  <2>3. Len(listener'.buf) <= Buffer
    BY <1>1, <1>6, <2>1, <2>2
  <2> QED
    BY <1>3, <1>5, <1>8, <2>1, <2>3
<1> QED
  BY <1>7, <1>8 DEF b

\* Every step leaves flags.
LEMMA FlagsNext ==
    ASSUME TypeOK, Next
    PROVE  Flags'
<1> USE DEF Flags, call, server, owner, local
<1>0. Flags
  BY TypeParts
<1>1. CASE Main \/ ListenSend
  BY <1>0, <1>1, Zenon DEF Main, Acquire, ListenStopped, ListenLock, Listen, Receive, ListenSend
<1>2. CASE (\E r \in BOOLEAN : CallStop(r)) \/ CallClose \/ Stopper
  BY <1>0, <1>2, Zenon DEF CallStop, CallClose, Stopper, StopSend, StopWait, Close
<1>3. CASE Forward \/ Timer \/ Shutdown
  BY <1>0, <1>3, Zenon DEF Forward, Pass, Cancel, Timer, Shutdown
<1>4. CASE Running
  <2>1. CASE AcquireAnswer
    <3>1. ("acquire" \in late) \in BOOLEAN
      OBVIOUS
    <3>2. forgotten' = ("acquire" \in late) \/ forgotten' = forgotten
      BY <2>1, Zenon DEF AcquireAnswer
    <3>3. forgotten' \in BOOLEAN
      BY <1>0, <3>1, <3>2, Zenon
    <3>4. tried' = FALSE /\ UNCHANGED <<release, cancelled, started, granted>>
      BY <2>1 DEF AcquireAnswer, EndCall
    <3> QED
      BY <1>0, <3>3, <3>4, Zenon
  <2>2. CASE AcquireSend \/ AcquireUnreached \/ AcquireAbandoned \/ Failover \/ Broadcast
    BY <1>0, <2>2, Zenon DEF AcquireSend, AcquireUnreached, AcquireAbandoned, FailedAcquire,
       Failover, Broadcast, StartCall, EndCall
  <2>3. CASE Release \/ ReleaseAnswer \/ ReleaseFails
    BY <1>0, <2>3, Zenon DEF Release, ReleaseAnswer, ReleaseFails, StartCall, EndCall
  <2> QED
    BY <1>4, <2>1, <2>2, <2>3 DEF Running
<1>5. CASE Guardian
  BY <1>0, <1>5, Zenon DEF Guardian, ServeAcquire, ServeRelease, ServeLate, Expire
<1> QED
  BY <1>1, <1>2, <1>3, <1>4, <1>5 DEF Next

\* Every goroutine is somewhere, and every mutex is held by one of them.
LEMMA PlacesNext ==
    ASSUME TypeOK, Next
    PROVE  Places'
<1> USE DEF Places, call, server, owner, local
<1>0. Places
  BY TypeParts
<1>1. CASE Main \/ ListenSend
  BY <1>0, <1>1 DEF Main, Acquire, ListenStopped, ListenLock, Listen, Receive, ListenSend
<1>2. CASE (\E r \in BOOLEAN : CallStop(r)) \/ CallClose \/ Stopper
  <2>1. CASE \E r \in BOOLEAN : CallStop(r)
    BY <1>0, <2>1 DEF CallStop
  <2>2. CASE CallClose
    BY <1>0, <2>2 DEF CallClose
  <2>3. CASE StopSend \/ StopWait \/ Close
    BY <1>0, <2>3 DEF StopSend, StopWait, Close
  <2> QED
    BY <1>2, <2>1, <2>2, <2>3 DEF Stopper
<1>3. CASE Forward \/ Timer \/ Shutdown
  BY <1>0, <1>3 DEF Forward, Pass, Cancel, Timer, Shutdown
<1>4. CASE Running
  BY <1>0, <1>4 DEF Running, AcquireSend, AcquireAnswer, AcquireUnreached, AcquireAbandoned,
     FailedAcquire, Failover, Broadcast, Release, ReleaseAnswer, ReleaseFails, StartCall, EndCall
<1>5. CASE Guardian
  <2>1. CASE ServeAcquire \/ ServeRelease \/ Expire
    BY <1>0, <2>1, ZenonT(40) DEF ServeAcquire, ServeRelease, Expire
  <2>2. ASSUME NEW r \in late, ServeLate(r) PROVE Places'
    BY <1>0, <2>2 DEF ServeLate
  <2> QED
    BY <1>5, <2>1, <2>2 DEF Guardian
<1> QED
  BY <1>1, <1>2, <1>3, <1>4, <1>5 DEF Next

\* The state and the channel keep their types.
LEMMA ValuesNext ==
    ASSUME TypeOK, Next
    PROVE  Values'
<1> USE DEF Values, call, server, owner, local
<1>0. Values
  BY TypeParts
<1>1. CASE Listen
  BY <1>0, <1>1, MaintainerConstants DEF Listen
<1>2. CASE Receive
  BY <1>0, <1>2, ChannelTypes DEF Receive
<1>3. CASE ListenSend \/ Broadcast
  BY <1>0, <1>3, ChannelTypes DEF ListenSend, Broadcast
<1>4. CASE Close
  BY <1>0, <1>4 DEF Close
<1>5. CASE StopWait
  BY <1>0, <1>5 DEF StopWait, States
<1>6. CASE AcquireAnswer
  <2>1. (request = "leased") \in BOOLEAN
    OBVIOUS
  <2>2. state' \in States
    BY <1>0, <1>6, <2>1 DEF AcquireAnswer, States
  <2> QED
    BY <1>0, <1>6, <2>2 DEF AcquireAnswer
<1>7. CASE AcquireUnreached \/ AcquireAbandoned
  <2>1. FailedAcquire
    BY <1>7 DEF AcquireUnreached, AcquireAbandoned
  <2>2. state' = [state EXCEPT !.n = state.n + 1, !.online = FALSE, !.failed = TRUE]
    BY <2>1 DEF FailedAcquire
  <2>3. state.n + 1 \in Nat
    BY <1>0 DEF States
  <2>4. \A m \in Nat : [state EXCEPT !.n = m, !.online = FALSE, !.failed = TRUE] \in States
    BY <1>0 DEF States
  <2>5. state' \in States
    BY <2>2, <2>3, <2>4, Zenon
  <2> QED
    BY <1>0, <2>1, <2>5 DEF FailedAcquire
<1>8. CASE Release \/ ReleaseAnswer \/ ReleaseFails
  BY <1>0, <1>8 DEF Release, ReleaseAnswer, ReleaseFails, States
<1>9. CASE UNCHANGED <<state, listener, seen>>
  BY <1>0, <1>9
<1> QED
  BY <1>1, <1>2, <1>3, <1>4, <1>5, <1>6, <1>7, <1>8, <1>9
  DEF Next, Main, Acquire, ListenStopped, ListenLock, CallStop, CallClose, Stopper, StopSend,
      Forward, Pass, Cancel, Timer, Shutdown, Running, AcquireSend, Failover,
      Guardian, ServeAcquire, ServeRelease, ServeLate, Expire

\* Every step keeps the types.
LEMMA TypeNext == TypeOK /\ [Next]_vars => TypeOK'
<1>1. ASSUME TypeOK, Next PROVE TypeOK'
  BY <1>1, TypeParts, FlagsNext, PlacesNext, ValuesNext DEF TypeOK, Flags, Places, Values
<1>2. TypeOK /\ UNCHANGED vars => TypeOK'
  BY DEF TypeOK, vars
<1> QED
  BY <1>1, <1>2

\* Every step keeps the types and the control.
LEMMA InvariantNext == IInv /\ [Next]_vars => IInv'
BY MainControl, StopperControl, RunControl, GuardianControl, TypeNext
   DEF IInv, Next, Stopper

\* Every variable of the lease maintainer keeps its type, for any capacity of the
\* listener's channel, which never holds more (maintainer.go:170).
THEOREM MaintainerTypes == Spec => []TypeOK
<1>1. IInv => TypeOK
  BY DEF IInv
<1> QED
  BY <1>1, InvariantInit, InvariantNext, PTL DEF Spec

\* Nobody sends on the listener's channel once Close has closed it, which would
\* panic: Close waits for run to end and for the goroutine of Listen to give the
\* mutex back (maintainer.go:117-135).
THEOREM NeverSendsOnClosed == Spec => []NoSendOnClosed
<1>1. IInv => NoSendOnClosed
  BY DEF IInv, Control, Channel, NoSendOnClosed
<1> QED
  BY <1>1, InvariantInit, InvariantNext, PTL DEF Spec

-----------------------------------------------------------------------------
(* What the owner sees. *)

\* The owner's first goroutine: a listener begins with the state there is, which
\* is zero or on its way.
LEMMA MainSent == IInv /\ Sent /\ (Main \/ ListenSend) => Sent'
<1> SUFFICES ASSUME IInv, Sent, Main \/ ListenSend PROVE Sent'
  OBVIOUS
<1>0. TypeOK /\ Control
  BY DEF IInv
<1>1. CASE Acquire
  BY <1>1 DEF Acquire, Sent, Last
<1>2. CASE ListenStopped \/ ListenLock
  BY <1>2 DEF ListenStopped, ListenLock, Sent, Last
<1>3. CASE Listen
  <2>1. /\ main' = "drain" /\ seen' = seen /\ state' = state /\ listener'.buf = <<>>
        /\ stateMutex' = IF state = ZeroState THEN None ELSE "listen"
        /\ seen = 0
    BY <1>3 DEF Listen, Sent
  <2>2. state = ZeroState => state.n = 0
    BY DEF ZeroState
  <2> QED
    BY <2>1, <2>2 DEF Sent, Last
<1>4. CASE Receive
  <2>1. CASE listener.buf # <<>> /\ seen' = Head(listener.buf)
             /\ listener' = [listener EXCEPT !.buf = Tail(@)] /\ UNCHANGED main
    <3>1. Last' = Last
      BY <1>0, <2>1, ChannelTypes DEF Last
    <3>2. main = "drain" /\ UNCHANGED <<run, stateMutex, state>>
      BY <1>4 DEF Receive
    <3> QED
      BY <2>1, <3>1, <3>2 DEF Sent
  <2>2. CASE main' = "ended"
    BY <2>2 DEF Sent
  <2> QED
    BY <1>4, <2>1, <2>2 DEF Receive
<1>5. CASE ListenSend
  <2>1. listener'.buf # <<>> /\ listener'.buf[Len(listener'.buf)] = state.n
    BY <1>0, <1>5, ChannelTypes DEF ListenSend
  <2>2. UNCHANGED <<main, seen, state>>
    BY <1>5 DEF ListenSend, owner
  <2> QED
    BY <2>1, <2>2 DEF Sent, Last
<1> QED
  BY <1>1, <1>2, <1>3, <1>4, <1>5 DEF Main

\* Nobody else changes what the owner has, but run, which sends what it changes.
LEMMA OtherSent ==
    ASSUME IInv, Sent, Next, ~(Main \/ ListenSend)
    PROVE  Sent'
<1>0. TypeOK /\ Control
  BY DEF IInv
<1>1. CASE AcquireAnswer \/ AcquireUnreached \/ AcquireAbandoned
  BY <1>1 DEF AcquireAnswer, AcquireUnreached, AcquireAbandoned, FailedAcquire, owner, Sent
<1>2. CASE Broadcast
  <2>1. UNCHANGED <<main, seen, state>>
    BY <1>2 DEF Broadcast, owner
  <2>2. CASE listener.at = "open"
    <3>1. listener'.buf # <<>> /\ listener'.buf[Len(listener'.buf)] = state.n
      BY <1>0, <1>2, <2>2, ChannelTypes DEF Broadcast
    <3> QED
      BY <2>1, <3>1 DEF Sent, Last
  <2>3. CASE listener.at # "open"
    <3>1. main # "drain"
      BY <1>0, <1>2, <2>3 DEF Broadcast, Control, Channel, TypeOK
    <3> QED
      BY <2>1, <3>1 DEF Sent
  <2> QED
    BY <2>2, <2>3
<1>4. CASE StopWait
  <2>1. UNCHANGED <<main, seen, stateMutex, listener>> /\ run # "broadcast"
    BY <1>4 DEF StopWait
  <2>2. state'.n = state.n
    BY <1>0, <1>4 DEF StopWait, TypeOK, States
  <2> QED
    BY <2>1, <2>2 DEF Sent, Last
<1>5. CASE Close
  <2>1. UNCHANGED <<main, seen, stateMutex, state, run>>
    BY <1>5 DEF Close
  <2>2. listener'.buf = listener.buf
    BY <1>0, <1>5 DEF Close, TypeOK
  <2> QED
    BY <2>1, <2>2 DEF Sent, Last
<1>6. CASE Release \/ ReleaseAnswer \/ ReleaseFails
  <2>1. UNCHANGED <<main, seen, listener>> /\ run \in {"release", "releasing"}
        /\ (stateMutex = "listen" => stateMutex' = "listen")
    BY <1>0, <1>6, MaintainerConstants
    DEF Release, ReleaseAnswer, ReleaseFails, owner, Control, Mutexes
  <2>2. state'.n = state.n
    BY <1>0, <1>6 DEF Release, ReleaseAnswer, ReleaseFails, TypeOK, States
  <2> QED
    BY <2>1, <2>2 DEF Sent, Last
<1>7. CASE UNCHANGED <<main, seen, state, listener, run, stateMutex>>
  BY <1>7 DEF Sent, Last
<1>8. CASE AcquireSend
  <2>1. UNCHANGED <<main, seen, state, listener>> /\ run = "acquire" /\ stateMutex = None
    BY <1>8 DEF AcquireSend, owner
  <2> QED
    BY <2>1, MaintainerConstants DEF Sent, Last
<1>9. CASE Timer \/ Shutdown
  <2>1. UNCHANGED <<main, seen, state, listener, stateMutex>> /\ run = "select"
    BY <1>9 DEF Timer, Shutdown, owner
  <2> QED
    BY <2>1 DEF Sent, Last
<1> QED
  BY <1>1, <1>2, <1>4, <1>5, <1>6, <1>7, <1>8, <1>9
  DEF Next, CallStop, CallClose, Stopper, StopSend, Forward, Pass, Cancel, Running, Failover,
      Guardian, ServeAcquire, ServeRelease, ServeLate, Expire, owner, local

\* The owner never keeps an outdated state, for any capacity of its channel and
\* also when it began to listen after an acquisition (maintainer.go:157).
THEOREM OwnerIsUpToDate == Spec => []ListenerUpToDate
<1>1. IInv /\ Sent /\ [Next]_vars => Sent'
  <2>1. Sent /\ UNCHANGED vars => Sent'
    BY DEF Sent, Last, vars
  <2> QED
    BY <2>1, MainSent, OtherSent
<1>2. IInv /\ Sent => ListenerUpToDate
  BY MaintainerConstants DEF IInv, Control, Mutexes, Sent, Last, ListenerUpToDate
<1> QED
  BY <1>1, <1>2, InvariantInit, InvariantNext, PTL DEF Spec

-----------------------------------------------------------------------------
(* What is released. *)

\* The owner: whoever stops a maintainer that is not started, or closes one, has
\* nothing to release.
LEMMA OwnerReleases ==
    ASSUME IInv, ReleaseInv,
           Main \/ ListenSend \/ (\E r \in BOOLEAN : CallStop(r)) \/ CallClose
             \/ StopSend \/ StopWait \/ Close
    PROVE  ReleaseInv'
<1>0. TypeOK /\ Mutexes /\ Started /\ Told
  BY DEF IInv, Control
<1> USE DEF ReleaseInv, Requests, Known, Ended, call, server, owner
<1>1. CASE Acquire
  BY <1>0, <1>1, MaintainerConstants DEF Acquire, Mutexes, Started
<1>2. CASE ListenStopped \/ ListenLock \/ Listen \/ Receive \/ ListenSend
  <2>1. UNCHANGED <<request, run, forgotten, late, granted, state, stopper, release, started>>
    BY <1>2 DEF ListenStopped, ListenLock, Listen, Receive, ListenSend
  <2> QED
    BY <2>1
<1>3. CASE \E r \in BOOLEAN : CallStop(r)
  <2>1. UNCHANGED <<request, run, forgotten, late, granted, state, started>>
        /\ stopper = "idle" /\ stopper' \in {"send", "close"}
        /\ (stopper' = "close" => ~started)
    BY <1>3 DEF CallStop
  <2>2. ~started => ~state.acquired
    BY <1>0, <2>1 DEF Started, ZeroState
  <2>3. run # "stopped"
    BY <1>0, <2>1 DEF Told, Waiting
  <2> QED
    BY <2>1, <2>2, <2>3
<1>4. CASE CallClose
  <2>1. UNCHANGED <<request, run, forgotten, late, granted, state, started>>
        /\ stopper \in {"idle", "close"} /\ stopper' \in {"closeSend", "closing"}
        /\ (started => release' = FALSE) /\ (~started => release' = release)
    BY <1>4 DEF CallClose
  <2>2. run # "stopped"
    BY <1>0, <2>1 DEF Told, Waiting
  <2> QED
    BY <2>1, <2>2
<1>5. CASE StopSend
  BY <1>5 DEF StopSend
<1>6. CASE StopWait
  <2>1. /\ UNCHANGED <<request, forgotten, late, granted, release>>
        /\ run = "stopped" /\ run' = "off" /\ stopper' \in {"close", "closing"}
    BY <1>6 DEF StopWait
  <2>2. state'.acquired = state.acquired /\ state'.failed = state.failed
    BY <1>0, <1>6 DEF StopWait, TypeOK, States
  <2> QED
    BY <2>1, <2>2
<1>7. CASE Close
  BY <1>7 DEF Close
<1> QED
  BY <1>1, <1>2, <1>3, <1>4, <1>5, <1>6, <1>7 DEF Main

\* The maintainer: what it gives up waiting for is forgotten, unless the guardian
\* cannot have carried it out.
LEMMA RunReleases ==
    ASSUME IInv, ReleaseInv, Forward \/ Timer \/ Shutdown \/ Running
    PROVE  ReleaseInv'
<1>0. TypeOK /\ Mutexes /\ Started /\ Told
  BY DEF IInv, Control
<1> USE DEF ReleaseInv, Requests, Known, Ended, call, server, owner
<1>1. CASE Forward
  BY <1>1 DEF Forward, Pass, Cancel
<1>2. CASE Timer \/ Shutdown
  BY <1>0, <1>2 DEF Timer, Shutdown, Started
<1>3. CASE AcquireSend
  <2>1. run = "acquire" /\ run' = "acquiring" /\ request' = "acquire"
        /\ UNCHANGED <<stopper, release, started, state, granted, late, forgotten>>
    BY <1>3 DEF AcquireSend, StartCall
  <2> QED
    BY <1>0, <2>1 DEF Started
<1>4. CASE AcquireAnswer
  <2>1. run = "acquiring" /\ run' = "broadcast" /\ request' = "none" /\ started
        /\ UNCHANGED <<stopper, release, started, granted, late>>
        /\ request \in {"leased", "notRequired"}
    BY <1>0, <1>4 DEF AcquireAnswer, EndCall, Started
  <2>2. state'.acquired = (request = "leased")
    BY <1>4 DEF AcquireAnswer
  <2>3. forgotten' = IF request = "leased" THEN "acquire" \in late ELSE forgotten
    BY <1>4 DEF AcquireAnswer
  <2> QED
    BY <2>1, <2>2, <2>3
<1>5. CASE AcquireUnreached \/ AcquireAbandoned
  <2>1. run = "acquiring" /\ run' = "broadcast" /\ request' = "none" /\ started
        /\ UNCHANGED <<stopper, release, started, granted>>
    BY <1>0, <1>5 DEF AcquireUnreached, AcquireAbandoned, FailedAcquire, EndCall, Started
  <2>2. state'.acquired = state.acquired
    BY <1>0, <1>5 DEF AcquireUnreached, AcquireAbandoned, FailedAcquire, TypeOK, States
  <2>3. ~forgotten' => ~forgotten /\ late' = late /\ request \in {"acquire", "notRequired"}
    BY <1>5 DEF AcquireUnreached, AcquireAbandoned
  <2> QED
    BY <2>1, <2>2, <2>3
<1>6. CASE Broadcast
  BY <1>0, <1>6 DEF Broadcast, Started
<1>7. CASE Release
  <2>1. run = "release" /\ started
        /\ UNCHANGED <<stopper, release, started, granted, late, forgotten>>
    BY <1>0, <1>7 DEF Release, Started
  <2>2. CASE state.acquired
    <3>1. UNCHANGED state /\ run' = "releasing" /\ request' = "release"
      BY <1>7, <2>2 DEF Release, StartCall
    <3> QED
      BY <2>1, <2>2, <3>1
  <2>3. CASE ~state.acquired
    <3>1. run' = "stopped" /\ request' = request
      BY <1>7, <2>3 DEF Release
    <3>2. ~state'.acquired
      BY <1>0, <1>7, <2>3 DEF Release, TypeOK, States
    <3> QED
      BY <2>1, <2>3, <3>1, <3>2
  <2> QED
    BY <2>2, <2>3
<1>8. CASE ReleaseAnswer
  <2>1. run = "releasing" /\ run' = "stopped" /\ request = "released" /\ request' = "none"
        /\ started /\ UNCHANGED <<stopper, release, started, granted, late, forgotten>>
    BY <1>0, <1>8 DEF ReleaseAnswer, EndCall, Started
  <2>2. ~state'.acquired
    BY <1>0, <1>8 DEF ReleaseAnswer, TypeOK, States
  <2> QED
    BY <2>1, <2>2
<1>9. CASE ReleaseFails
  <2>1. run = "releasing" /\ run' = "stopped" /\ request' = "none" /\ started
        /\ UNCHANGED <<stopper, release, started, granted, forgotten>>
        /\ ("acquire" \in late' => "acquire" \in late)
    BY <1>0, <1>9 DEF ReleaseFails, EndCall, Started
  <2>2. state'.acquired = state.acquired /\ state'.failed
    BY <1>0, <1>9 DEF ReleaseFails, TypeOK, States
  <2> QED
    BY <2>1, <2>2
<1>10. CASE Failover
  <2>1. UNCHANGED <<stopper, release, started, granted, run, state>>
        /\ run \in {"acquiring", "releasing"}
        /\ request' = IF run = "acquiring" THEN "acquire" ELSE "release"
    BY <1>10 DEF Failover
  <2>2. CASE run = "acquiring"
    <3>1. ~forgotten' => ~forgotten /\ request \in {"acquire", "notRequired"} /\ late' = late
      BY <1>10, <2>2 DEF Failover
    <3> QED
      BY <2>1, <2>2, <3>1
  <2>3. CASE run = "releasing"
    <3>1. ~forgotten' => ~forgotten
      BY <1>10, Zenon DEF Failover
    <3>2. "acquire" \in late' => "acquire" \in late
      BY <1>10, <2>3 DEF Failover
    <3> QED
      BY <2>1, <2>3, <3>1, <3>2
  <2> QED
    BY <2>1, <2>2, <2>3
<1> QED
  BY <1>1, <1>2, <1>3, <1>4, <1>5, <1>6, <1>7, <1>8, <1>9, <1>10 DEF Running

\* The guardian: what it grants is answered to who asked, or was forgotten.
LEMMA GuardianReleases ==
    ASSUME IInv, ReleaseInv, Guardian
    PROVE  ReleaseInv'
<1>1. UNCHANGED <<run, stopper, release, started, state>>
  BY DEF Guardian, ServeAcquire, ServeRelease, ServeLate, Expire, local, owner
<1> USE DEF ReleaseInv, Requests, Known, Ended, call
<1>2. CASE ServeAcquire
  <2>1. request = "acquire" /\ late' = late
    BY <1>2 DEF ServeAcquire
  <2>2. CASE request' = "leased" /\ granted' = TRUE /\ UNCHANGED forgotten
    BY <1>1, <2>1, <2>2
  <2>3. CASE request' = "notRequired" /\ UNCHANGED granted /\ forgotten' = (forgotten \/ granted)
    <3>1. ~forgotten' => ~forgotten /\ ~granted
      BY <2>3, Zenon
    <3> QED
      BY <1>1, <2>1, <2>3, <3>1
  <2> QED
    BY <1>2, <2>2, <2>3 DEF ServeAcquire
<1>3. CASE ServeRelease
  BY <1>1, <1>3 DEF ServeRelease
<1>4. ASSUME NEW r \in late, ServeLate(r) PROVE ReleaseInv'
  BY <1>1, <1>4 DEF ServeLate
<1>5. CASE Expire
  BY <1>1, <1>5 DEF Expire
<1> QED
  BY <1>2, <1>3, <1>4, <1>5 DEF Guardian

\* A Release that succeeded leaves the guardian without a lease, unless the client
\* gave up on an acquisition that the guardian received or was told that it needs
\* none, for any number of acquisitions before and whether or not the owner stops
\* the maintainer before it is started (maintainer.go:77-88, 289-319).
THEOREM KnownLeasesAreReleased == Spec => []ReleasedUnlessForgotten
<1>1. IInv /\ ReleaseInv /\ [Next]_vars => ReleaseInv'
  <2>1. ReleaseInv /\ UNCHANGED vars => ReleaseInv'
    BY DEF ReleaseInv, Requests, Known, Ended, vars
  <2> QED
    BY <2>1, OwnerReleases, RunReleases, GuardianReleases DEF Next, Stopper
<1>2. IInv /\ ReleaseInv => ReleasedUnlessForgotten
  <2> SUFFICES ASSUME IInv, ReleaseInv, Released, ~forgotten PROVE ~granted
    BY DEF ReleasedUnlessForgotten
  <2>1. run = "off"
    BY DEF IInv, Control, Started, Released
  <2> QED
    BY <2>1 DEF ReleaseInv, Requests, Known, Ended, Released
<1> QED
  BY <1>1, <1>2, InvariantInit, InvariantNext, PTL DEF Spec
=============================================================================
