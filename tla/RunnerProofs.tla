---------------------------- MODULE RunnerProofs -----------------------------
(***************************************************************************)
(* The safety properties of the runner and the lease user interface, each  *)
(* from an inductive invariant of its own above the types and the mutexes. *)
(***************************************************************************)
EXTENDS Runner, TLAPS

\* Who holds which mutex follows from where the two threads are.
Locks ==
    /\ mutex = "run" <=> run.at \in {"change", "send", "finish"}
    /\ mutex = "ui" <=> ui.at \in {"compare", "send"}
    /\ sender = "run" <=> run.at = "send"
    /\ sender = "ui" <=> ui.at = "send"

\* TypeOK, the part of the user interface and the runner's.
UIType ==
    [at : {"start", "lock", "shown", "callback", "compare", "send", "returned", "ended"},
     type : Types, result : {"none", "user", "cancelled", "error"}]

ReceiverType == [at : {"waiting", "received", "left", "closed"}, next : Types]

UITypes ==
    /\ current \in Types /\ open \in BOOLEAN /\ primed \in BOOLEAN
    /\ sender \in {"nobody", "run", "ui"}
    /\ ui \in UIType
    /\ receiver \in ReceiverType

RunType ==
    [at : {"init", "receive", "lock", "change", "send", "finish", "ended"},
     state : States \cup {"none"}, type : Types]

ChannelType == [state : States \cup {"none"}, closed : BOOLEAN]

StoppedType == [outer : BOOLEAN, inner : BOOLEAN]

RunTypes ==
    /\ mutex \in {"nobody", "run", "ui"}
    /\ run \in RunType
    /\ program \in {"none", "running", "ended"} /\ warned \in BOOLEAN /\ restored \in BOOLEAN
    /\ channel \in ChannelType
    /\ stopped \in StoppedType
    /\ release \in {"waiting", "missed", "done"}

TypeInv == UITypes /\ RunTypes /\ Locks

\* A state that ends the lease ends the program before the next state is received.
ProgramInv ==
    /\ run.at = "init" => program = "none"
    /\ program = "running" /\ ~stopped.inner
       /\ run.at \in {"receive", "change", "send", "finish"}
           => \/ run.state \in {"active", "notRequired", "error"}
              \/ run.state = "released" /\ run.at # "receive"

\* What a handler that directs the user interface to a type has made sure of: no
\* directive replaces the dialog that a restored connection waits for, unless the
\* user was warned again.
Justified(type) ==
    CASE type \in {"Startup", "Queued"} -> program = "none"
      [] type = "Disconnected" -> warned
      [] type = "None" -> ~restored
      [] OTHER -> TRUE

\* Nobody is warned, and no connection restored, before there is a program, and the
\* callback of the dialog Connected changes the directive once it is acknowledged.
AcknowledgeInv ==
    /\ program = "none" => ~warned /\ ~restored
    /\ run.at = "change" => Justified(run.type)
    /\ ui.at \in {"compare", "send"}
           => /\ ui.type \in {"Connected", "Disconnected"}
              /\ ui.type = "Connected" => ~restored
    /\ open /\ restored
           => \/ warned \/ current = "Connected"
              \/ run.at = "change" /\ run.type = "Connected"

\* The directive that is on its way is the current one, unless a newer one is being
\* sent.  The user interface has an error to report, or the runner was told to
\* stop, when a dialog is gone that nobody has replaced.
InFlight == sender # "nobody"

DirectiveInv ==
    /\ receiver.at = "left" => ui.at \in {"returned", "ended"} /\ receiver.next = "None"
    /\ ui.at \in {"callback", "compare"} /\ receiver.at = "waiting" => ui.result = "user"
    /\ ui.at = "ended" => stopped.inner
    /\ open /\ ~InFlight /\ ~stopped.inner =>
           /\ receiver.at = "received" => receiver.next = current
           /\ (/\ receiver.at = "waiting"
               /\ ui.at \in {"start", "lock", "shown", "callback", "compare"})
                  => ui.type = current
           /\ receiver.at \in {"waiting", "left"} /\ ui.at = "returned"
                  => ui.result = "error" \/ current = "None"
-----------------------------------------------------------------------------
\* Every step keeps the types of the user interface.
LEMMA UITypesNext ==
    TypeInv /\ [Next]_vars => UITypes'
<1> SUFFICES ASSUME TypeInv, [Next]_vars
             PROVE  UITypes'
  OBVIOUS
<1> USE DEF TypeInv, UITypes
<1>1. CASE Acquire
  BY <1>1 DEF Acquire, uiVars, managerVars
<1>2. CASE ReceiveState
  BY <1>2 DEF ReceiveState, uiVars, managerVars
<1>3. CASE RunEnds
  BY <1>3 DEF RunEnds, ShutdownAll, uiVars, managerVars
<1>4. CASE HandleErrorStarting
  BY <1>4 DEF HandleErrorStarting, Begin, Direct
<1>5. CASE HandleError
  BY <1>5 DEF HandleError, Begin, Direct, NoDirective
<1>6. CASE HandleExpired
  BY <1>6 DEF HandleExpired, Begin, NoDirective, Shutdown
<1>7. CASE HandleQueued
  BY <1>7 DEF HandleQueued, Begin, Direct, NoDirective, Shutdown
<1>8. CASE HandleActive
  BY <1>8 DEF HandleActive, Begin, Direct, NoDirective
<1>9. CASE HandleUnexpected
  BY <1>9 DEF HandleUnexpected, Begin, NoDirective
<1>10. CASE Change
  BY <1>10 DEF Change, NoChange, BeginChange, managerVars, RunTypes, RunType
<1>11. CASE Changed
  BY <1>11 DEF Changed, EndChange, ReceiverType
<1>12. CASE Finish
  BY <1>12 DEF Finish, Executes, uiVars, managerVars
<1>13. CASE Execute
  BY <1>13 DEF Execute, Executes, uiVars, managerVars
<1>14. CASE RunFails
  BY <1>14 DEF RunFails, ShutdownAll, uiVars, managerVars
<1>15. CASE StopWaiting
  BY <1>15 DEF StopWaiting, Shutdown, Returned, managerVars, UIType
<1>16. CASE Acknowledge
  BY <1>16 DEF Acknowledge, managerVars, UIType
<1>17. CASE ShowNothing /\ UNCHANGED runnerVars
  BY <1>17 DEF ShowNothing, runnerVars, managerVars, Cancelled, Returned, UIType
<1>18. CASE (Ready \/ Show) /\ UNCHANGED runnerVars
  BY <1>18 DEF Ready, Show, runnerVars, managerVars, UIType
<1>19. CASE DialogEnds /\ UNCHANGED runnerVars
  <2>1. CASE ui.type = "None"
    BY <1>19, <2>1 DEF DialogEnds, Returned, managerVars, UIType
  <2>2. CASE ui.type # "None"
    BY <1>19, <2>2 DEF DialogEnds, managerVars, UIType
  <2> QED
    BY <2>1, <2>2
<1>20. CASE UserClosed /\ UNCHANGED runnerVars
  BY <1>20 DEF UserClosed, runnerVars, managerVars, ReceiverType, Types
<1>21. CASE NextDirective /\ UNCHANGED runnerVars
  BY <1>21 DEF NextDirective, runnerVars, managerVars, NewReceiver, UIType,
       ReceiverType, Types
<1>22. CASE Compare
  BY <1>22 DEF Compare, Returned, BeginChange, managerVars, UIType, Types
<1>23. CASE Compared
  BY <1>23 DEF Compared, EndChange, Returned, UIType, ReceiverType
<1>24. CASE UIDone
  BY <1>24 DEF UIDone, UIEnds, ShutdownAll, managerVars, UIType, Types
<1>25. CASE ReceiveClosed /\ UNCHANGED runnerVars
  BY <1>25 DEF ReceiveClosed, runnerVars, managerVars, ReceiverType, Types
<1>26. CASE StopUIDone
  <2>1. open' = FALSE /\ primed' = TRUE /\ UNCHANGED <<current, sender, ui, receiver>>
    BY <1>26 DEF StopUIDone, StopUI
  <2>2. open' \in BOOLEAN /\ primed' \in BOOLEAN
    BY <2>1
  <2> QED
    BY <2>1, <2>2
<1>27. CASE Release
  BY <1>27 DEF Release, uiVars, managerVars
<1>28. CASE ProgramEnds
  BY <1>28 DEF ProgramEnds, Shutdown, uiVars, managerVars
<1>29. CASE Interrupt
  BY <1>29 DEF Interrupt, ShutdownAll, uiVars, managerVars
<1>30. CASE UserCloses /\ UNCHANGED runnerVars
  BY <1>30 DEF UserCloses, runnerVars, managerVars, UIType
<1>31. CASE ShowFails /\ UNCHANGED runnerVars
  BY <1>31 DEF ShowFails, runnerVars, managerVars, Returned, UIType
<1>32. CASE \E state \in States : Publish(state)
  BY <1>32 DEF Publish, uiVars, managerVars
<1>33. CASE UNCHANGED vars
  BY <1>33 DEF vars, uiVars, managerVars, runnerVars
<1> QED
  BY <1>1, <1>2, <1>3, <1>4, <1>5, <1>6, <1>7, <1>8, <1>9, <1>10, <1>11, <1>12, <1>13,
       <1>14, <1>15, <1>16, <1>17, <1>18, <1>19, <1>20, <1>21, <1>22, <1>23, <1>24,
       <1>25, <1>26, <1>27, <1>28, <1>29, <1>30, <1>31, <1>32, <1>33 DEF Next,
       RunStep, Callback, UIStep, Receiver

\* Every step keeps the types of the runner.
LEMMA RunTypesNext ==
    TypeInv /\ [Next]_vars => RunTypes'
<1> SUFFICES ASSUME TypeInv, [Next]_vars
             PROVE  RunTypes'
  OBVIOUS
<1> USE DEF TypeInv, RunTypes
<1>1. CASE Acquire
  BY <1>1 DEF Acquire, uiVars, managerVars, RunType
<1>2. CASE ReceiveState
  BY <1>2 DEF ReceiveState, uiVars, managerVars, RunType, ChannelType, Types
<1>3. CASE RunEnds
  BY <1>3 DEF RunEnds, ShutdownAll, uiVars, managerVars, RunType, StoppedType
<1>4. CASE HandleErrorStarting
  BY <1>4 DEF HandleErrorStarting, Begin, Direct, RunType, Types
<1>5. CASE HandleError
  <2>1. /\ mutex' = "run" /\ UNCHANGED <<program, channel, release, restored, stopped>>
        /\ warned' = TRUE \/ UNCHANGED warned
    BY <1>5 DEF HandleError, Begin
  <2>2. \/ run' = [run EXCEPT !.at = "change", !.type = "Disconnected"]
        \/ run' = [run EXCEPT !.at = "finish"]
    BY <1>5 DEF HandleError, Direct, NoDirective
  <2>3. run' \in RunType
    BY <2>2 DEF RunType, Types
  <2> QED
    BY <2>1, <2>3
<1>6. CASE HandleExpired
  BY <1>6 DEF HandleExpired, Begin, NoDirective, Shutdown, RunType, StoppedType
<1>7. CASE HandleQueued
  <2>1. mutex' = "run" /\ UNCHANGED <<program, channel, release, warned, restored>>
    BY <1>7 DEF HandleQueued, Begin
  <2>2. stopped' = [stopped EXCEPT !.inner = TRUE] \/ stopped' = stopped
    BY <1>7 DEF HandleQueued, Shutdown
  <2>3. \/ run' = [run EXCEPT !.at = "change", !.type = "Queued"]
        \/ run' = [run EXCEPT !.at = "finish"]
    BY <1>7 DEF HandleQueued, Direct, NoDirective
  <2>4. stopped' \in StoppedType
    BY <2>2 DEF StoppedType
  <2>5. run' \in RunType
    BY <2>3 DEF RunType, Types
  <2> QED
    BY <2>1, <2>4, <2>5
<1>8. CASE HandleActive
  <2>1. /\ mutex' = "run" /\ UNCHANGED <<program, channel, release, stopped>>
        /\ warned' = FALSE /\ restored' = (restored \/ warned)
    BY <1>8 DEF HandleActive, Begin
  <2>2. \/ \E type \in {"Connected", "None"} :
              run' = [run EXCEPT !.at = "change", !.type = type]
        \/ run' = [run EXCEPT !.at = "finish"]
    BY <1>8 DEF HandleActive, Direct, NoDirective
  <2>3. run' \in RunType
    BY <2>2 DEF RunType, Types
  <2> QED
    BY <2>1, <2>3
<1>9. CASE HandleUnexpected
  BY <1>9 DEF HandleUnexpected, Begin, NoDirective, RunType
<1>10. CASE Change
  <2>1. UNCHANGED <<mutex, program, warned, restored, channel, stopped, release>>
    BY <1>10 DEF Change
  <2>2. \E at \in {"finish", "send"} : run' = [run EXCEPT !.at = at, !.type = "None"]
    BY <1>10 DEF Change
  <2>3. run' \in RunType
    BY <2>2 DEF RunType, Types
  <2> QED
    BY <2>1, <2>3
<1>11. CASE Changed
  BY <1>11 DEF Changed, EndChange, RunType
<1>12. CASE Finish
  BY <1>12 DEF Finish, Executes, uiVars, managerVars, RunType
<1>13. CASE Execute
  BY <1>13 DEF Execute, Executes, uiVars, managerVars, RunType
<1>14. CASE RunFails
  BY <1>14 DEF RunFails, ShutdownAll, uiVars, managerVars, RunType, StoppedType
<1>15. CASE StopWaiting
  <2>1. stopped' = [stopped EXCEPT !.inner = TRUE] \/ stopped' = stopped
    BY <1>15 DEF StopWaiting, Shutdown
  <2>2. stopped' \in StoppedType
    BY <2>1 DEF StoppedType
  <2> QED
    BY <1>15, <2>2 DEF StopWaiting
<1>16. CASE Acknowledge
  BY <1>16 DEF Acknowledge, managerVars
<1>17. CASE ShowNothing /\ UNCHANGED runnerVars
  BY <1>17 DEF ShowNothing, runnerVars, managerVars, Cancelled, Returned
<1>18. CASE (Ready \/ Show) /\ UNCHANGED runnerVars
  BY <1>18 DEF Ready, Show, runnerVars, managerVars
<1>19. CASE DialogEnds /\ UNCHANGED runnerVars
  BY <1>19 DEF DialogEnds, runnerVars, managerVars, Cancelled, Returned
<1>20. CASE UserClosed /\ UNCHANGED runnerVars
  BY <1>20 DEF UserClosed, runnerVars, managerVars
<1>21. CASE NextDirective /\ UNCHANGED runnerVars
  BY <1>21 DEF NextDirective, runnerVars, managerVars, NewReceiver
<1>22. CASE Compare
  BY <1>22 DEF Compare, Returned, BeginChange, managerVars
<1>23. CASE Compared
  BY <1>23 DEF Compared, EndChange, Returned
<1>24. CASE UIDone
  BY <1>24 DEF UIDone, UIEnds, ShutdownAll, managerVars, StoppedType
<1>25. CASE ReceiveClosed /\ UNCHANGED runnerVars
  BY <1>25 DEF ReceiveClosed, runnerVars, managerVars
<1>26. CASE StopUIDone
  BY <1>26 DEF StopUIDone, StopUI, runnerVars
<1>27. CASE Release
  <2>1. channel' = channel \/ channel' = [channel EXCEPT !.closed = TRUE]
    BY <1>27 DEF Release
  <2>2. channel' \in ChannelType
    BY <2>1 DEF ChannelType
  <2> QED
    BY <1>27, <2>2 DEF Release
<1>28. CASE ProgramEnds
  <2>1. stopped' \in StoppedType
    BY <1>28 DEF ProgramEnds, Shutdown, StoppedType
  <2> QED
    BY <1>28, <2>1 DEF ProgramEnds
<1>29. CASE Interrupt
  BY <1>29 DEF Interrupt, ShutdownAll, uiVars, managerVars, StoppedType
<1>30. CASE UserCloses /\ UNCHANGED runnerVars
  BY <1>30 DEF UserCloses, runnerVars, managerVars
<1>31. CASE ShowFails /\ UNCHANGED runnerVars
  BY <1>31 DEF ShowFails, runnerVars, managerVars, Returned
<1>32. CASE \E state \in States : Publish(state)
  BY <1>32 DEF Publish, uiVars, managerVars, ChannelType
<1>33. CASE UNCHANGED vars
  BY <1>33 DEF vars, uiVars, managerVars, runnerVars
<1> QED
  BY <1>1, <1>2, <1>3, <1>4, <1>5, <1>6, <1>7, <1>8, <1>9, <1>10, <1>11, <1>12, <1>13,
       <1>14, <1>15, <1>16, <1>17, <1>18, <1>19, <1>20, <1>21, <1>22, <1>23, <1>24,
       <1>25, <1>26, <1>27, <1>28, <1>29, <1>30, <1>31, <1>32, <1>33 DEF Next,
       RunStep, Callback, UIStep, Receiver

\* Every step keeps the mutexes with the threads that took them.
LEMMA LocksNext ==
    TypeInv /\ [Next]_vars => Locks'
<1> SUFFICES ASSUME TypeInv, [Next]_vars
             PROVE  Locks'
  OBVIOUS
<1> USE DEF TypeInv, UITypes, RunTypes, UIType, RunType, Locks
<1>1. CASE Acquire
  BY <1>1 DEF Acquire, uiVars, managerVars
<1>2. CASE ReceiveState
  BY <1>2 DEF ReceiveState, uiVars, managerVars
<1>3. CASE RunEnds
  BY <1>3 DEF RunEnds, ShutdownAll, uiVars, managerVars
<1>4. CASE HandleErrorStarting
  BY <1>4 DEF HandleErrorStarting, Begin, Direct
<1>5. CASE HandleError
  BY <1>5 DEF HandleError, Begin, Direct, NoDirective
<1>6. CASE HandleExpired
  BY <1>6 DEF HandleExpired, Begin, NoDirective, Shutdown
<1>7. CASE HandleQueued
  BY <1>7 DEF HandleQueued, Begin, Direct, NoDirective, Shutdown
<1>8. CASE HandleActive
  BY <1>8 DEF HandleActive, Begin, Direct, NoDirective
<1>9. CASE HandleUnexpected
  BY <1>9 DEF HandleUnexpected, Begin, NoDirective
<1>10. CASE Change
  BY <1>10 DEF Change, NoChange, BeginChange, managerVars
<1>11. CASE Changed
  BY <1>11 DEF Changed, EndChange
<1>12. CASE Finish
  BY <1>12 DEF Finish, Executes, uiVars, managerVars
<1>13. CASE Execute
  BY <1>13 DEF Execute, Executes, uiVars, managerVars
<1>14. CASE RunFails
  BY <1>14 DEF RunFails, ShutdownAll, uiVars, managerVars
<1>15. CASE StopWaiting
  BY <1>15 DEF StopWaiting, Shutdown, Returned, managerVars
<1>16. CASE Acknowledge
  BY <1>16 DEF Acknowledge, managerVars
<1>17. CASE ShowNothing /\ UNCHANGED runnerVars
  BY <1>17 DEF ShowNothing, runnerVars, managerVars, Cancelled, Returned
<1>18. CASE (Ready \/ Show) /\ UNCHANGED runnerVars
  BY <1>18 DEF Ready, Show, runnerVars, managerVars
<1>19. CASE DialogEnds /\ UNCHANGED runnerVars
  BY <1>19 DEF DialogEnds, runnerVars, managerVars, Cancelled, Returned
<1>20. CASE UserClosed /\ UNCHANGED runnerVars
  BY <1>20 DEF UserClosed, runnerVars, managerVars
<1>21. CASE NextDirective /\ UNCHANGED runnerVars
  BY <1>21 DEF NextDirective, runnerVars, managerVars, NewReceiver
<1>22. CASE Compare
  BY <1>22 DEF Compare, Returned, BeginChange, managerVars
<1>23. CASE Compared
  BY <1>23 DEF Compared, EndChange, Returned
<1>24. CASE UIDone
  BY <1>24 DEF UIDone, UIEnds, ShutdownAll, managerVars
<1>25. CASE ReceiveClosed /\ UNCHANGED runnerVars
  BY <1>25 DEF ReceiveClosed, runnerVars, managerVars
<1>26. CASE StopUIDone
  BY <1>26 DEF StopUIDone, StopUI, runnerVars
<1>27. CASE Release
  BY <1>27 DEF Release, uiVars, managerVars
<1>28. CASE ProgramEnds
  BY <1>28 DEF ProgramEnds, Shutdown, uiVars, managerVars
<1>29. CASE Interrupt
  BY <1>29 DEF Interrupt, ShutdownAll, uiVars, managerVars
<1>30. CASE UserCloses /\ UNCHANGED runnerVars
  BY <1>30 DEF UserCloses, runnerVars, managerVars
<1>31. CASE ShowFails /\ UNCHANGED runnerVars
  BY <1>31 DEF ShowFails, runnerVars, managerVars, Returned
<1>32. CASE \E state \in States : Publish(state)
  BY <1>32 DEF Publish, uiVars, managerVars
<1>33. CASE UNCHANGED vars
  BY <1>33 DEF vars, uiVars, managerVars, runnerVars
<1> QED
  BY <1>1, <1>2, <1>3, <1>4, <1>5, <1>6, <1>7, <1>8, <1>9, <1>10, <1>11, <1>12, <1>13,
       <1>14, <1>15, <1>16, <1>17, <1>18, <1>19, <1>20, <1>21, <1>22, <1>23, <1>24,
       <1>25, <1>26, <1>27, <1>28, <1>29, <1>30, <1>31, <1>32, <1>33 DEF Next,
       RunStep, Callback, UIStep, Receiver

\* The three parts together.
LEMMA TypeNext == TypeInv /\ [Next]_vars => TypeInv'
  BY UITypesNext, RunTypesNext, LocksNext DEF TypeInv

\* The types hold initially.
LEMMA InitTypes == Init => TypeInv
<1> SUFFICES ASSUME Init PROVE TypeInv
  OBVIOUS
<1>1. UITypes
  BY DEF Init, InitUI, NewReceiver, UITypes, UIType, ReceiverType, Types
<1>2. RunTypes
  BY DEF Init, Empty, RunTypes, RunType, ChannelType, StoppedType, Types, States
<1>3. Locks
  BY DEF Init, InitUI, Locks
<1> QED
  BY <1>1, <1>2, <1>3 DEF TypeInv

\* Every variable of the runner keeps its type, and who sends a directive on the
\* manager's channel holds both mutexes.
THEOREM RunnerTypes == Spec => []TypeOK
<1>2. TypeInv => TypeOK
  BY DEF TypeInv, TypeOK, UITypes, RunTypes, UIType, ReceiverType, RunType, ChannelType,
         StoppedType, Locks
<1> QED
  BY InitTypes, <1>2, TypeNext, PTL DEF Spec

-----------------------------------------------------------------------------
\* No step lets the program outlive its lease.
LEMMA ProgramNext ==
    TypeInv /\ ProgramInv /\ [Next]_vars => ProgramInv'
<1> SUFFICES ASSUME TypeInv /\ ProgramInv, [Next]_vars
             PROVE  ProgramInv'
  OBVIOUS
<1> USE DEF TypeInv, RunTypes, RunType, StoppedType, States, ProgramInv
<1>1. CASE Acquire
  BY <1>1 DEF Acquire, uiVars, managerVars
<1>2. CASE ReceiveState
  BY <1>2 DEF ReceiveState, uiVars, managerVars
<1>3. CASE RunEnds
  BY <1>3 DEF RunEnds, ShutdownAll, uiVars, managerVars
<1>4. CASE HandleErrorStarting
  BY <1>4 DEF HandleErrorStarting, Begin, Direct
<1>5. CASE HandleError
  BY <1>5 DEF HandleError, Begin, Direct, NoDirective
<1>6. CASE HandleExpired
  BY <1>6 DEF HandleExpired, Begin, NoDirective, Shutdown
<1>7. CASE HandleQueued
  BY <1>7 DEF HandleQueued, Begin, Direct, NoDirective, Shutdown
<1>8. CASE HandleActive
  <2>1. run.state \in {"active", "notRequired"} /\ UNCHANGED <<program, stopped>>
    BY <1>8 DEF HandleActive, Begin
  <2>2. run'.state = run.state /\ run'.at # "init"
    BY <1>8 DEF HandleActive, Direct, NoDirective
  <2> QED
    BY <2>1, <2>2
<1>9. CASE HandleUnexpected
  BY <1>9 DEF HandleUnexpected, Begin, NoDirective
<1>10. CASE Change
  BY <1>10 DEF Change, NoChange, BeginChange, managerVars
<1>11. CASE Changed
  BY <1>11 DEF Changed, EndChange
<1>12. CASE Finish
  BY <1>12 DEF Finish, Executes, uiVars, managerVars
<1>13. CASE Execute
  BY <1>13 DEF Execute, Executes, uiVars, managerVars
<1>14. CASE RunFails
  BY <1>14 DEF RunFails, ShutdownAll, uiVars, managerVars
<1>15. CASE StopWaiting
  BY <1>15 DEF StopWaiting, Shutdown, Returned, managerVars
<1>16. CASE Acknowledge
  BY <1>16 DEF Acknowledge, managerVars
<1>17. CASE ShowNothing /\ UNCHANGED runnerVars
  BY <1>17 DEF ShowNothing, runnerVars, managerVars, Cancelled, Returned
<1>18. CASE (Ready \/ Show) /\ UNCHANGED runnerVars
  BY <1>18 DEF Ready, Show, runnerVars, managerVars
<1>19. CASE DialogEnds /\ UNCHANGED runnerVars
  BY <1>19 DEF DialogEnds, runnerVars, managerVars, Cancelled, Returned
<1>20. CASE UserClosed /\ UNCHANGED runnerVars
  BY <1>20 DEF UserClosed, runnerVars, managerVars
<1>21. CASE NextDirective /\ UNCHANGED runnerVars
  BY <1>21 DEF NextDirective, runnerVars, managerVars, NewReceiver
<1>22. CASE Compare
  BY <1>22 DEF Compare, Returned, BeginChange, managerVars
<1>23. CASE Compared
  BY <1>23 DEF Compared, EndChange, Returned
<1>24. CASE UIDone
  BY <1>24 DEF UIDone, UIEnds, ShutdownAll, managerVars
<1>25. CASE ReceiveClosed /\ UNCHANGED runnerVars
  BY <1>25 DEF ReceiveClosed, runnerVars, managerVars
<1>26. CASE StopUIDone
  BY <1>26 DEF StopUIDone, StopUI, runnerVars
<1>27. CASE Release
  BY <1>27 DEF Release, uiVars, managerVars
<1>28. CASE ProgramEnds
  BY <1>28 DEF ProgramEnds, Shutdown, uiVars, managerVars
<1>29. CASE Interrupt
  BY <1>29 DEF Interrupt, ShutdownAll, uiVars, managerVars
<1>30. CASE UserCloses /\ UNCHANGED runnerVars
  BY <1>30 DEF UserCloses, runnerVars, managerVars
<1>31. CASE ShowFails /\ UNCHANGED runnerVars
  BY <1>31 DEF ShowFails, runnerVars, managerVars, Returned
<1>32. CASE \E state \in States : Publish(state)
  BY <1>32 DEF Publish, uiVars, managerVars
<1>33. CASE UNCHANGED vars
  BY <1>33 DEF vars, uiVars, managerVars, runnerVars
<1> QED
  BY <1>1, <1>2, <1>3, <1>4, <1>5, <1>6, <1>7, <1>8, <1>9, <1>10, <1>11, <1>12, <1>13,
       <1>14, <1>15, <1>16, <1>17, <1>18, <1>19, <1>20, <1>21, <1>22, <1>23, <1>24,
       <1>25, <1>26, <1>27, <1>28, <1>29, <1>30, <1>31, <1>32, <1>33 DEF Next,
       RunStep, Callback, UIStep, Receiver

\* No step leaves a restored connection without a dialog to acknowledge it.
LEMMA AcknowledgeNext ==
    TypeInv /\ AcknowledgeInv /\ [Next]_vars => AcknowledgeInv'
<1> SUFFICES ASSUME TypeInv /\ AcknowledgeInv, [Next]_vars
             PROVE  AcknowledgeInv'
  OBVIOUS
<1> USE DEF TypeInv, UITypes, RunTypes, UIType, RunType, Locks, Types,
            AcknowledgeInv, Justified
<1>1. CASE Acquire
  BY <1>1 DEF Acquire, uiVars, managerVars
<1>2. CASE ReceiveState
  BY <1>2 DEF ReceiveState, uiVars, managerVars
<1>3. CASE RunEnds
  BY <1>3 DEF RunEnds, ShutdownAll, uiVars, managerVars
<1>4. CASE HandleErrorStarting
  BY <1>4 DEF HandleErrorStarting, Begin, Direct
<1>5. CASE HandleError
  <2>1. /\ program # "none" /\ UNCHANGED <<program, restored, current, open, ui>>
        /\ \/ /\ warned' = TRUE
              /\ run' = [run EXCEPT !.at = "change", !.type = "Disconnected"]
           \/ run' = [run EXCEPT !.at = "finish"] /\ UNCHANGED warned
        /\ run.at = "lock"
    BY <1>5 DEF HandleError, Begin, Direct, NoDirective
  <2>2. CASE warned' = TRUE /\ run' = [run EXCEPT !.at = "change", !.type = "Disconnected"]
    BY <2>1, <2>2
  <2>3. CASE run' = [run EXCEPT !.at = "finish"] /\ UNCHANGED warned
    BY <2>1, <2>3
  <2> QED
    BY <2>1, <2>2, <2>3
<1>6. CASE HandleExpired
  BY <1>6 DEF HandleExpired, Begin, NoDirective, Shutdown
<1>7. CASE HandleQueued
  BY <1>7 DEF HandleQueued, Begin, Direct, NoDirective, Shutdown
<1>8. CASE HandleActive
  BY <1>8 DEF HandleActive, Begin, Direct, NoDirective
<1>9. CASE HandleUnexpected
  BY <1>9 DEF HandleUnexpected, Begin, NoDirective
<1>10. CASE Change
  <2>1. UNCHANGED <<ui, program, warned, restored, open>> /\ run.at = "change"
    BY <1>10 DEF Change, NoChange, BeginChange, managerVars
  <2>2. run'.at \in {"finish", "send"}
    BY <1>10 DEF Change
  <2>3. ~open \/ current' = run.type
    BY <1>10 DEF Change, NoChange, BeginChange, managerVars
  <2> QED
    BY <2>1, <2>2, <2>3
<1>11. CASE Changed
  BY <1>11 DEF Changed, EndChange
<1>12. CASE Finish
  BY <1>12 DEF Finish, Executes, uiVars, managerVars
<1>13. CASE Execute
  BY <1>13 DEF Execute, Executes, uiVars, managerVars
<1>14. CASE RunFails
  BY <1>14 DEF RunFails, ShutdownAll, uiVars, managerVars
<1>15. CASE StopWaiting
  BY <1>15 DEF StopWaiting, Shutdown, Returned, managerVars
<1>16. CASE Acknowledge
  BY <1>16 DEF Acknowledge, managerVars
<1>17. CASE ShowNothing /\ UNCHANGED runnerVars
  BY <1>17 DEF ShowNothing, runnerVars, managerVars, Cancelled, Returned
<1>18. CASE (Ready \/ Show) /\ UNCHANGED runnerVars
  BY <1>18 DEF Ready, Show, runnerVars, managerVars
<1>19. CASE DialogEnds /\ UNCHANGED runnerVars
  BY <1>19 DEF DialogEnds, runnerVars, managerVars, Cancelled, Returned
<1>20. CASE UserClosed /\ UNCHANGED runnerVars
  BY <1>20 DEF UserClosed, runnerVars, managerVars
<1>21. CASE NextDirective /\ UNCHANGED runnerVars
  BY <1>21 DEF NextDirective, runnerVars, managerVars, NewReceiver
<1>22. CASE Compare
  <2>1. UNCHANGED <<open, run, program, warned, restored>> /\ ui.at = "compare" /\ mutex = "ui"
    BY <1>22 DEF Compare, BeginChange, managerVars
  <2>2. CASE ui' = Returned("none") /\ current' = current
    BY <2>1, <2>2 DEF Returned
  <2>3. CASE ui' = [ui EXCEPT !.at = "send"] /\ current = ui.type /\ current' = "None"
    BY <2>1, <2>3
  <2> QED
    BY <1>22, <2>2, <2>3 DEF Compare, BeginChange, managerVars
<1>23. CASE Compared
  BY <1>23 DEF Compared, EndChange, Returned
<1>24. CASE UIDone
  BY <1>24 DEF UIDone, UIEnds, ShutdownAll, managerVars
<1>25. CASE ReceiveClosed /\ UNCHANGED runnerVars
  BY <1>25 DEF ReceiveClosed, runnerVars, managerVars
<1>26. CASE StopUIDone
  BY <1>26 DEF StopUIDone, StopUI, runnerVars
<1>27. CASE Release
  BY <1>27 DEF Release, uiVars, managerVars
<1>28. CASE ProgramEnds
  BY <1>28 DEF ProgramEnds, Shutdown, uiVars, managerVars
<1>29. CASE Interrupt
  BY <1>29 DEF Interrupt, ShutdownAll, uiVars, managerVars
<1>30. CASE UserCloses /\ UNCHANGED runnerVars
  BY <1>30 DEF UserCloses, runnerVars, managerVars
<1>31. CASE ShowFails /\ UNCHANGED runnerVars
  BY <1>31 DEF ShowFails, runnerVars, managerVars, Returned
<1>32. CASE \E state \in States : Publish(state)
  BY <1>32 DEF Publish, uiVars, managerVars
<1>33. CASE UNCHANGED vars
  BY <1>33 DEF vars, uiVars, managerVars, runnerVars
<1> QED
  BY <1>1, <1>2, <1>3, <1>4, <1>5, <1>6, <1>7, <1>8, <1>9, <1>10, <1>11, <1>12, <1>13,
       <1>14, <1>15, <1>16, <1>17, <1>18, <1>19, <1>20, <1>21, <1>22, <1>23, <1>24,
       <1>25, <1>26, <1>27, <1>28, <1>29, <1>30, <1>31, <1>32, <1>33 DEF Next,
       RunStep, Callback, UIStep, Receiver

\* No step loses the current directive.
LEMMA DirectiveNext ==
    TypeInv /\ DirectiveInv /\ [Next]_vars => DirectiveInv'
<1> SUFFICES ASSUME TypeInv /\ DirectiveInv, [Next]_vars
             PROVE  DirectiveInv'
  OBVIOUS
<1> USE DEF TypeInv, UITypes, RunTypes, UIType, RunType, ReceiverType, StoppedType,
            Locks, Types, DirectiveInv, InFlight
<1>1. CASE Acquire
  BY <1>1 DEF Acquire, uiVars, managerVars
<1>2. CASE ReceiveState
  BY <1>2 DEF ReceiveState, uiVars, managerVars
<1>3. CASE RunEnds
  BY <1>3 DEF RunEnds, ShutdownAll, uiVars, managerVars
<1>4. CASE HandleErrorStarting
  BY <1>4 DEF HandleErrorStarting, Begin, Direct
<1>5. CASE HandleError
  BY <1>5 DEF HandleError, Begin, Direct, NoDirective
<1>6. CASE HandleExpired
  BY <1>6 DEF HandleExpired, Begin, NoDirective, Shutdown
<1>7. CASE HandleQueued
  BY <1>7 DEF HandleQueued, Begin, Direct, NoDirective, Shutdown
<1>8. CASE HandleActive
  BY <1>8 DEF HandleActive, Begin, Direct, NoDirective
<1>9. CASE HandleUnexpected
  BY <1>9 DEF HandleUnexpected, Begin, NoDirective
<1>10. CASE Change
  BY <1>10 DEF Change, NoChange, BeginChange, managerVars
<1>11. CASE Changed
  BY <1>11 DEF Changed, EndChange
<1>12. CASE Finish
  BY <1>12 DEF Finish, Executes, uiVars, managerVars
<1>13. CASE Execute
  BY <1>13 DEF Execute, Executes, uiVars, managerVars
<1>14. CASE RunFails
  BY <1>14 DEF RunFails, ShutdownAll, uiVars, managerVars
<1>15. CASE StopWaiting
  BY <1>15 DEF StopWaiting, Shutdown, Returned, managerVars
<1>16. CASE Acknowledge
  BY <1>16 DEF Acknowledge, managerVars
<1>17. CASE ShowNothing /\ UNCHANGED runnerVars
  BY <1>17 DEF ShowNothing, runnerVars, managerVars, Cancelled, Returned
<1>18. CASE (Ready \/ Show) /\ UNCHANGED runnerVars
  BY <1>18 DEF Ready, Show, runnerVars, managerVars
<1>19. CASE DialogEnds /\ UNCHANGED runnerVars
  BY <1>19 DEF DialogEnds, runnerVars, managerVars, Cancelled, Returned
<1>20. CASE UserClosed /\ UNCHANGED runnerVars
  BY <1>20 DEF UserClosed, runnerVars, managerVars
<1>21. CASE NextDirective /\ UNCHANGED runnerVars
  BY <1>21 DEF NextDirective, runnerVars, managerVars, NewReceiver
<1>22. CASE Compare
  <2>1. UNCHANGED <<open, receiver, stopped>> /\ ui.at = "compare"
    BY <1>22 DEF Compare, BeginChange, managerVars
  <2>2. CASE /\ ui' = Returned("none") /\ UNCHANGED <<current, sender>>
             /\ sender = "nobody" /\ (~open \/ current # ui.type)
    BY <2>1, <2>2 DEF Returned
  <2>3. CASE ui' = [ui EXCEPT !.at = "send"] /\ sender' = "ui"
    BY <2>1, <2>3
  <2> QED
    BY <1>22, <2>2, <2>3 DEF Compare, BeginChange, managerVars
<1>23. CASE Compared
  BY <1>23 DEF Compared, EndChange, Returned
<1>24. CASE UIDone
  BY <1>24 DEF UIDone, UIEnds, ShutdownAll, managerVars
<1>25. CASE ReceiveClosed /\ UNCHANGED runnerVars
  BY <1>25 DEF ReceiveClosed, runnerVars, managerVars
<1>26. CASE StopUIDone
  BY <1>26 DEF StopUIDone, StopUI, runnerVars
<1>27. CASE Release
  BY <1>27 DEF Release, uiVars, managerVars
<1>28. CASE ProgramEnds
  BY <1>28 DEF ProgramEnds, Shutdown, uiVars, managerVars
<1>29. CASE Interrupt
  BY <1>29 DEF Interrupt, ShutdownAll, uiVars, managerVars
<1>30. CASE UserCloses /\ UNCHANGED runnerVars
  BY <1>30 DEF UserCloses, runnerVars, managerVars
<1>31. CASE ShowFails /\ UNCHANGED runnerVars
  BY <1>31 DEF ShowFails, runnerVars, managerVars, Returned
<1>32. CASE \E state \in States : Publish(state)
  BY <1>32 DEF Publish, uiVars, managerVars
<1>33. CASE UNCHANGED vars
  BY <1>33 DEF vars, uiVars, managerVars, runnerVars
<1> QED
  BY <1>1, <1>2, <1>3, <1>4, <1>5, <1>6, <1>7, <1>8, <1>9, <1>10, <1>11, <1>12, <1>13,
       <1>14, <1>15, <1>16, <1>17, <1>18, <1>19, <1>20, <1>21, <1>22, <1>23, <1>24,
       <1>25, <1>26, <1>27, <1>28, <1>29, <1>30, <1>31, <1>32, <1>33 DEF Next,
       RunStep, Callback, UIStep, Receiver

-----------------------------------------------------------------------------
\* The program does not run on once the runner has handled the loss of its lease,
\* whatever the maintainer publishes and the user does (runner.go:169-173, 190-201).
THEOREM ProgramNeedsLease == Spec => []NoProgramWithoutLease
<1>1. Init => ProgramInv
  BY DEF Init, InitUI, NewReceiver, ProgramInv
<1>2. TypeInv /\ ProgramInv => NoProgramWithoutLease
  BY DEF ProgramInv, NoProgramWithoutLease
<1> QED
  BY <1>1, <1>2, InitTypes, TypeNext, ProgramNext, PTL DEF Spec

\* A runner that waits for the user to acknowledge that the connection is back has
\* asked for the dialog that does so, or will (runner.go:212-220, 307-315).
THEOREM AcknowledgementIsPending == Spec => []AcknowledgementPending
<1>1. Init => AcknowledgeInv
  BY DEF Init, InitUI, NewReceiver, AcknowledgeInv, Justified
<1>2. TypeInv /\ AcknowledgeInv => AcknowledgementPending
  BY DEF TypeInv, Locks, AcknowledgeInv, AcknowledgementPending
<1> QED
  BY <1>1, <1>2, InitTypes, TypeNext, AcknowledgeNext, PTL DEF Spec

\* When nothing is under way the user sees the dialog the runner asked for last:
\* no interleaving of the user, the receiver and two senders loses a directive
\* (manager.go:57-88, 110-129).
THEOREM DialogIsShown == Spec => []DialogShown
<1>1. Init => DirectiveInv
  BY DEF Init, InitUI, NewReceiver, DirectiveInv, InFlight
<1>2. TypeInv /\ DirectiveInv => DialogShown
  BY DEF TypeInv, UITypes, RunTypes, RunType, Locks, DirectiveInv, InFlight, DialogShown
<1> QED
  BY <1>1, <1>2, InitTypes, TypeNext, DirectiveNext, PTL DEF Spec
=============================================================================
