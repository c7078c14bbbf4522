------------------------------- MODULE Runner --------------------------------
(***************************************************************************)
(* The runner: it maintains a lease, starts a program when the lease is    *)
(* active and ends it when the lease is lost, and keeps the user informed  *)
(* by the lease user interface.  Its goroutine handles the states of the   *)
(* lease maintainer with r.mutex held; the callbacks of the dialogs, on    *)
(* the main thread, take r.mutex too.                                      *)
(*                                                                         *)
(* External: the program, and the lease maintainer, reduced to what        *)
(* LeaseMaintainer shows its owner: a channel of capacity one, which is    *)
(* closed when Release and Close have returned.                            *)
(***************************************************************************)
EXTENDS LeaseUI

VARIABLES
    run,      \* the goroutine: where it is, the state it handles, the directive
    mutex,    \* who holds r.mutex
    program,  \* the command, which r.running says has been started
    warned,   \* r.warned
    restored, \* r.restored
    channel,  \* the maintainer's channel: its content, and whether it is closed
    stopped,  \* the contexts of Run and of run: whether they are cancelled
    release   \* the goroutine that releases the lease

runnerVars == <<run, mutex, program, warned, restored, channel, stopped, release>>
vars == <<uiVars, runnerVars>>

\* What a lease.State tells the runner.  A failed renewal finds the last lease
\* running or expired; a lease may come back released, which is unexpected.
States == {"error", "expired", "queued", "active", "notRequired", "released"}

Empty == [state |-> "none", closed |-> FALSE]

Init ==
    /\ InitUI
    /\ run = [at |-> "init", state |-> "none", type |-> "None"]
    /\ mutex = "nobody" /\ program = "none"
    /\ warned = FALSE /\ restored = FALSE
    /\ channel = Empty
    /\ stopped = [outer |-> FALSE, inner |-> FALSE]
    /\ release = "waiting"

\* The context of run is derived from that of Run.
Shutdown == stopped' = [stopped EXCEPT !.inner = TRUE]
ShutdownAll == stopped' = [outer |-> TRUE, inner |-> TRUE]

-----------------------------------------------------------------------------
(* The goroutine: run. *)

Acquire ==
    /\ run.at = "init"
    /\ run' = [run EXCEPT !.at = "receive"]
    /\ UNCHANGED <<uiVars, mutex, program, warned, restored, channel, stopped, release>>

ReceiveState ==
    /\ run.at = "receive" /\ channel.state # "none"
    /\ run' = [at |-> "lock", state |-> channel.state, type |-> "None"]
    /\ channel' = [channel EXCEPT !.state = "none"]
    /\ UNCHANGED <<uiVars, mutex, program, warned, restored, stopped, release>>

\* run returns when the channel is closed, and done cancels what is left.
RunEnds ==
    /\ run.at = "receive" /\ channel.state = "none" /\ channel.closed
    /\ run' = [run EXCEPT !.at = "ended"]
    /\ ShutdownAll
    /\ UNCHANGED <<uiVars, mutex, program, warned, restored, channel, release>>

\* r.mutex is taken and the user interface updated; then the handler of the state
\* begins.  The rest of it follows in Change, Changed and Finish.
Begin(states) ==
    /\ run.at = "lock" /\ run.state \in states
    /\ mutex = "nobody" /\ sender = "nobody"
    /\ mutex' = "run" /\ primed' = TRUE
    /\ UNCHANGED <<current, open, sender, ui, receiver, program, channel, release>>

Direct(type) == run' = [run EXCEPT !.at = "change", !.type = type]
NoDirective == run' = [run EXCEPT !.at = "finish"]

\* handleError, before there is a program ...
HandleErrorStarting ==
    /\ Begin({"error", "expired"}) /\ program = "none"
    /\ Direct("Startup")
    /\ UNCHANGED <<warned, restored, stopped>>

\* ... and later: the user is warned, or not yet, or the lease has expired.
HandleError ==
    /\ Begin({"error"}) /\ program # "none"
    /\ \/ Direct("Disconnected") /\ warned' = TRUE
       \/ NoDirective /\ UNCHANGED warned
    /\ UNCHANGED <<restored, stopped>>

HandleExpired ==
    /\ Begin({"expired"}) /\ program # "none"
    /\ NoDirective /\ Shutdown
    /\ UNCHANGED <<warned, restored>>

\* Mutant: the program goes on without a license.
HandleQueuedOn ==
    /\ Begin({"queued"})
    /\ IF program # "none" THEN NoDirective /\ UNCHANGED stopped
                           ELSE Direct("Queued") /\ UNCHANGED stopped
    /\ UNCHANGED <<warned, restored>>

HandleQueued ==
    /\ Begin({"queued"})
    /\ IF program # "none" THEN NoDirective /\ Shutdown
                           ELSE Direct("Queued") /\ UNCHANGED stopped
    /\ UNCHANGED <<warned, restored>>

\* handleActive and handleLeaseNotRequired: a user who was warned is told that
\* the connection is back, and has to acknowledge that.
HandleActive ==
    /\ Begin({"active", "notRequired"})
    /\ IF warned THEN Direct("Connected")
       ELSE IF restored THEN NoDirective ELSE Direct("None")
    /\ restored' = (restored \/ warned) /\ warned' = FALSE
    /\ UNCHANGED stopped

HandleUnexpected ==
    /\ Begin({"released"})
    /\ NoDirective
    /\ UNCHANGED <<warned, restored, stopped>>

\* ui.Change
Change ==
    /\ run.at = "change"
    /\ \/ NoChange(run.type) /\ run' = [run EXCEPT !.at = "finish", !.type = "None"]
       \/ BeginChange("run", run.type) /\ run' = [run EXCEPT !.at = "send", !.type = "None"]
    /\ UNCHANGED <<ui, receiver, mutex, program, warned, restored, channel, stopped, release>>

Changed ==
    /\ run.at = "send"
    /\ EndChange("run")
    /\ run' = [run EXCEPT !.at = "finish"]
    /\ UNCHANGED <<ui, mutex, program, warned, restored, channel, stopped, release>>

\* The handler returns and r.mutex is given up.
Executes == run.state \in {"active", "notRequired"} /\ program = "none"

Finish ==
    /\ run.at = "finish" /\ ~Executes /\ run.state # "released"
    /\ run' = [run EXCEPT !.at = "receive"]
    /\ mutex' = "nobody"
    /\ UNCHANGED <<uiVars, program, warned, restored, channel, stopped, release>>

\* execute: a command does not start under a context that is cancelled.
Execute ==
    /\ run.at = "finish" /\ Executes /\ ~stopped.inner
    /\ program' = "running"
    /\ run' = [run EXCEPT !.at = "receive"]
    /\ mutex' = "nobody"
    /\ UNCHANGED <<uiVars, warned, restored, channel, stopped, release>>

\* run returns with an error: the command did not start, or the state is unexpected.
RunFails ==
    /\ run.at = "finish" /\ (Executes \/ run.state = "released")
    /\ run' = [run EXCEPT !.at = "ended"]
    /\ mutex' = "nobody"
    /\ ShutdownAll
    /\ UNCHANGED <<uiVars, program, warned, restored, channel, release>>

-----------------------------------------------------------------------------
(* The callbacks of the dialogs, on the main thread. *)

\* startupCallback and queuedCallback
StopWaiting ==
    /\ ui.at = "callback" /\ ui.type \in {"Startup", "Queued"} /\ mutex = "nobody"
    /\ IF ui.result = "user" THEN Shutdown ELSE UNCHANGED stopped
    /\ ui' = Returned("none")
    /\ UNCHANGED <<managerVars, receiver, run, mutex, program, warned, restored, channel, release>>

\* Mutant: the acknowledgement is not recorded.
AcknowledgeNot ==
    /\ ui.at = "callback" /\ ui.type \in {"Connected", "Disconnected"} /\ mutex = "nobody"
    /\ mutex' = "ui"
    /\ ui' = [ui EXCEPT !.at = "compare"]
    /\ UNCHANGED <<managerVars, receiver, restored, run, program, warned, channel, stopped, release>>

\* connectedCallback and disconnectedCallback (whose dismissal only defers warnings) ...
Acknowledge ==
    /\ ui.at = "callback" /\ ui.type \in {"Connected", "Disconnected"} /\ mutex = "nobody"
    /\ mutex' = "ui"
    /\ restored' = (restored /\ ui.type # "Connected")
    /\ ui' = [ui EXCEPT !.at = "compare"]
    /\ UNCHANGED <<managerVars, receiver, run, program, warned, channel, stopped, release>>

\* Mutant: a callback leaves the directive as it is.
CompareNot ==
    /\ ui.at = "compare"
    /\ ui' = Returned("none") /\ mutex' = "nobody"
    /\ UNCHANGED <<managerVars, receiver, run, program, warned, restored, channel, stopped, release>>

\* ... go on with CompareAndChange(ui.type, None, nil).
Compare ==
    /\ ui.at = "compare"
    /\ \/ /\ sender = "nobody" /\ (~open \/ current # ui.type)
          /\ ui' = Returned("none") /\ mutex' = "nobody"
          /\ UNCHANGED managerVars
       \/ /\ current = ui.type /\ BeginChange("ui", "None")
          /\ ui' = [ui EXCEPT !.at = "send"] /\ UNCHANGED mutex
    /\ UNCHANGED <<receiver, run, program, warned, restored, channel, stopped, release>>

Compared ==
    /\ ui.at = "send"
    /\ EndChange("ui")
    /\ ui' = Returned("none") /\ mutex' = "nobody"
    /\ UNCHANGED <<run, program, warned, restored, channel, stopped, release>>

-----------------------------------------------------------------------------
(* The rest of Run, and what is outside. *)

\* Manager.Run has returned, and done cancels what is left.
UIDone == UIEnds /\ ShutdownAll
          /\ UNCHANGED <<run, mutex, program, warned, restored, channel, release>>

StopUIDone == stopped.outer /\ StopUI /\ UNCHANGED runnerVars

\* The lease is released when the context is cancelled.  When that is before
\* Acquire, nothing stops the maintainer that Acquire starts.
Release ==
    /\ stopped.inner /\ release = "waiting"
    /\ IF run.at = "init"
       THEN release' = "missed" /\ UNCHANGED channel
       ELSE release' = "done" /\ channel' = [channel EXCEPT !.closed = TRUE]
    /\ UNCHANGED <<uiVars, run, mutex, program, warned, restored, stopped>>

Publish(state) ==
    /\ run.at \notin {"init", "ended"} /\ ~channel.closed /\ channel.state = "none"
    /\ channel' = [channel EXCEPT !.state = state]
    /\ UNCHANGED <<uiVars, run, mutex, program, warned, restored, stopped, release>>

\* The program ends, at the latest when the context is cancelled.
ProgramEnds ==
    /\ program = "running"
    /\ program' = "ended"
    /\ Shutdown
    /\ UNCHANGED <<uiVars, run, mutex, warned, restored, channel, release>>

\* The caller of Run cancels its context.
Interrupt ==
    /\ ~stopped.outer
    /\ ShutdownAll
    /\ UNCHANGED <<uiVars, run, mutex, program, warned, restored, channel, release>>

-----------------------------------------------------------------------------
RunStep ==
    \/ Acquire \/ ReceiveState \/ RunEnds \/ Change \/ Changed \/ Finish \/ Execute \/ RunFails
    \/ HandleErrorStarting \/ HandleError \/ HandleExpired \/ HandleQueued \/ HandleActive
    \/ HandleUnexpected

Callback == StopWaiting \/ Acknowledge

UIStep ==
    \/ (ShowNothing \/ Ready \/ Show \/ DialogEnds \/ UserClosed \/ NextDirective) /\ UNCHANGED runnerVars
    \/ Compare \/ Compared \/ UIDone

Receiver == ReceiveClosed /\ UNCHANGED runnerVars

Next ==
    \/ RunStep \/ Callback \/ UIStep \/ Receiver \/ StopUIDone \/ Release \/ ProgramEnds
    \/ Interrupt
    \/ (UserCloses \/ ShowFails) /\ UNCHANGED runnerVars
    \/ \E state \in States : Publish(state)

Spec == Init /\ [][Next]_vars

(* The goroutines run; a mutex that is free again and again is taken at     *)
(* last; a program that is told to end does; the lease is released, or      *)
(* Release gives up after ten seconds.                                      *)
Fairness ==
    /\ WF_vars(RunStep) /\ WF_vars(UIStep) /\ WF_vars(Receiver) /\ SF_vars(StopUIDone)
    /\ SF_vars(Callback) /\ WF_vars(Release)
    /\ WF_vars(stopped.inner /\ ProgramEnds)

FairSpec == Spec /\ Fairness

-----------------------------------------------------------------------------
(* Properties *)

\* Every variable has its type, and who sends a directive holds both mutexes.
TypeOK ==
    /\ current \in Types /\ open \in BOOLEAN /\ primed \in BOOLEAN
    /\ sender \in {"nobody", "run", "ui"} /\ mutex \in {"nobody", "run", "ui"}
    /\ ui \in [at : {"start", "lock", "shown", "callback", "compare", "send", "returned", "ended"},
               type : Types, result : {"none", "user", "cancelled", "error"}]
    /\ receiver \in [at : {"waiting", "received", "left", "closed"}, next : Types]
    /\ run \in [at : {"init", "receive", "lock", "change", "send", "finish", "ended"},
                state : States \cup {"none"}, type : Types]
    /\ program \in {"none", "running", "ended"} /\ warned \in BOOLEAN /\ restored \in BOOLEAN
    /\ channel \in [state : States \cup {"none"}, closed : BOOLEAN]
    /\ stopped \in [outer : BOOLEAN, inner : BOOLEAN]
    /\ release \in {"waiting", "missed", "done"}
    /\ sender # "nobody" => mutex = sender

\* While nothing is under way, the user sees the dialog the runner asked for last:
\* no directive is lost, whether the user closes a dialog while its successor is
\* being sent or not (manager.go:57-88, 110-129).
DialogShown ==
    run.at = "receive" /\ ui.at = "shown" /\ receiver.at = "waiting" /\ open /\ ~stopped.inner
        => ui.type = current

\* As long as the runner waits for the user to acknowledge that the connection is
\* back, it has asked for the dialog that does so, or will with the next active
\* lease, although the callback of a dialog that was never shown is not called:
\* else it would never change the dialog again (runner.go:212-220, 307-315).
AcknowledgementPending ==
    mutex = "nobody" /\ open /\ restored => warned \/ current = "Connected"

\* The program does not run on when the runner has handled the news that it lost
\* its lease (runner.go:169-173, 190-201; run.go:13-14).
NoProgramWithoutLease ==
    program = "running" /\ run.at = "receive" /\ ~stopped.inner
        => run.state \in {"active", "notRequired", "error"}

\* Two directives in a row, the second sent with both mutexes held while the main
\* thread waits for r.mutex in the callback of the dialog that the first one closes,
\* or for m.mutex to show the dialog before that; or a directive after the user
\* interface has failed.  Nobody receives it then.
Stuck == run.at = "send" /\ receiver.at # "waiting" /\ ui.at \in {"lock", "callback", "ended"}

\* Once it is told to stop, Run returns, but for the cases above and a Release that
\* came before Acquire (runner.go:80-94, 101-112).
RunReturns ==
    stopped.inner ~> \/ run.at = "ended" /\ ui.at = "ended"
                     \/ Stuck \/ release = "missed"

\* The news that the lease is lost ends the program, whatever the runner and the
\* user interface are doing when it comes ("The program will only be run when and
\* while an active lease for the program has been acquired", run.go:13-14).
LostLeaseEndsProgram == channel.state \in {"expired", "queued"} ~> program # "running"
=============================================================================
