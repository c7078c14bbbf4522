------------------------------- MODULE LeaseUI -------------------------------
(***************************************************************************)
(* The lease user interface manager (leaseui.Manager, on Windows): its     *)
(* loop on the main thread, which shows the dialog that it was directed to *)
(* show, the goroutine that receives the next directive meanwhile, and     *)
(* Change and CompareAndChange, which send directives on an unbuffered     *)
(* channel with the mutex held.                                            *)
(*                                                                         *)
(* External: the user, who may close any dialog, and the dialogs, which    *)
(* may fail to be created.  A directive is a type: the callback of a type  *)
(* is always the same one, that of None is nil.                            *)
(***************************************************************************)
Types == {"None", "Startup", "Queued", "Connected", "Disconnected"}

VARIABLES
    current,  \* m.current
    open,     \* m.ch is not nil
    primed,   \* m.ready is closed
    sender,   \* who holds m.mutex while sending on m.ch
    ui,       \* the main thread: where it is, the dialog it shows, how that ended
    receiver  \* the goroutine of this turn of the loop, and what it received

managerVars == <<current, open, primed, sender>>
uiVars == <<managerVars, ui, receiver>>

NewReceiver == [at |-> "waiting", next |-> "None"]

InitUI ==
    /\ current = "None" /\ open = TRUE /\ primed = FALSE /\ sender = "nobody"
    /\ ui = [at |-> "start", type |-> "None", result |-> "none"]
    /\ receiver = NewReceiver

\* uiCtx, which the receiver cancels.
Cancelled == receiver.at # "waiting"

\* m.run has returned, with an error or not.
Returned(result) == [ui EXCEPT !.at = "returned", !.result = result]

-----------------------------------------------------------------------------
(* The main thread. *)

\* m.run: nothing is shown before there is a lease state, nor once the next
\* directive is there, if that is what the select sees.
ShowNothing ==
    /\ ui.at = "start" /\ Cancelled
    /\ ui' = Returned("none")
    /\ UNCHANGED <<managerVars, receiver>>

Ready ==
    /\ ui.at = "start" /\ primed
    /\ ui' = [ui EXCEPT !.at = "lock"]
    /\ UNCHANGED <<managerVars, receiver>>

\* The mutex is taken to make the model of the dialog, which then is shown ...
Show ==
    /\ ui.at = "lock" /\ sender = "nobody"
    /\ ui' = [ui EXCEPT !.at = "shown"]
    /\ UNCHANGED <<managerVars, receiver>>

\* ... or cannot be created.
ShowFails ==
    /\ ui.at = "lock" /\ sender = "nobody" /\ ui.type # "None"
    /\ ui' = Returned("error")
    /\ UNCHANGED <<managerVars, receiver>>

UserCloses ==
    /\ ui.at = "shown" /\ ui.type # "None"
    /\ ui' = [ui EXCEPT !.at = "callback", !.result = "user"]
    /\ UNCHANGED <<managerVars, receiver>>

\* Mutant: a dialog is left to the user to close.
DialogEndsNot ==
    /\ ui.at = "shown" /\ Cancelled /\ ui.type = "None"
    /\ ui' = Returned("none")
    /\ UNCHANGED <<managerVars, receiver>>

\* The dialog is closed for the next directive (runDialog); none has no callback.
DialogEnds ==
    /\ ui.at = "shown" /\ Cancelled
    /\ ui' = IF ui.type = "None" THEN Returned("none")
             ELSE [ui EXCEPT !.at = "callback", !.result = "cancelled"]
    /\ UNCHANGED <<managerVars, receiver>>

\* uiCancel: a receiver that still waits hands on None.
UserClosed ==
    /\ ui.at = "returned" /\ receiver.at = "waiting"
    /\ receiver' = [at |-> "left", next |-> "None"]
    /\ UNCHANGED <<managerVars, ui>>

NextDirective ==
    /\ ui.at = "returned" /\ receiver.at \in {"received", "left"} /\ ui.result # "error"
    /\ ui' = [at |-> "start", type |-> receiver.next, result |-> "none"]
    /\ receiver' = NewReceiver
    /\ UNCHANGED managerVars

\* Manager.Run returns.
UIEnds ==
    /\ ui.at = "returned" /\ Cancelled
    /\ receiver.at = "closed" \/ ui.result = "error"
    /\ ui' = [ui EXCEPT !.at = "ended", !.type = "None"]
    /\ UNCHANGED <<managerVars, receiver>>

\* The receiver finds the channel closed.
ReceiveClosed ==
    /\ receiver.at = "waiting" /\ ~open
    /\ receiver' = [at |-> "closed", next |-> "None"]
    /\ UNCHANGED <<managerVars, ui>>

\* m.stop, when the context of Run is cancelled or Run has returned.
StopUI ==
    /\ open /\ sender = "nobody"
    /\ open' = FALSE /\ primed' = TRUE
    /\ UNCHANGED <<current, sender, ui, receiver>>

-----------------------------------------------------------------------------
(* Change and CompareAndChange, for a caller. *)

\* The mutex is free, and there is nothing to do.
NoChange(type) == sender = "nobody" /\ (~open \/ current = type) /\ UNCHANGED managerVars

\* The mutex is taken until the directive is received.
BeginChange(caller, type) ==
    /\ sender = "nobody" /\ open /\ current # type
    /\ current' = type /\ sender' = caller
    /\ UNCHANGED <<open, primed>>

EndChange(caller) ==
    /\ sender = caller /\ receiver.at = "waiting"
    /\ receiver' = [at |-> "received", next |-> current]
    /\ sender' = "nobody"
    /\ UNCHANGED <<current, open, primed>>
=============================================================================
