--------------------------- MODULE ReconnectModal ---------------------------
(***************************************************************************)
(* Components/Layout/ReconnectModal.razor.js: what a browser does when a   *)
(* page loses the connection of its circuit.                               *)
(*                                                                         *)
(* A handler runs up to its next await without interruption, and what      *)
(* follows an await runs in one step with the answer.  Blazor's client and *)
(* its server are external, as the script's comments describe them: a call *)
(* throws when the server is not reached, and otherwise says whether it    *)
(* accepted.  What it says to a page that is connected already is left     *)
(* open.                                                                   *)
(***************************************************************************)
EXTENDS Naturals

CONSTANT Calls      \* bound: calls of retry or resume under way at once

VARIABLES
    reachable,      \* the server can be reached
    circuit,        \* server: "alive", "stored" for resuming, or "gone"
    connected,      \* Blazor: the page is connected to its circuit
    class,          \* Blazor: the dialog's class, or "unloaded" when the page is over
    opened,         \* the dialog is open
    visible,        \* document.visibilityState = "visible"
    listening,      \* retryWhenDocumentBecomesVisible is registered
    call,           \* per call: what it awaits
    overlapped      \* history: a button was pressed during another call

env == <<reachable, circuit>>
vars == <<env, connected, class, opened, visible, listening, call, overlapped>>

Init ==
    /\ reachable = TRUE /\ circuit = "alive"
    /\ connected = TRUE /\ class = "hide"
    /\ opened = FALSE /\ visible \in BOOLEAN /\ listening = FALSE
    /\ call = [c \in Calls |-> "none"]
    /\ overlapped = FALSE

UnderWay(c) == call[c] # "none"
AnyUnderWay == \E c \in Calls : UnderWay(c)

---------------------------------------------------------------------------
(* The event components-reconnect-state-changed.                           *)

\* location.reload(): dialog, listeners and calls are gone with the page.
Reload ==
    /\ class' = "unloaded" /\ connected' = FALSE /\ opened' = FALSE
    /\ listening' = FALSE /\ call' = [c \in Calls |-> "none"]

\* Mutant: the dialog stays open when the connection is back.
handleWithoutClose(state) ==
    /\ opened' = (opened \/ state = "show")
    /\ listening' = (listening \/ state = "failed")

handleReconnectStateChanged(state) ==
    /\ opened' = IF state = "show" THEN TRUE ELSE IF state = "hide" THEN FALSE ELSE opened
    /\ listening' = (listening \/ state = "failed")

\* Blazor is connected again, by its own attempt or by a call of the script.
Up ==
    /\ connected' = TRUE /\ class' = "hide"
    /\ handleReconnectStateChanged("hide")

LoseConnection ==
    /\ connected
    /\ connected' = FALSE /\ class' = "show"
    /\ handleReconnectStateChanged("show")
    /\ UNCHANGED <<env, visible, call, overlapped>>

\* The server stores the circuit and closes the connection.
Pause ==
    /\ connected /\ circuit = "alive"
    /\ circuit' = "stored"
    /\ connected' = FALSE /\ class' = "paused"
    /\ handleReconnectStateChanged("show")
    /\ UNCHANGED <<reachable, visible, call, overlapped>>

\* Blazor's own attempts: accepted, refused (the event "rejected"), or given up
\* after the last.
AutomaticAttempt ==
    /\ class = "show"
    /\ \/ reachable /\ circuit = "alive" /\ Up /\ UNCHANGED call
       \/ reachable /\ circuit # "alive" /\ Reload
       \/ /\ ~reachable
          /\ class' = "failed" /\ handleReconnectStateChanged("failed")
          /\ UNCHANGED <<connected, call>>
    /\ UNCHANGED <<env, visible, overlapped>>

---------------------------------------------------------------------------
(* The server.                                                             *)

ServerComesAndGoes ==
    /\ reachable' = ~reachable
    /\ UNCHANGED <<circuit, connected, class, opened, visible, listening, call, overlapped>>

\* A circuit without a connection is stored for a while, and dropped in the end.
Evict ==
    /\ ~connected
    /\ \/ circuit = "alive" /\ circuit' \in {"stored", "gone"}
       \/ circuit = "stored" /\ circuit' = "gone"
    /\ UNCHANGED <<reachable, connected, class, opened, visible, listening, call, overlapped>>

---------------------------------------------------------------------------
(* The script.                                                             *)

Free(c) == ~UnderWay(c)

\* Mutant: the listener stays registered while the attempt runs.
RetryKeepingListener(c) ==
    /\ Free(c)
    /\ call' = [call EXCEPT ![c] = "reconnect"]
    /\ UNCHANGED listening

retry(c) ==
    /\ Free(c)
    /\ call' = [call EXCEPT ![c] = "reconnect"]
    /\ listening' = FALSE

Pressed(c) == overlapped' = (overlapped \/ AnyUnderWay)

\* The Retry button is displayed in the class "failed" only.
ClickRetry(c) ==
    /\ visible /\ class = "failed"
    /\ retry(c)
    /\ Pressed(c)
    /\ UNCHANGED <<env, connected, class, opened, visible>>

\* visibilitychange.
VisibilityChanges(c) ==
    /\ visible' = ~visible
    /\ IF listening /\ visible' THEN retry(c) ELSE UNCHANGED <<call, listening>>
    /\ UNCHANGED <<env, connected, class, opened, overlapped>>

\* What the server may answer to a call it is reached by.
Accepts(from) == IF connected THEN BOOLEAN ELSE {circuit = from}

Ends(c) == call' = [call EXCEPT ![c] = "none"]

\* Mutant: the catch does not register the listener again.
RetryThrowsSilently(c) ==
    /\ call[c] \in {"reconnect", "resume"} /\ ~reachable
    /\ Ends(c)
    /\ UNCHANGED <<env, connected, class, opened, visible, listening, overlapped>>

RetryThrows(c) ==
    /\ call[c] \in {"reconnect", "resume"} /\ ~reachable
    /\ Ends(c) /\ listening' = TRUE
    /\ UNCHANGED <<env, connected, class, opened, visible, overlapped>>

Reconnected(c) ==
    /\ call[c] = "reconnect" /\ reachable
    /\ TRUE \in Accepts("alive")
    /\ Up /\ Ends(c)
    /\ UNCHANGED <<env, visible, overlapped>>

\* The server knows the circuit no more.
Refused(c) ==
    /\ call[c] = "reconnect" /\ reachable
    /\ FALSE \in Accepts("alive")
    /\ call' = [call EXCEPT ![c] = "resume"]
    /\ UNCHANGED <<env, connected, class, opened, visible, listening, overlapped>>

\* The Resume button is displayed in the classes of a paused session.
ClickResume(c) ==
    /\ visible /\ class \in {"paused", "resume-failed"}
    /\ Free(c) /\ call' = [call EXCEPT ![c] = "resumeButton"]
    /\ Pressed(c)
    /\ UNCHANGED <<env, connected, class, opened, visible, listening>>

ResumeThrows(c) ==
    /\ call[c] = "resumeButton" /\ ~reachable
    /\ Ends(c)
    /\ class' = IF class = "paused" THEN "resume-failed" ELSE class
    /\ UNCHANGED <<env, connected, opened, visible, listening, overlapped>>

\* retry closes the dialog itself; resume leaves it to the "hide" of Blazor, which
\* is external.
Resumed(c) ==
    /\ call[c] \in {"resume", "resumeButton"} /\ reachable
    /\ TRUE \in Accepts("stored")
    /\ circuit' = "alive"
    /\ Up /\ Ends(c)
    /\ UNCHANGED <<reachable, visible, overlapped>>

NotResumed(c) ==
    /\ call[c] \in {"resume", "resumeButton"} /\ reachable
    /\ FALSE \in Accepts("stored")
    /\ Reload
    /\ UNCHANGED <<env, visible, overlapped>>

Answer(c) ==
    \/ RetryThrows(c) \/ Reconnected(c) \/ Refused(c)
    \/ ResumeThrows(c) \/ Resumed(c) \/ NotResumed(c)

Blazor == LoseConnection \/ Pause \/ AutomaticAttempt

Next ==
    \/ Blazor \/ ServerComesAndGoes \/ Evict
    \/ \E c \in Calls : ClickRetry(c) \/ ClickResume(c) \/ VisibilityChanges(c) \/ Answer(c)

Spec == Init /\ [][Next]_vars

\* Attempts and calls end, and the user comes back to the page now and then.
Fairness ==
    /\ WF_vars(AutomaticAttempt)
    /\ WF_vars(\E c \in Calls : VisibilityChanges(c))
    /\ \A c \in Calls : WF_vars(Answer(c))

FairSpec == Spec /\ Fairness

---------------------------------------------------------------------------
(* Properties.                                                             *)

\* The dialog is open exactly while the page has no connection: nobody looks at
\* a page that is dead without saying so, or at a dialog before a live one.
TypeOK ==
    /\ {reachable, connected, opened, visible, listening, overlapped} \subseteq BOOLEAN
    /\ circuit \in {"alive", "stored", "gone"}
    /\ class \in {"hide", "show", "paused", "resume-failed", "failed", "unloaded"}
    /\ call \in [Calls -> {"none", "reconnect", "resume", "resumeButton"}]
    /\ connected = (class = "hide") /\ opened = (class \notin {"hide", "unloaded"})
    /\ connected => circuit = "alive"

\* The page is thrown away only with a circuit that is gone: the script tries to
\* resume first, the event "rejected" does not.  Only a user who presses a button
\* while a call is under way may have two calls race, and lose what one resumed.
ReloadLosesNoSession ==
    [][Reload /\ class # "unloaded" =>
        overlapped \/ circuit = "gone" \/ (circuit = "stored" /\ class = "show")]_vars

\* Once the server stays reachable a page that has failed is connected again or
\* loaded anew, without a button being pressed.
Recovers ==
    <>[]reachable => [](class = "failed" => <>(class \in {"hide", "unloaded"}))
=============================================================================
