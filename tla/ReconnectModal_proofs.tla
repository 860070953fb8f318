------------------------ MODULE ReconnectModal_proofs ------------------------
(***************************************************************************)
(* Theorems about ReconnectModal, for any number of calls.                 *)
(***************************************************************************)
EXTENDS ReconnectModal, TLAPS

Retrying(c) == call[c] \in {"reconnect", "resume"}
Resuming(c) == call[c] \in {"resume", "resumeButton"}
Paused == class \in {"paused", "resume-failed"}

\* As long as nobody presses a button during a call there is one call, or a
\* listener that will start one, or neither; and what is under way fits the state
\* of the page.
Single ==
    /\ \A c, d \in Calls : UnderWay(c) /\ UnderWay(d) => c = d
    /\ listening => class = "failed" /\ ~AnyUnderWay
    /\ \A c \in Calls : Retrying(c) => class = "failed"
    /\ \A c \in Calls : call[c] = "resumeButton" => Paused

\* A call that resumes is made for a circuit that is stored or gone.
ResumesStored ==
    /\ Paused => circuit # "alive"
    /\ \A c \in Calls : Resuming(c) => circuit # "alive"

IInv == TypeOK /\ (~overlapped => Single /\ ResumesStored)

---------------------------------------------------------------------------

\* The types, and that the dialog is open exactly while the page is dead, hold at
\* first and are preserved by every step.
LEMMA TypeInit == Init => TypeOK
BY DEF Init, TypeOK

LEMMA TypeStep == TypeOK /\ [Next]_vars => TypeOK'
<1> SUFFICES ASSUME TypeOK, [Next]_vars PROVE TypeOK'
    OBVIOUS
<1> USE DEF TypeOK
<1>1. CASE LoseConnection
    BY <1>1 DEF LoseConnection, handleReconnectStateChanged, env
<1>2. CASE Pause
    BY <1>2 DEF Pause, handleReconnectStateChanged
<1>3. CASE AutomaticAttempt
    BY <1>3 DEF AutomaticAttempt, Up, Reload, handleReconnectStateChanged, env
<1>4. CASE ServerComesAndGoes
    BY <1>4 DEF ServerComesAndGoes
<1>5. CASE Evict
    BY <1>5 DEF Evict
<1>6. ASSUME NEW c \in Calls, ClickRetry(c) PROVE TypeOK'
    BY <1>6 DEF ClickRetry, retry, Pressed, AnyUnderWay, UnderWay, env
<1>7. ASSUME NEW c \in Calls, ClickResume(c) PROVE TypeOK'
    BY <1>7 DEF ClickResume, Pressed, AnyUnderWay, UnderWay, env
<1>8. ASSUME NEW c \in Calls, VisibilityChanges(c) PROVE TypeOK'
    BY <1>8 DEF VisibilityChanges, retry, env
<1>9. ASSUME NEW c \in Calls, Answer(c) PROVE TypeOK'
    <2>1. CASE RetryThrows(c)
        BY <2>1 DEF RetryThrows, Ends, env
    <2>2. CASE Reconnected(c)
        BY <2>2 DEF Reconnected, Accepts, Up, handleReconnectStateChanged, Ends, env
    <2>3. CASE Refused(c)
        BY <2>3 DEF Refused, env
    <2>4. CASE ResumeThrows(c)
        BY <2>4 DEF ResumeThrows, Ends, env
    <2>5. CASE Resumed(c)
        BY <2>5 DEF Resumed, Up, handleReconnectStateChanged, Ends
    <2>6. CASE NotResumed(c)
        BY <2>6 DEF NotResumed, Reload, env
    <2>. QED  BY <1>9, <2>1, <2>2, <2>3, <2>4, <2>5, <2>6 DEF Answer
<1>10. CASE UNCHANGED vars
    BY <1>10 DEF vars, env
<1>. QED
    BY <1>1, <1>2, <1>3, <1>4, <1>5, <1>6, <1>7, <1>8, <1>9, <1>10 DEF Next, Blazor

---------------------------------------------------------------------------

\* In the initial states nothing is under way.
LEMMA InvInit == Init => IInv
<1> SUFFICES ASSUME Init PROVE IInv
    OBVIOUS
<1>1. TypeOK
    BY TypeInit
<1>2. Single /\ ResumesStored
    BY DEF Init, Single, ResumesStored, UnderWay, AnyUnderWay, Retrying, Resuming, Paused
<1>. QED
    BY <1>1, <1>2 DEF IInv

\* Every step that leaves calls alone one another keeps what is under way in order.
LEMMA InvStep == IInv /\ [Next]_vars => IInv'
<1> SUFFICES ASSUME IInv, [Next]_vars, ~overlapped' PROVE (Single /\ ResumesStored)'
    BY TypeStep DEF IInv
<1>1. TypeOK /\ TypeOK'
    BY TypeStep DEF IInv
<1>2. ~overlapped /\ Single /\ ResumesStored
    <2>1. overlapped' \in {overlapped, overlapped \/ AnyUnderWay}
        BY DEF Next, Blazor, LoseConnection, Pause, AutomaticAttempt, ServerComesAndGoes,
               Evict, ClickRetry, ClickResume, VisibilityChanges, Answer, Pressed,
               RetryThrows, Reconnected, Refused, ResumeThrows, Resumed, NotResumed, vars
    <2>. QED
        BY <1>1, <2>1 DEF IInv, TypeOK
<1> USE DEF TypeOK, Single, ResumesStored, UnderWay, AnyUnderWay, Retrying, Resuming, Paused
<1>3. CASE LoseConnection
    BY <1>1, <1>2, <1>3 DEF LoseConnection, handleReconnectStateChanged, env
<1>4. CASE Pause
    BY <1>1, <1>2, <1>4 DEF Pause, handleReconnectStateChanged
<1>5. CASE AutomaticAttempt
    BY <1>1, <1>2, <1>5 DEF AutomaticAttempt, Up, Reload, handleReconnectStateChanged, env
<1>6. CASE ServerComesAndGoes
    BY <1>1, <1>2, <1>6 DEF ServerComesAndGoes
<1>7. CASE Evict
    BY <1>1, <1>2, <1>7 DEF Evict
<1>8. ASSUME NEW c \in Calls, ClickRetry(c) PROVE (Single /\ ResumesStored)'
    BY <1>1, <1>2, <1>8 DEF ClickRetry, retry, Pressed, env
<1>9. ASSUME NEW c \in Calls, ClickResume(c) PROVE (Single /\ ResumesStored)'
    BY <1>1, <1>2, <1>9 DEF ClickResume, Pressed, env
<1>10. ASSUME NEW c \in Calls, VisibilityChanges(c) PROVE (Single /\ ResumesStored)'
    BY <1>1, <1>2, <1>10 DEF VisibilityChanges, retry, env
<1>11. ASSUME NEW c \in Calls, Answer(c) PROVE (Single /\ ResumesStored)'
    <2>1. CASE RetryThrows(c)
        BY <1>1, <1>2, <2>1 DEF RetryThrows, Ends, env
    <2>2. CASE Reconnected(c)
        BY <1>1, <1>2, <2>2 DEF Reconnected, Up, handleReconnectStateChanged, Ends, env
    <2>3. CASE Refused(c)
        BY <1>1, <1>2, <2>3 DEF Refused, Accepts, env
    <2>4. CASE ResumeThrows(c)
        BY <1>1, <1>2, <2>4 DEF ResumeThrows, Ends, env
    <2>5. CASE Resumed(c)
        BY <1>1, <1>2, <2>5 DEF Resumed, Up, handleReconnectStateChanged, Ends
    <2>6. CASE NotResumed(c)
        BY <1>1, <1>2, <2>6 DEF NotResumed, Reload, env
    <2>. QED  BY <1>11, <2>1, <2>2, <2>3, <2>4, <2>5, <2>6 DEF Answer
<1>12. CASE UNCHANGED vars
    BY <1>1, <1>2, <1>12 DEF vars, env
<1>. QED
    BY <1>3, <1>4, <1>5, <1>6, <1>7, <1>8, <1>9, <1>10, <1>11, <1>12 DEF Next, Blazor

\* IInv holds in every reachable state.
THEOREM Inductive == Spec => []IInv
<1>1. Init => IInv
    BY InvInit
<1>2. IInv /\ [Next]_vars => IInv'
    BY InvStep
<1>. QED
    BY <1>1, <1>2, PTL DEF Spec

\* The dialog is open exactly while the page is dead, and a connected page has a
\* live circuit: TypeOK of ReconnectModal.razor.js for any number of calls.
THEOREM DialogTellsTruth == Spec => []TypeOK
<1>1. TypeOK /\ [Next]_vars => TypeOK'
    BY TypeStep
<1>. QED
    BY <1>1, TypeInit, PTL DEF Spec

---------------------------------------------------------------------------

\* A page that is loaded anew has lost its session, or was refused by Blazor's own
\* attempt, or its user pressed a button during a call: location.reload() of the
\* script runs only after resumeCircuit() was refused for a circuit that was not
\* there any more.
THEOREM ReloadIsLastResort == Spec => ReloadLosesNoSession
<1> DEFINE Lost == overlapped \/ circuit = "gone" \/ (circuit = "stored" /\ class = "show")
<1>1. IInv /\ [Next]_vars => [Reload /\ class # "unloaded" => Lost]_vars
    <2> SUFFICES ASSUME IInv, Next, class' = "unloaded", class # "unloaded" PROVE Lost
        BY DEF Reload
    <2>1. CASE AutomaticAttempt
        BY <2>1 DEF AutomaticAttempt, Up, IInv, TypeOK
    <2>2. ASSUME NEW c \in Calls, NotResumed(c) PROVE Lost
        BY <2>2 DEF NotResumed, Accepts, IInv, TypeOK, Single, ResumesStored, Retrying,
                    Resuming, Paused
    <2>3. AutomaticAttempt \/ \E c \in Calls : NotResumed(c)
        BY DEF Next, Blazor, LoseConnection, Pause, ServerComesAndGoes, Evict, ClickRetry,
               ClickResume, VisibilityChanges, Answer, RetryThrows, Reconnected, Refused,
               ResumeThrows, Resumed, Up, env
    <2>. QED
        BY <2>1, <2>2, <2>3
<1>. QED
    BY <1>1, Inductive, PTL DEF Spec, ReloadLosesNoSession
=============================================================================
