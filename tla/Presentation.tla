------------------------------ MODULE Presentation ------------------------------
(***************************************************************************)
(* The presentation state machine under every sequence of calls its public *)
(* API allows (PresentationState::apply): a caller may invoke any handler  *)
(* at any time and may hold any token it was ever given, so a completion   *)
(* or a failure can arrive long after its attempt ended.                   *)
(***************************************************************************)
EXTENDS PresentationState

VARIABLES
    p,          \* PresentationState
    issued,     \* the tokens callers were given by Prepare (history)
    evidence    \* terminal evidences returned for each attempt (history)

callVars == <<p, issued, evidence>>

CallTypeOK ==
    /\ p \in StateType
    /\ issued \subseteq Token
    /\ evidence \in [1..MaxAttempt -> Nat]

CallInit ==
    /\ p = NewState
    /\ issued = {}
    /\ evidence = [a \in 1..MaxAttempt |-> 0]

(* A handler that returns no terminal evidence. *)
Quietly(next) == p' = next /\ UNCHANGED <<issued, evidence>>

(* A handler that returns PresentationEvent::Terminal or StaleDiscarded:   *)
(* its evidence names the attempt of the token the state still holds.      *)
Terminally(next) ==
    /\ p' = next
    /\ evidence' = [evidence EXCEPT ![p.token.attempt] = @ + 1]
    /\ UNCHANGED issued

---------------------------------------------------------------------------
DoInvalidate == CanInvalidate(p) /\ Quietly(Invalidate(p))
DoAdvanceSurfaceEpoch ==
    CanAdvanceSurfaceEpoch(p) /\ Quietly(AdvanceSurfaceEpoch(p))
DoSetVisible ==
    \E v \in BOOLEAN : CanSetVisible(p) /\ Quietly(SetVisible(p, v))
DoSetSized == \E v \in BOOLEAN : CanSetSized(p) /\ Quietly(SetSized(p, v))
DoResume == CanResume(p) /\ Quietly(Resume(p))

DoPrepare ==
    /\ CanPrepare(p)
    /\ p' = Prepare(p)
    /\ issued' = issued \union {Prepare(p).token}
    /\ UNCHANGED evidence

DoBeginUpdate ==
    \E t \in issued : CanBeginUpdate(p, t) /\ Quietly(BeginUpdate(p))
DoDiscardStale ==
    \E t \in issued : CanDiscardStale(p, t) /\ Terminally(DiscardStale(p))
DoSubmit == \E t \in issued : CanSubmit(p, t) /\ Quietly(Submit(p))
DoCallPresent ==
    \E t \in issued : CanCallPresent(p, t) /\ Quietly(CallPresent(p))
DoCompletePresentation ==
    \E t \in issued :
        CanCompletePresentation(p, t) /\ Terminally(CompletePresentation(p, t))
DoFailActive ==
    \E t \in issued : CanFailActive(p, t) /\ Terminally(FailActive(p))
DoCancelActive ==
    \E t \in issued : CanCancelActive(p, t) /\ Terminally(CancelActive(p))

(* Only an attempt that had not committed is ended by the shutdown itself. *)
DoBeginShutdown ==
    /\ CanBeginShutdown(p)
    /\ IF p.phase \in {"Prepared", "Encoding"}
       THEN Terminally(BeginShutdown(p))
       ELSE Quietly(BeginShutdown(p))
DoStopAfterDrain == CanStopAfterDrain(p) /\ Quietly(StopAfterDrain(p))

CallNext ==
    \/ DoInvalidate
    \/ DoAdvanceSurfaceEpoch
    \/ DoSetVisible
    \/ DoSetSized
    \/ DoResume
    \/ DoPrepare
    \/ DoBeginUpdate
    \/ DoDiscardStale
    \/ DoSubmit
    \/ DoCallPresent
    \/ DoCompletePresentation
    \/ DoFailActive
    \/ DoCancelActive
    \/ DoBeginShutdown
    \/ DoStopAfterDrain

CallSpec == CallInit /\ [][CallNext]_callVars

---------------------------------------------------------------------------
(* The invariants the code evaluates around every call hold after every    *)
(* handler on their own: the rollback in `apply' and the debug_assert in   *)
(* `transition' are never reached.                                         *)
StateInvariant == CallTypeOK /\ InvariantsHold(p)

(* Every attempt returns exactly one terminal evidence, however late or    *)
(* repeated the calls on its token are: none while it is active, one as    *)
(* soon as it is over, never a second from a stale token.                  *)
AttemptsEndOnce ==
    \A a \in 1..MaxAttempt :
        evidence[a] = IF a < p.attempts \/ (a = p.attempts /\ p.phase = "Idle")
                      THEN 1 ELSE 0

(* A running surface forgets a request for only three reasons: nothing was *)
(* ever requested, the newest request on the newest surface is on screen,  *)
(* or its attempt was cancelled.                                           *)
CleanMeansSettled ==
    IsRunning(p) /\ ~p.dirty =>
        \/ p.requested = 0 /\ p.epoch = 0
        \/ p.outcome = "Cancelled"
        \/ /\ p.outcome = "Presented"
           /\ p.presented = p.requested
           /\ p.token.epoch = p.epoch
===============================================================================
