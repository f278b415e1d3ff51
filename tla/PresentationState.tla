--------------------------- MODULE PresentationState ---------------------------
(***************************************************************************)
(* The portable presentation state machine of one native surface           *)
(* (crates/alpine-platform/src/lib.rs, PresentationState::apply).          *)
(*                                                                         *)
(* The state is one record, as in the code; every handler is a pair of     *)
(* operators, CanX(s, ...) for the checks that make it return Err and      *)
(* X(s, ...) for the state it leaves behind.  `apply' restores the state   *)
(* on Err, so a handler whose Can operator is false changes nothing.  The  *)
(* handlers are operators, not actions, because the native driver runs     *)
(* several of them inside one callback (module PresentationDriver).        *)
(*                                                                         *)
(* `apply' also undoes a handler whose result breaks `invariants_hold'.    *)
(* That rollback is left out: by PresentationDriverProofs it never happens.*)
(***************************************************************************)
EXTENDS Integers

CONSTANTS
    MaxRevision,    \* largest PresentationRevision (u64::MAX in the code)
    MaxEpoch,       \* largest SurfaceEpoch (u64::MAX)
    MaxAttempt,     \* largest attempt number (u64::MAX)
    NoToken         \* frame_token is None

Token == [attempt : 1..MaxAttempt, revision : 0..MaxRevision, epoch : 0..MaxEpoch]

ASSUME SequencesAssumption ==
    /\ MaxRevision \in Nat
    /\ MaxEpoch \in Nat
    /\ MaxAttempt \in Nat
    /\ NoToken \notin Token

Application == {"Running", "Stopping", "Stopped"}
DisplayLink == {"Paused", "Running", "Invalid"}
Phase == {"Idle", "Prepared", "Encoding", "Submitted", "PresentCalled"}
Committed == {"Submitted", "PresentCalled"}
Resource == {"Free", "Drawable", "InFlight"}
Outcome == {"None", "Presented", "Superseded", "Cancelled", "Failed"}

StateType ==
    [application : Application, link : DisplayLink,
     visible : BOOLEAN, sized : BOOLEAN, dirty : BOOLEAN,
     requested : 0..MaxRevision, presented : 0..MaxRevision, epoch : 0..MaxEpoch,
     phase : Phase, token : Token \union {NoToken}, resource : Resource,
     submissions : 0..1, presentCalls : 0..1, eligible : BOOLEAN,
     outcome : Outcome, attempts : 0..MaxAttempt]

NewState ==
    [application |-> "Running", link |-> "Paused",
     visible |-> FALSE, sized |-> FALSE, dirty |-> FALSE,
     requested |-> 0, presented |-> 0, epoch |-> 0,
     phase |-> "Idle", token |-> NoToken, resource |-> "Free",
     submissions |-> 0, presentCalls |-> 0, eligible |-> FALSE,
     outcome |-> "None", attempts |-> 0]

---------------------------------------------------------------------------
(* Conditions shared by the handlers. *)

IsRunning(s) == s.application = "Running"

Demanded(s) == IsRunning(s) /\ s.visible /\ s.sized /\ s.dirty

NeedsResume(s) == Demanded(s) /\ s.link = "Paused"

IsToken(s, t) == s.token = t /\ t # NoToken

AttemptIsCurrent(s) ==
    /\ Demanded(s)
    /\ s.token # NoToken
    /\ s.token.revision = s.requested
    /\ s.token.epoch = s.epoch

(* Mutant: the link keeps running when the last demand is gone. *)
MutantReconcileKeepsLink(s) == s

(* A running link is paused as soon as no frame is demanded. *)
ReconcileEligibility(s) ==
    IF s.link = "Running" /\ ~Demanded(s) THEN [s EXCEPT !.link = "Paused"] ELSE s

PauseIfRunning(s) == IF IsRunning(s) THEN [s EXCEPT !.link = "Paused"] ELSE s

(* The active attempt ends: every terminal handler leaves phase and        *)
(* resource like this.  The token itself is kept as evidence.              *)
Retire(s, outcome) ==
    [s EXCEPT !.phase = "Idle", !.resource = "Free", !.outcome = outcome]

---------------------------------------------------------------------------
(* Requests and surface changes. *)

CanInvalidate(s) == IsRunning(s) /\ s.requested < MaxRevision
Invalidate(s) ==
    [s EXCEPT !.requested = @ + 1, !.dirty = TRUE, !.outcome = "None"]

CanAdvanceSurfaceEpoch(s) == IsRunning(s) /\ s.epoch < MaxEpoch
AdvanceSurfaceEpoch(s) ==
    [s EXCEPT !.epoch = @ + 1, !.dirty = TRUE, !.outcome = "None"]

CanSetVisible(s) == IsRunning(s)
SetVisible(s, visible) ==
    IF s.visible = visible THEN s
    ELSE ReconcileEligibility([s EXCEPT !.visible = visible])

CanSetSized(s) == IsRunning(s)
SetSized(s, sized) ==
    IF s.sized = sized THEN s
    ELSE ReconcileEligibility([s EXCEPT !.sized = sized])

CanResume(s) == NeedsResume(s)
Resume(s) == [s EXCEPT !.link = "Running"]

---------------------------------------------------------------------------
(* One attempt: prepared, encoded, submitted, presented, ended. *)

CanPrepare(s) ==
    s.link = "Running" /\ s.phase = "Idle" /\ s.attempts < MaxAttempt
Prepare(s) ==
    [s EXCEPT !.attempts = @ + 1,
              !.token = [attempt |-> s.attempts + 1,
                         revision |-> s.requested, epoch |-> s.epoch],
              !.phase = "Prepared", !.resource = "Free",
              !.submissions = 0, !.presentCalls = 0,
              !.eligible = FALSE, !.outcome = "None"]

CanBeginUpdate(s, t) == IsToken(s, t) /\ s.phase = "Prepared" /\ AttemptIsCurrent(s)
BeginUpdate(s) == [s EXCEPT !.phase = "Encoding", !.resource = "Drawable"]

CanDiscardStale(s, t) ==
    IsToken(s, t) /\ s.phase \in {"Prepared", "Encoding"} /\ ~AttemptIsCurrent(s)
DiscardStale(s) == ReconcileEligibility(Retire(s, "Superseded"))

CanSubmit(s, t) ==
    /\ IsToken(s, t)
    /\ s.phase = "Encoding"
    /\ s.submissions = 0
    /\ AttemptIsCurrent(s)
Submit(s) ==
    [s EXCEPT !.phase = "Submitted", !.resource = "InFlight",
              !.submissions = 1, !.eligible = TRUE]

CanCallPresent(s, t) == IsToken(s, t) /\ s.phase = "Submitted"
CallPresent(s) == [s EXCEPT !.phase = "PresentCalled", !.presentCalls = 1]

(* Mutant: a superseded frame clears the request that superseded it. *)
MutantCompleteClearsDirty(s, t) ==
    ReconcileEligibility(
        IF AttemptIsCurrent(s)
        THEN [Retire(s, "Presented") EXCEPT !.presented = t.revision, !.dirty = FALSE]
        ELSE [Retire(s, "Superseded") EXCEPT !.dirty = FALSE])

CanCompletePresentation(s, t) == IsToken(s, t) /\ s.phase = "PresentCalled"
CompletePresentation(s, t) ==
    ReconcileEligibility(
        IF AttemptIsCurrent(s)
        THEN [Retire(s, "Presented") EXCEPT !.presented = t.revision, !.dirty = FALSE]
        ELSE Retire(s, "Superseded"))

(* Mutant: a failure is accepted after its attempt has ended. *)
MutantFailAnyPhase(s, t) == IsToken(s, t) /\ s.phase # "Prepared"

CanFailActive(s, t) ==
    IsToken(s, t) /\ s.phase \in {"Encoding"} \union Committed
FailActive(s) == PauseIfRunning(Retire(s, "Failed"))

CanCancelActive(s, t) ==
    /\ IsToken(s, t)
    /\ s.application # "Stopped"
    /\ s.phase # "Idle"
    /\ s.phase \in Committed => ~IsRunning(s)
CancelActive(s) ==
    PauseIfRunning([Retire(s, "Cancelled") EXCEPT !.dirty = FALSE])

---------------------------------------------------------------------------
(* Shutdown: a committed frame drains first, anything else stops at once. *)

CanBeginShutdown(s) == IsRunning(s)
BeginShutdown(s) ==
    LET quiet == [s EXCEPT !.link = "Invalid", !.dirty = FALSE] IN
    CASE s.phase \in Committed -> [quiet EXCEPT !.application = "Stopping"]
      [] s.phase \in {"Prepared", "Encoding"} ->
            [Retire(quiet, "Cancelled") EXCEPT !.application = "Stopped"]
      [] s.phase = "Idle" ->
            [quiet EXCEPT !.application = "Stopped",
                          !.outcome = IF s.dirty THEN "Cancelled" ELSE @]

CanStopAfterDrain(s) == s.application = "Stopping" /\ s.phase = "Idle"
StopAfterDrain(s) == [s EXCEPT !.application = "Stopped"]

---------------------------------------------------------------------------
(* PresentationState::invariants_hold, clause by clause.  The code checks  *)
(* it before and after every handler.                                      *)

LinkOwned(s) == IsRunning(s) <=> s.link # "Invalid"
RunningLinkIsEligible(s) == s.link = "Running" => s.visible /\ s.sized /\ s.dirty
ResourceMatchesPhase(s) ==
    s.resource = CASE s.phase \in {"Idle", "Prepared"} -> "Free"
                   [] s.phase = "Encoding" -> "Drawable"
                   [] s.phase \in Committed -> "InFlight"
TokenIsBounded(s) ==
    IF s.token = NoToken THEN s.phase = "Idle"
    ELSE /\ s.token.attempt \in 1..s.attempts
         /\ s.token.revision <= s.requested
         /\ s.token.epoch <= s.epoch
OrderedCounts(s) ==
    /\ s.presentCalls <= s.submissions
    /\ s.phase \in {"Prepared", "Encoding"} => s.submissions = 0
    /\ s.phase = "Submitted" => s.submissions = 1 /\ s.presentCalls = 0
    /\ s.phase = "PresentCalled" => s.submissions = 1 /\ s.presentCalls = 1
CommittedIsEligible(s) == s.phase \in Committed => s.submissions = 1 /\ s.eligible
CurrentPresentation(s) ==
    s.outcome = "Presented" =>
        /\ s.phase = "Idle"
        /\ s.token # NoToken
        /\ s.token.revision = s.requested
        /\ s.token.revision = s.presented
        /\ s.token.epoch = s.epoch
        /\ s.submissions = 1 /\ s.presentCalls = 1 /\ s.eligible
CleanIdleIsPaused(s) ==
    IsRunning(s) /\ s.phase = "Idle" /\ ~s.dirty => s.link = "Paused"
StoppedIsDrained(s) == s.application = "Stopped" => s.phase = "Idle"
TerminalIsIdle(s) == s.outcome # "None" => s.phase = "Idle"
PresentedIsMonotonic(s) == s.presented <= s.requested

InvariantsHold(s) ==
    /\ LinkOwned(s)
    /\ RunningLinkIsEligible(s)
    /\ ResourceMatchesPhase(s)
    /\ TokenIsBounded(s)
    /\ OrderedCounts(s)
    /\ CommittedIsEligible(s)
    /\ CurrentPresentation(s)
    /\ CleanIdleIsPaused(s)
    /\ StoppedIsDrained(s)
    /\ TerminalIsIdle(s)
    /\ PresentedIsMonotonic(s)
===============================================================================
