------------------------ MODULE PresentationDriverProofs ------------------------
(***************************************************************************)
(* Proofs about the native owner of a presentation surface, for sequences  *)
(* of any length: the driver is a caller that respects the contract of the *)
(* state machine and of the slot ring in every callback, and the native    *)
(* link does what the state machine believes.  What a single handler keeps *)
(* is cited from the proofs about the state machine; what a lease goes     *)
(* through in a ring that holds no other is proved here.                   *)
(***************************************************************************)
EXTENDS PresentationDriver, Presentation, FiniteSetTheorems, TLAPS

---------------------------------------------------------------------------
(* The state machine.  Each handler keeps the type and the invariants of   *)
(* the state, whoever calls it.                                            *)

(* invariants_hold in three parts: the link, the phase of the attempt, and *)
(* the attempt's token against the requested and presented revisions.      *)
LinkPart(s) == LinkOwned(s) /\ RunningLinkIsEligible(s) /\ CleanIdleIsPaused(s)
PhasePart(s) ==
    /\ ResourceMatchesPhase(s) /\ OrderedCounts(s) /\ CommittedIsEligible(s)
    /\ StoppedIsDrained(s) /\ TerminalIsIdle(s)
TokenPart(s) == TokenIsBounded(s) /\ CurrentPresentation(s) /\ PresentedIsMonotonic(s)

Sound(s) == s \in StateType /\ LinkPart(s) /\ PhasePart(s) /\ TokenPart(s)

LEMMA SoundIsInvariant ==
    ASSUME NEW s
    PROVE  Sound(s) <=> s \in StateType /\ InvariantsHold(s)
BY DEF Sound, LinkPart, PhasePart, TokenPart, InvariantsHold

LEMMA NewStateSound == Sound(NewState)
<1>1. NewState \in StateType
  BY SequencesAssumption
     DEF NewState, StateType, Application, DisplayLink, Phase, Resource, Outcome
<1>2. LinkPart(NewState) /\ PhasePart(NewState) /\ TokenPart(NewState)
  BY DEF NewState, LinkPart, PhasePart, TokenPart, IsRunning, LinkOwned,
     RunningLinkIsEligible, CleanIdleIsPaused, ResourceMatchesPhase, OrderedCounts,
     CommittedIsEligible, StoppedIsDrained, TerminalIsIdle, TokenIsBounded,
     CurrentPresentation, PresentedIsMonotonic, Committed
<1> QED BY <1>1, <1>2 DEF Sound

LEMMA ReconcileType ==
    ASSUME NEW s \in StateType
    PROVE  ReconcileEligibility(s) \in StateType
BY DEF ReconcileEligibility, StateType, DisplayLink

LEMMA InvalidateSound ==
    ASSUME NEW s, Sound(s), CanInvalidate(s)
    PROVE  Sound(Invalidate(s))
<1> USE DEF Sound, Invalidate, CanInvalidate, IsRunning
<1>1. s.requested + 1 \in 0..MaxRevision
  BY SequencesAssumption DEF StateType
<1>2. Invalidate(s) \in StateType
  BY <1>1 DEF StateType, Application, DisplayLink, Phase, Resource, Outcome
<1>3. LinkPart(Invalidate(s))
  BY DEF LinkPart, LinkOwned, RunningLinkIsEligible, CleanIdleIsPaused,
     StateType, Application, DisplayLink, Phase, Resource, Outcome
<1>4. PhasePart(Invalidate(s))
  BY DEF LinkPart, LinkOwned, PhasePart, ResourceMatchesPhase, OrderedCounts,
     CommittedIsEligible, StoppedIsDrained, TerminalIsIdle, Committed, StateType,
     Application, DisplayLink, Phase, Resource, Outcome
<1>5. TokenPart(Invalidate(s))
  BY <1>1 DEF TokenPart, TokenIsBounded, CurrentPresentation,
     PresentedIsMonotonic, Token, StateType, Application, DisplayLink, Phase,
     Resource, Outcome, PhasePart, OrderedCounts, TerminalIsIdle,
     CommittedIsEligible, Committed
<1> QED BY <1>2, <1>3, <1>4, <1>5

LEMMA AdvanceSurfaceEpochSound ==
    ASSUME NEW s, Sound(s), CanAdvanceSurfaceEpoch(s)
    PROVE  Sound(AdvanceSurfaceEpoch(s))
<1> USE DEF Sound, AdvanceSurfaceEpoch, CanAdvanceSurfaceEpoch, IsRunning
<1>1. s.epoch + 1 \in 0..MaxEpoch
  BY SequencesAssumption DEF StateType
<1>2. AdvanceSurfaceEpoch(s) \in StateType
  BY <1>1 DEF StateType, Application, DisplayLink, Phase, Resource, Outcome
<1>3. LinkPart(AdvanceSurfaceEpoch(s))
  BY DEF LinkPart, LinkOwned, RunningLinkIsEligible, CleanIdleIsPaused,
     StateType, Application, DisplayLink, Phase, Resource, Outcome
<1>4. PhasePart(AdvanceSurfaceEpoch(s))
  BY DEF LinkPart, LinkOwned, PhasePart, ResourceMatchesPhase, OrderedCounts,
     CommittedIsEligible, StoppedIsDrained, TerminalIsIdle, Committed, StateType,
     Application, DisplayLink, Phase, Resource, Outcome
<1>5. TokenPart(AdvanceSurfaceEpoch(s))
  BY <1>1 DEF TokenPart, TokenIsBounded, CurrentPresentation,
     PresentedIsMonotonic, Token, StateType, Application, DisplayLink, Phase,
     Resource, Outcome, PhasePart, OrderedCounts, TerminalIsIdle,
     CommittedIsEligible, Committed
<1> QED BY <1>2, <1>3, <1>4, <1>5

LEMMA SetVisibleSound ==
    ASSUME NEW s, NEW v \in BOOLEAN, Sound(s), CanSetVisible(s)
    PROVE  Sound(SetVisible(s, v))
<1> USE DEF Sound, SetVisible, CanSetVisible, ReconcileEligibility, Demanded,
   IsRunning
<1>1. [s EXCEPT !.visible = v] \in StateType
  BY DEF StateType
<1>2. SetVisible(s, v) \in StateType
  BY <1>1, ReconcileType
<1>3. LinkPart(SetVisible(s, v))
  BY DEF LinkPart, LinkOwned, RunningLinkIsEligible, CleanIdleIsPaused,
     StateType, Application, DisplayLink, Phase, Resource, Outcome
<1>4. PhasePart(SetVisible(s, v))
  BY DEF LinkPart, LinkOwned, PhasePart, ResourceMatchesPhase, OrderedCounts,
     CommittedIsEligible, StoppedIsDrained, TerminalIsIdle, Committed, StateType,
     Application, DisplayLink, Phase, Resource, Outcome
<1>5. TokenPart(SetVisible(s, v))
  BY <1>1 DEF TokenPart, TokenIsBounded, CurrentPresentation,
     PresentedIsMonotonic, Token, StateType, Application, DisplayLink, Phase,
     Resource, Outcome, PhasePart, OrderedCounts, TerminalIsIdle,
     CommittedIsEligible, Committed
<1> QED BY <1>2, <1>3, <1>4, <1>5

LEMMA SetSizedSound ==
    ASSUME NEW s, NEW v \in BOOLEAN, Sound(s), CanSetSized(s)
    PROVE  Sound(SetSized(s, v))
<1> USE DEF Sound, SetSized, CanSetSized, ReconcileEligibility, Demanded, IsRunning
<1>1. [s EXCEPT !.sized = v] \in StateType
  BY DEF StateType
<1>2. SetSized(s, v) \in StateType
  BY <1>1, ReconcileType
<1>3. LinkPart(SetSized(s, v))
  BY DEF LinkPart, LinkOwned, RunningLinkIsEligible, CleanIdleIsPaused,
     StateType, Application, DisplayLink, Phase, Resource, Outcome
<1>4. PhasePart(SetSized(s, v))
  BY DEF LinkPart, LinkOwned, PhasePart, ResourceMatchesPhase, OrderedCounts,
     CommittedIsEligible, StoppedIsDrained, TerminalIsIdle, Committed, StateType,
     Application, DisplayLink, Phase, Resource, Outcome
<1>5. TokenPart(SetSized(s, v))
  BY <1>1 DEF TokenPart, TokenIsBounded, CurrentPresentation,
     PresentedIsMonotonic, Token, StateType, Application, DisplayLink, Phase,
     Resource, Outcome, PhasePart, OrderedCounts, TerminalIsIdle,
     CommittedIsEligible, Committed
<1> QED BY <1>2, <1>3, <1>4, <1>5

LEMMA ResumeSound ==
    ASSUME NEW s, Sound(s), CanResume(s)
    PROVE  Sound(Resume(s))
<1> USE DEF Sound, Resume, CanResume, NeedsResume, Demanded, IsRunning
<1>2. Resume(s) \in StateType
  BY DEF StateType, Application, DisplayLink, Phase, Resource, Outcome
<1>3. LinkPart(Resume(s))
  BY DEF LinkPart, LinkOwned, RunningLinkIsEligible, CleanIdleIsPaused,
     StateType, Application, DisplayLink, Phase, Resource, Outcome
<1>4. PhasePart(Resume(s))
  BY DEF LinkPart, LinkOwned, PhasePart, ResourceMatchesPhase, OrderedCounts,
     CommittedIsEligible, StoppedIsDrained, TerminalIsIdle, Committed, StateType,
     Application, DisplayLink, Phase, Resource, Outcome
<1>5. TokenPart(Resume(s))
  BY DEF TokenPart, TokenIsBounded, CurrentPresentation, PresentedIsMonotonic,
     Token, StateType, Application, DisplayLink, Phase, Resource, Outcome,
     PhasePart, OrderedCounts, TerminalIsIdle, CommittedIsEligible, Committed
<1> QED BY <1>2, <1>3, <1>4, <1>5

LEMMA PrepareSound ==
    ASSUME NEW s, Sound(s), CanPrepare(s)
    PROVE  Sound(Prepare(s))
<1> USE DEF Sound, Prepare, CanPrepare, IsRunning
<1>1. /\ s.attempts + 1 \in 1..MaxAttempt
      /\ s.requested \in 0..MaxRevision /\ s.epoch \in 0..MaxEpoch
      /\ Prepare(s).token \in Token
      /\ Prepare(s).token # NoToken
      /\ s.attempts + 1 \in 0..MaxAttempt /\ 0 \in 0..1
  BY SequencesAssumption DEF StateType, Token
<1>2. Prepare(s) \in StateType
  BY <1>1 DEF StateType, Application, DisplayLink, Phase, Resource, Outcome
<1>3. LinkPart(Prepare(s))
  BY DEF LinkPart, LinkOwned, RunningLinkIsEligible, CleanIdleIsPaused,
     StateType, Application, DisplayLink, Phase, Resource, Outcome
<1>4. PhasePart(Prepare(s))
  BY DEF LinkPart, LinkOwned, PhasePart, ResourceMatchesPhase, OrderedCounts,
     CommittedIsEligible, StoppedIsDrained, TerminalIsIdle, Committed, StateType,
     Application, DisplayLink, Phase, Resource, Outcome
<1>5. TokenPart(Prepare(s))
  BY <1>1 DEF TokenPart, TokenIsBounded, CurrentPresentation,
     PresentedIsMonotonic, Token, StateType, Application, DisplayLink, Phase,
     Resource, Outcome, PhasePart, OrderedCounts, TerminalIsIdle,
     CommittedIsEligible, Committed
<1> QED BY <1>2, <1>3, <1>4, <1>5

LEMMA BeginUpdateSound ==
    ASSUME NEW s, NEW t, Sound(s), CanBeginUpdate(s, t)
    PROVE  Sound(BeginUpdate(s))
<1> USE DEF Sound, BeginUpdate, CanBeginUpdate, AttemptIsCurrent, Demanded, IsRunning
<1>2. BeginUpdate(s) \in StateType
  BY DEF StateType, Application, DisplayLink, Phase, Resource, Outcome
<1>3. LinkPart(BeginUpdate(s))
  BY DEF LinkPart, LinkOwned, RunningLinkIsEligible, CleanIdleIsPaused,
     StateType, Application, DisplayLink, Phase, Resource, Outcome
<1>4. PhasePart(BeginUpdate(s))
  BY DEF LinkPart, LinkOwned, PhasePart, ResourceMatchesPhase, OrderedCounts,
     CommittedIsEligible, StoppedIsDrained, TerminalIsIdle, Committed, StateType,
     Application, DisplayLink, Phase, Resource, Outcome
<1>5. TokenPart(BeginUpdate(s))
  BY DEF TokenPart, TokenIsBounded, CurrentPresentation, PresentedIsMonotonic,
     Token, StateType, Application, DisplayLink, Phase, Resource, Outcome,
     PhasePart, OrderedCounts, TerminalIsIdle, CommittedIsEligible, Committed
<1> QED BY <1>2, <1>3, <1>4, <1>5

LEMMA DiscardStaleSound ==
    ASSUME NEW s, NEW t, Sound(s), CanDiscardStale(s, t)
    PROVE  Sound(DiscardStale(s))
<1> USE DEF Sound, DiscardStale, CanDiscardStale, IsToken, Retire,
   ReconcileEligibility, Demanded, IsRunning
<1>2. DiscardStale(s) \in StateType
  BY DEF StateType, Application, DisplayLink, Phase, Resource, Outcome
<1>3. LinkPart(DiscardStale(s))
  BY DEF LinkPart, LinkOwned, RunningLinkIsEligible, CleanIdleIsPaused,
     StateType, Application, DisplayLink, Phase, Resource, Outcome
<1>4. PhasePart(DiscardStale(s))
  BY DEF LinkPart, LinkOwned, PhasePart, ResourceMatchesPhase, OrderedCounts,
     CommittedIsEligible, StoppedIsDrained, TerminalIsIdle, Committed, StateType,
     Application, DisplayLink, Phase, Resource, Outcome
<1>5. TokenPart(DiscardStale(s))
  BY DEF TokenPart, TokenIsBounded, CurrentPresentation, PresentedIsMonotonic,
     Token, StateType, Application, DisplayLink, Phase, Resource, Outcome,
     PhasePart, OrderedCounts, TerminalIsIdle, CommittedIsEligible, Committed
<1> QED BY <1>2, <1>3, <1>4, <1>5

LEMMA SubmitSound ==
    ASSUME NEW s, NEW t, Sound(s), CanSubmit(s, t)
    PROVE  Sound(Submit(s))
<1> USE DEF Sound, Submit, CanSubmit, IsToken, AttemptIsCurrent, Demanded, IsRunning
<1>1. 1 \in 0..1
  OBVIOUS
<1>2. Submit(s) \in StateType
  BY <1>1 DEF StateType, Application, DisplayLink, Phase, Resource, Outcome
<1>3. LinkPart(Submit(s))
  BY DEF LinkPart, LinkOwned, RunningLinkIsEligible, CleanIdleIsPaused,
     StateType, Application, DisplayLink, Phase, Resource, Outcome
<1>4. PhasePart(Submit(s))
  BY DEF LinkPart, LinkOwned, PhasePart, ResourceMatchesPhase, OrderedCounts,
     CommittedIsEligible, StoppedIsDrained, TerminalIsIdle, Committed, StateType,
     Application, DisplayLink, Phase, Resource, Outcome
<1>5. TokenPart(Submit(s))
  BY <1>1 DEF TokenPart, TokenIsBounded, CurrentPresentation,
     PresentedIsMonotonic, Token, StateType, Application, DisplayLink, Phase,
     Resource, Outcome, PhasePart, OrderedCounts, TerminalIsIdle,
     CommittedIsEligible, Committed
<1> QED BY <1>2, <1>3, <1>4, <1>5

LEMMA CallPresentSound ==
    ASSUME NEW s, NEW t, Sound(s), CanCallPresent(s, t)
    PROVE  Sound(CallPresent(s))
<1> USE DEF Sound, CallPresent, CanCallPresent, IsToken, IsRunning
<1>1. 1 \in 0..1
  OBVIOUS
<1>2. CallPresent(s) \in StateType
  BY <1>1 DEF StateType, Application, DisplayLink, Phase, Resource, Outcome
<1>3. LinkPart(CallPresent(s))
  BY DEF LinkPart, LinkOwned, RunningLinkIsEligible, CleanIdleIsPaused,
     StateType, Application, DisplayLink, Phase, Resource, Outcome
<1>4. PhasePart(CallPresent(s))
  BY DEF LinkPart, LinkOwned, PhasePart, ResourceMatchesPhase, OrderedCounts,
     CommittedIsEligible, StoppedIsDrained, TerminalIsIdle, Committed, StateType,
     Application, DisplayLink, Phase, Resource, Outcome
<1>5. TokenPart(CallPresent(s))
  BY <1>1 DEF TokenPart, TokenIsBounded, CurrentPresentation,
     PresentedIsMonotonic, Token, StateType, Application, DisplayLink, Phase,
     Resource, Outcome, PhasePart, OrderedCounts, TerminalIsIdle,
     CommittedIsEligible, Committed
<1> QED BY <1>2, <1>3, <1>4, <1>5

LEMMA CompletePresentationSound ==
    ASSUME NEW s, NEW t, Sound(s), CanCompletePresentation(s, t)
    PROVE  Sound(CompletePresentation(s, t))
<1> USE DEF Sound, CompletePresentation, CanCompletePresentation, IsToken,
   AttemptIsCurrent, Retire, ReconcileEligibility, Demanded, IsRunning
<1>1. s.token \in Token /\ t = s.token /\ t.revision \in 0..MaxRevision
  BY DEF StateType, Token
<1>2. CompletePresentation(s, t) \in StateType
  BY <1>1 DEF StateType, Application, DisplayLink, Phase, Resource, Outcome
<1>3. LinkPart(CompletePresentation(s, t))
  BY DEF LinkPart, LinkOwned, RunningLinkIsEligible, CleanIdleIsPaused,
     StateType, Application, DisplayLink, Phase, Resource, Outcome
<1>4. PhasePart(CompletePresentation(s, t))
  BY DEF LinkPart, LinkOwned, PhasePart, ResourceMatchesPhase, OrderedCounts,
     CommittedIsEligible, StoppedIsDrained, TerminalIsIdle, Committed, StateType,
     Application, DisplayLink, Phase, Resource, Outcome
<1>5. TokenPart(CompletePresentation(s, t))
  BY <1>1 DEF TokenPart, TokenIsBounded, CurrentPresentation,
     PresentedIsMonotonic, Token, StateType, Application, DisplayLink, Phase,
     Resource, Outcome, PhasePart, OrderedCounts, TerminalIsIdle,
     CommittedIsEligible, Committed
<1> QED BY <1>2, <1>3, <1>4, <1>5

LEMMA FailActiveSound ==
    ASSUME NEW s, NEW t, Sound(s), CanFailActive(s, t)
    PROVE  Sound(FailActive(s))
<1> USE DEF Sound, FailActive, CanFailActive, IsToken, Retire, PauseIfRunning,
   IsRunning, Committed
<1>2. FailActive(s) \in StateType
  BY DEF StateType, Application, DisplayLink, Phase, Resource, Outcome
<1>3. LinkPart(FailActive(s))
  BY DEF LinkPart, LinkOwned, RunningLinkIsEligible, CleanIdleIsPaused,
     StateType, Application, DisplayLink, Phase, Resource, Outcome
<1>4. PhasePart(FailActive(s))
  BY DEF LinkPart, LinkOwned, PhasePart, ResourceMatchesPhase, OrderedCounts,
     CommittedIsEligible, StoppedIsDrained, TerminalIsIdle, Committed, StateType,
     Application, DisplayLink, Phase, Resource, Outcome
<1>5. TokenPart(FailActive(s))
  BY DEF TokenPart, TokenIsBounded, CurrentPresentation, PresentedIsMonotonic,
     Token, StateType, Application, DisplayLink, Phase, Resource, Outcome,
     PhasePart, OrderedCounts, TerminalIsIdle, CommittedIsEligible, Committed
<1> QED BY <1>2, <1>3, <1>4, <1>5

LEMMA CancelActiveSound ==
    ASSUME NEW s, NEW t, Sound(s), CanCancelActive(s, t)
    PROVE  Sound(CancelActive(s))
<1> USE DEF Sound, CancelActive, CanCancelActive, IsToken, Retire,
   PauseIfRunning, IsRunning, Committed
<1>2. CancelActive(s) \in StateType
  BY DEF StateType, Application, DisplayLink, Phase, Resource, Outcome
<1>3. LinkPart(CancelActive(s))
  BY DEF LinkPart, LinkOwned, RunningLinkIsEligible, CleanIdleIsPaused,
     StateType, Application, DisplayLink, Phase, Resource, Outcome
<1>4. PhasePart(CancelActive(s))
  BY DEF LinkPart, LinkOwned, PhasePart, ResourceMatchesPhase, OrderedCounts,
     CommittedIsEligible, StoppedIsDrained, TerminalIsIdle, Committed, StateType,
     Application, DisplayLink, Phase, Resource, Outcome
<1>5. TokenPart(CancelActive(s))
  BY DEF TokenPart, TokenIsBounded, CurrentPresentation, PresentedIsMonotonic,
     Token, StateType, Application, DisplayLink, Phase, Resource, Outcome,
     PhasePart, OrderedCounts, TerminalIsIdle, CommittedIsEligible, Committed
<1> QED BY <1>2, <1>3, <1>4, <1>5

LEMMA BeginShutdownSound ==
    ASSUME NEW s, Sound(s), CanBeginShutdown(s)
    PROVE  Sound(BeginShutdown(s))
<1> USE DEF Sound, BeginShutdown, CanBeginShutdown, Retire, IsRunning, Committed
<1>2. BeginShutdown(s) \in StateType
  BY DEF StateType, Application, DisplayLink, Phase, Resource, Outcome
<1>3. LinkPart(BeginShutdown(s))
  BY DEF LinkPart, LinkOwned, RunningLinkIsEligible, CleanIdleIsPaused,
     StateType, Application, DisplayLink, Phase, Resource, Outcome
<1>4. PhasePart(BeginShutdown(s))
  BY DEF LinkPart, LinkOwned, PhasePart, ResourceMatchesPhase, OrderedCounts,
     CommittedIsEligible, StoppedIsDrained, TerminalIsIdle, Committed, StateType,
     Application, DisplayLink, Phase, Resource, Outcome
<1>5. TokenPart(BeginShutdown(s))
  BY DEF TokenPart, TokenIsBounded, CurrentPresentation, PresentedIsMonotonic,
     Token, StateType, Application, DisplayLink, Phase, Resource, Outcome,
     PhasePart, OrderedCounts, TerminalIsIdle, CommittedIsEligible, Committed
<1> QED BY <1>2, <1>3, <1>4, <1>5

LEMMA StopAfterDrainSound ==
    ASSUME NEW s, Sound(s), CanStopAfterDrain(s)
    PROVE  Sound(StopAfterDrain(s))
<1> USE DEF Sound, StopAfterDrain, CanStopAfterDrain, IsRunning
<1>2. StopAfterDrain(s) \in StateType
  BY DEF StateType, Application, DisplayLink, Phase, Resource, Outcome
<1>3. LinkPart(StopAfterDrain(s))
  BY DEF LinkPart, LinkOwned, RunningLinkIsEligible, CleanIdleIsPaused,
     StateType, Application, DisplayLink, Phase, Resource, Outcome
<1>4. PhasePart(StopAfterDrain(s))
  BY DEF LinkPart, LinkOwned, PhasePart, ResourceMatchesPhase, OrderedCounts,
     CommittedIsEligible, StoppedIsDrained, TerminalIsIdle, Committed, StateType,
     Application, DisplayLink, Phase, Resource, Outcome
<1>5. TokenPart(StopAfterDrain(s))
  BY DEF TokenPart, TokenIsBounded, CurrentPresentation, PresentedIsMonotonic,
     Token, StateType, Application, DisplayLink, Phase, Resource, Outcome,
     PhasePart, OrderedCounts, TerminalIsIdle, CommittedIsEligible, Committed
<1> QED BY <1>2, <1>3, <1>4, <1>5

---------------------------------------------------------------------------
(* The inductive invariant.  AttemptsEndOnce alone is not inductive: a     *)
(* terminal handler counts evidence for the attempt of the token it finds, *)
(* which is the newest attempt only because no other can be active.        *)
ActiveIsNewest == p.phase # "Idle" => p.token.attempt = p.attempts

CallInv ==
    /\ CallTypeOK
    /\ Sound(p)
    /\ ActiveIsNewest
    /\ AttemptsEndOnce
    /\ CleanMeansSettled

LEMMA CallInitInv == CallInit => CallInv
<1> SUFFICES ASSUME CallInit PROVE CallInv
  OBVIOUS
<1>1. Sound(p)
  BY NewStateSound DEF CallInit
<1>2. CallTypeOK
  BY <1>1 DEF CallInit, CallTypeOK, Sound
<1>3. ActiveIsNewest /\ AttemptsEndOnce /\ CleanMeansSettled
  BY SequencesAssumption
     DEF CallInit, NewState, ActiveIsNewest, AttemptsEndOnce, CleanMeansSettled
<1> QED BY <1>1, <1>2, <1>3 DEF CallInv

(* Every step leaves a sound state: one handler lemma per action. *)
LEMMA NextSound == Sound(p) /\ [CallNext]_callVars => Sound(p')
<1> SUFFICES ASSUME Sound(p), [CallNext]_callVars PROVE Sound(p')
  OBVIOUS
<1> USE DEF Quietly, Terminally
<1>1. CASE DoInvalidate
  BY <1>1, InvalidateSound DEF DoInvalidate
<1>2. CASE DoAdvanceSurfaceEpoch
  BY <1>2, AdvanceSurfaceEpochSound DEF DoAdvanceSurfaceEpoch
<1>3. CASE DoSetVisible
  BY <1>3, SetVisibleSound DEF DoSetVisible
<1>4. CASE DoSetSized
  BY <1>4, SetSizedSound DEF DoSetSized
<1>5. CASE DoResume
  BY <1>5, ResumeSound DEF DoResume
<1>6. CASE DoPrepare
  BY <1>6, PrepareSound DEF DoPrepare
<1>7. CASE DoBeginUpdate
  BY <1>7, BeginUpdateSound DEF DoBeginUpdate
<1>8. CASE DoDiscardStale
  BY <1>8, DiscardStaleSound DEF DoDiscardStale
<1>9. CASE DoSubmit
  BY <1>9, SubmitSound DEF DoSubmit
<1>10. CASE DoCallPresent
  BY <1>10, CallPresentSound DEF DoCallPresent
<1>11. CASE DoCompletePresentation
  BY <1>11, CompletePresentationSound DEF DoCompletePresentation
<1>12. CASE DoFailActive
  BY <1>12, FailActiveSound DEF DoFailActive
<1>13. CASE DoCancelActive
  BY <1>13, CancelActiveSound DEF DoCancelActive
<1>14. CASE DoBeginShutdown
  BY <1>14, BeginShutdownSound DEF DoBeginShutdown
<1>15. CASE DoStopAfterDrain
  BY <1>15, StopAfterDrainSound DEF DoStopAfterDrain
<1>16. CASE UNCHANGED callVars
  BY <1>16 DEF callVars
<1> QED
  BY <1>1, <1>2, <1>3, <1>4, <1>5, <1>6, <1>7, <1>8, <1>9, <1>10, <1>11, <1>12,
     <1>13, <1>14, <1>15, <1>16 DEF CallNext

(* How a step may move an attempt: it stays as it was, it begins, or it    *)
(* ends and is counted.                                                    *)
Keeps ==
    /\ p'.attempts = p.attempts /\ p'.token = p.token
    /\ p.phase = "Idle" <=> p'.phase = "Idle"
    /\ UNCHANGED <<issued, evidence>>
Begins ==
    /\ p.phase = "Idle" /\ p'.phase # "Idle"
    /\ p.attempts < MaxAttempt /\ p'.attempts = p.attempts + 1
    /\ p'.token.attempt = p'.attempts
    /\ issued' = issued \union {p'.token}
    /\ UNCHANGED evidence
Ends ==
    /\ p.phase # "Idle" /\ p'.phase = "Idle"
    /\ p'.attempts = p.attempts
    /\ evidence' = [evidence EXCEPT ![p.token.attempt] = @ + 1]
    /\ UNCHANGED issued

LEMMA NextMoves == Sound(p) /\ [CallNext]_callVars => Keeps \/ Begins \/ Ends
<1> SUFFICES ASSUME Sound(p), [CallNext]_callVars PROVE Keeps \/ Begins \/ Ends
  OBVIOUS
<1> USE DEF Sound, StateType, Phase, Committed
<1>1. CASE \/ DoInvalidate \/ DoAdvanceSurfaceEpoch \/ DoSetVisible
           \/ DoSetSized \/ DoResume \/ DoStopAfterDrain
  BY <1>1 DEF DoInvalidate, DoAdvanceSurfaceEpoch, DoSetVisible, DoSetSized, DoResume,
     DoStopAfterDrain, Invalidate, AdvanceSurfaceEpoch, SetVisible, SetSized, Resume,
     StopAfterDrain, ReconcileEligibility, Quietly, Keeps
<1>2. CASE DoPrepare
  BY <1>2 DEF DoPrepare, CanPrepare, Prepare, Begins
<1>3. CASE DoBeginUpdate \/ DoSubmit \/ DoCallPresent
  BY <1>3 DEF DoBeginUpdate, DoSubmit, DoCallPresent, BeginUpdate, Submit, CallPresent,
     CanBeginUpdate, CanSubmit, CanCallPresent, Quietly, Keeps
<1>4. CASE \/ DoDiscardStale \/ DoCompletePresentation
           \/ DoFailActive \/ DoCancelActive
  BY <1>4 DEF DoDiscardStale, DoCompletePresentation, DoFailActive, DoCancelActive,
     CanDiscardStale, CanCompletePresentation, CanFailActive, CanCancelActive,
     DiscardStale, CompletePresentation, FailActive, CancelActive, Retire,
     PauseIfRunning, ReconcileEligibility, Terminally, Ends
<1>5. CASE DoBeginShutdown
  BY <1>5 DEF DoBeginShutdown, BeginShutdown, Retire, Quietly, Terminally, Keeps, Ends
<1>6. CASE UNCHANGED callVars
  BY <1>6 DEF callVars, Keeps
<1> QED BY <1>1, <1>2, <1>3, <1>4, <1>5, <1>6 DEF CallNext

(* The reasons a surface may be clean, step by step. *)
LEMMA NextSettled ==
    Sound(p) /\ CleanMeansSettled /\ [CallNext]_callVars => CleanMeansSettled'
<1> SUFFICES ASSUME Sound(p), CleanMeansSettled, [CallNext]_callVars PROVE CleanMeansSettled'
  OBVIOUS
<1> USE DEF Sound, StateType, CleanMeansSettled, IsRunning, Quietly, Terminally
<1>1. CASE DoInvalidate \/ DoAdvanceSurfaceEpoch
  BY <1>1 DEF DoInvalidate, DoAdvanceSurfaceEpoch, Invalidate, AdvanceSurfaceEpoch
<1>2. CASE DoSetVisible \/ DoSetSized \/ DoResume
  <2>1. CASE DoSetVisible
    BY <2>1 DEF DoSetVisible, SetVisible, ReconcileEligibility
  <2>2. CASE DoSetSized
    BY <2>2 DEF DoSetSized, SetSized, ReconcileEligibility
  <2>3. CASE DoResume
    BY <2>3 DEF DoResume, Resume
  <2> QED BY <1>2, <2>1, <2>2, <2>3
<1>3. CASE DoPrepare
  BY <1>3 DEF DoPrepare, CanPrepare, Prepare, LinkPart, RunningLinkIsEligible
<1>4. CASE DoBeginUpdate \/ DoSubmit \/ DoCallPresent
  BY <1>4 DEF DoBeginUpdate, DoSubmit, DoCallPresent, BeginUpdate, Submit, CallPresent
<1>5. CASE DoDiscardStale \/ DoFailActive
  <2>1. CASE DoDiscardStale
    BY <2>1 DEF DoDiscardStale, CanDiscardStale, DiscardStale, Retire, ReconcileEligibility,
       PhasePart, TerminalIsIdle, Phase, Committed
  <2>2. CASE DoFailActive
    BY <2>2 DEF DoFailActive, CanFailActive, FailActive, Retire, PauseIfRunning,
       PhasePart, TerminalIsIdle, Phase, Committed
  <2> QED BY <1>5, <2>1, <2>2
<1>6. CASE DoCompletePresentation
  BY <1>6 DEF DoCompletePresentation, CanCompletePresentation, CompletePresentation,
     IsToken, AttemptIsCurrent, Retire, ReconcileEligibility, PhasePart, TerminalIsIdle
<1>7. CASE DoCancelActive
  BY <1>7 DEF DoCancelActive, CancelActive, Retire, PauseIfRunning
<1>8. CASE DoBeginShutdown \/ DoStopAfterDrain
  BY <1>8 DEF DoBeginShutdown, DoStopAfterDrain, BeginShutdown, StopAfterDrain, Retire,
     CanStopAfterDrain, Phase, Committed
<1>9. CASE UNCHANGED callVars
  BY <1>9 DEF callVars
<1> QED BY <1>1, <1>2, <1>3, <1>4, <1>5, <1>6, <1>7, <1>8, <1>9 DEF CallNext

LEMMA CallNextInv == CallInv /\ [CallNext]_callVars => CallInv'
<1> SUFFICES ASSUME CallInv, [CallNext]_callVars PROVE CallInv'
  OBVIOUS
<1> USE DEF CallInv
<1>1. Sound(p')
  BY NextSound
<1>2. CleanMeansSettled'
  BY NextSettled
<1>3. Keeps \/ Begins \/ Ends
  BY NextMoves
<1>4. /\ p.attempts \in 0..MaxAttempt /\ p'.attempts \in 0..MaxAttempt
      /\ p'.phase # "Idle" => p'.token \in Token
      /\ p.phase # "Idle" => p.token.attempt \in 1..MaxAttempt
  BY <1>1 DEF Sound, StateType, TokenPart, TokenIsBounded, Token
<1>5. ActiveIsNewest'
  BY <1>3 DEF ActiveIsNewest, Keeps, Begins, Ends
<1>6. evidence' \in [1..MaxAttempt -> Nat]
  BY <1>3, <1>4 DEF CallTypeOK, Keeps, Begins, Ends
<1>7. issued' \subseteq Token
  BY <1>3, <1>4 DEF CallTypeOK, Keeps, Begins, Ends
<1>8. AttemptsEndOnce'
  <2> SUFFICES ASSUME NEW a \in 1..MaxAttempt
               PROVE  evidence'[a] = IF a < p'.attempts
                                        \/ (a = p'.attempts /\ p'.phase = "Idle")
                                     THEN 1 ELSE 0
    BY DEF AttemptsEndOnce
  <2> USE DEF AttemptsEndOnce, ActiveIsNewest, CallTypeOK
  <2>1. CASE Keeps
    BY <2>1 DEF Keeps
  <2>2. CASE Begins
    BY <2>2, <1>4 DEF Begins
  <2>3. CASE Ends
    BY <2>3, <1>4 DEF Ends
  <2> QED BY <1>3, <2>1, <2>2, <2>3
<1>9. CallTypeOK'
  BY <1>1, <1>6, <1>7 DEF CallTypeOK, Sound
<1> QED BY <1>1, <1>2, <1>5, <1>8, <1>9

---------------------------------------------------------------------------
(* The inductive invariant of the calls of any callers. *)
THEOREM CallsInductive == CallSpec => []CallInv
BY CallInitInv, CallNextInv, PTL DEF CallSpec

(* Every field of the state keeps its type, and only issued tokens are     *)
(* ever counted, whatever the callers of `apply' do.                       *)
THEOREM CallsTyped == CallSpec => []CallTypeOK
BY CallsInductive, PTL DEF CallInv

(* The checks `apply' makes before and after every handler never fail: the *)
(* rollback on InvariantViolation is dead code, for any caller and for     *)
(* sequences of any length.                                                *)
THEOREM StateInvariantHolds == CallSpec => []StateInvariant
<1>1. CallInv => StateInvariant
  BY SoundIsInvariant DEF CallInv, StateInvariant
<1> QED BY <1>1, CallsInductive, PTL

(* Every attempt yields exactly one terminal evidence, even when its token *)
(* is used again after it ended.                                           *)
THEOREM AttemptsEndOnceHolds == CallSpec => []AttemptsEndOnce
BY CallsInductive, PTL DEF CallInv

(* A clean running surface shows its newest request, or that request was   *)
(* cancelled: no sequence of calls loses one silently.                     *)
THEOREM CleanMeansSettledHolds == CallSpec => []CleanMeansSettled
BY CallsInductive, PTL DEF CallInv

---------------------------------------------------------------------------
(* What the driver sees of a handler: the application, the attempt, and    *)
(* what decides whether a frame is demanded.                               *)
SameAttempt(q, s) ==
    /\ q.application = s.application
    /\ q.phase = s.phase /\ q.token = s.token /\ q.attempts = s.attempts
SameDemand(q, s) ==
    /\ q.visible = s.visible /\ q.sized = s.sized /\ q.dirty = s.dirty
    /\ q.requested = s.requested /\ q.epoch = s.epoch

LEMMA InvalidateLeaves ==
    ASSUME NEW s, Sound(s), CanInvalidate(s)
    PROVE  LET q == Invalidate(s)
           IN  /\ Sound(q) /\ SameAttempt(q, s)
               /\ q.requested = s.requested + 1 /\ q.epoch = s.epoch /\ q.link = s.link
<1>1. Sound(Invalidate(s))
  BY InvalidateSound
<1> QED BY <1>1 DEF Sound, StateType, Invalidate, SameAttempt

LEMMA AdvanceSurfaceEpochLeaves ==
    ASSUME NEW s, Sound(s), CanAdvanceSurfaceEpoch(s)
    PROVE  LET q == AdvanceSurfaceEpoch(s)
           IN  /\ Sound(q) /\ SameAttempt(q, s)
               /\ q.requested = s.requested /\ q.link = s.link
<1>1. Sound(AdvanceSurfaceEpoch(s))
  BY AdvanceSurfaceEpochSound
<1> QED BY <1>1 DEF Sound, StateType, AdvanceSurfaceEpoch, SameAttempt

LEMMA SetVisibleLeaves ==
    ASSUME NEW s, Sound(s), IsRunning(s), NEW v \in BOOLEAN
    PROVE  LET q == SetVisible(s, v)
           IN  /\ Sound(q) /\ SameAttempt(q, s)
               /\ q.requested = s.requested /\ q.epoch = s.epoch /\ q.visible = v
               /\ q.link = "Running" => s.link = "Running"
<1>1. Sound(SetVisible(s, v))
  BY SetVisibleSound DEF CanSetVisible
<1> QED
  BY <1>1 DEF Sound, StateType, SetVisible, ReconcileEligibility, SameAttempt

LEMMA SetSizedLeaves ==
    ASSUME NEW s, Sound(s), IsRunning(s), NEW v \in BOOLEAN
    PROVE  LET q == SetSized(s, v)
           IN  /\ Sound(q) /\ SameAttempt(q, s)
               /\ q.requested = s.requested /\ q.epoch = s.epoch
               /\ q.link = "Running" => s.link = "Running"
<1>1. Sound(SetSized(s, v))
  BY SetSizedSound DEF CanSetSized
<1> QED BY <1>1 DEF Sound, StateType, SetSized, ReconcileEligibility, SameAttempt

LEMMA ResumeLeaves ==
    ASSUME NEW s, Sound(s), CanResume(s)
    PROVE  LET q == Resume(s)
           IN  /\ Sound(q) /\ SameAttempt(q, s) /\ SameDemand(q, s) /\ q.link = "Running"
<1>1. Sound(Resume(s))
  BY ResumeSound
<1> QED BY <1>1 DEF Sound, StateType, Resume, SameAttempt, SameDemand

(* A link is paused or running exactly while the application runs. *)
LEMMA LinkOfRunning ==
    ASSUME NEW s, Sound(s)
    PROVE  /\ IsRunning(s) => s.link \in {"Paused", "Running"}
           /\ ~IsRunning(s) => s.link = "Invalid"
           /\ s.link = "Running" => Demanded(s)
BY DEF Sound, StateType, DisplayLink, LinkPart, PhasePart, TokenPart, LinkOwned, RunningLinkIsEligible,
   Demanded

LEMMA ReconcileLinkLeaves ==
    ASSUME NEW s, Sound(s), NEW pend, NEW act
    PROVE  LET q == ReconcileLink(s, pend, act)
           IN  /\ Sound(q) /\ SameAttempt(q, s) /\ SameDemand(q, s)
               /\ q.link = "Running" =>
                     s.link = "Running" \/ pend # NoFrame \/ act # NoFrame
               /\ Demanded(q) /\ (pend # NoFrame \/ act # NoFrame) => q.link = "Running"
<1>1. CASE NeedsResume(s) /\ (pend # NoFrame \/ act # NoFrame)
  BY <1>1, ResumeLeaves DEF ReconcileLink, CanResume
<1>2. CASE ~(NeedsResume(s) /\ (pend # NoFrame \/ act # NoFrame))
  BY <1>2, LinkOfRunning DEF ReconcileLink, NeedsResume, Demanded, SameAttempt, SameDemand
<1> QED BY <1>1, <1>2

(* One attempt, from the token to the call that presents it: the machine   *)
(* refuses none of the four steps to a driver whose link runs.             *)
LEMMA SubmissionLeaves ==
    ASSUME NEW s, Sound(s), s.link = "Running", s.phase = "Idle", s.attempts < MaxAttempt
    PROVE  LET b == BeginUpdate(Prepare(s))
               t == Prepare(s).token
               q == CallPresent(Submit(b))
           IN  /\ CanPrepare(s) /\ CanBeginUpdate(Prepare(s), t) /\ CanSubmit(b, t)
               /\ t \in Token /\ t.revision = s.requested /\ t.epoch = s.epoch
               /\ Sound(b) /\ SameDemand(b, s) /\ b.application = s.application
               /\ b.phase = "Encoding" /\ b.token = t /\ b.attempts = s.attempts + 1
               /\ Sound(q) /\ SameDemand(q, s) /\ q.application = s.application
               /\ q.phase = "PresentCalled" /\ q.token = t /\ q.attempts = s.attempts + 1
               /\ q.link = "Running"
<1> DEFINE a == Prepare(s)
           t == a.token
           b == BeginUpdate(a)
           c == Submit(b)
           q == CallPresent(c)
<1>1. s \in StateType /\ Demanded(s) /\ CanPrepare(s)
  BY LinkOfRunning DEF Sound, CanPrepare
<1>2. Sound(a)
  BY <1>1, PrepareSound
<1>3. /\ SameDemand(a, s) /\ a.application = s.application /\ a.link = "Running"
      /\ a.phase = "Prepared" /\ a.attempts = s.attempts + 1
      /\ t = [attempt |-> s.attempts + 1, revision |-> s.requested, epoch |-> s.epoch]
  BY <1>1 DEF Prepare, StateType, SameDemand
<1>4. t \in Token /\ t.revision = s.requested /\ t.epoch = s.epoch
  <2>1. s.attempts + 1 \in 1..MaxAttempt
    BY <1>1, SequencesAssumption DEF StateType
  <2> QED BY <1>1, <1>3, <2>1 DEF Token, StateType
<1>5. AttemptIsCurrent(a) /\ IsToken(a, t)
  BY <1>1, <1>3, <1>4, SequencesAssumption
     DEF AttemptIsCurrent, IsToken, SameDemand, Demanded, IsRunning
<1>6. CanBeginUpdate(a, t)
  BY <1>3, <1>5 DEF CanBeginUpdate
<1> HIDE DEF a
<1>7. Sound(b)
  BY <1>2, <1>6, BeginUpdateSound
<1>8. /\ SameDemand(b, s) /\ b.application = s.application /\ b.link = "Running"
      /\ b.phase = "Encoding" /\ b.attempts = s.attempts + 1 /\ b.token = t
      /\ b.submissions = a.submissions
  BY <1>2, <1>3 DEF BeginUpdate, Sound, StateType, SameDemand
<1>9. AttemptIsCurrent(b) /\ IsToken(b, t)
  BY <1>1, <1>4, <1>5, <1>8
     DEF AttemptIsCurrent, IsToken, SameDemand, Demanded, IsRunning
<1>10. CanSubmit(b, t)
  BY <1>7, <1>8, <1>9 DEF CanSubmit, Sound, LinkPart, PhasePart, TokenPart, OrderedCounts
<1> HIDE DEF b
<1>11. Sound(c)
  BY <1>7, <1>10, SubmitSound
<1>12. /\ SameDemand(c, s) /\ c.application = s.application /\ c.link = "Running"
       /\ c.phase = "Submitted" /\ c.attempts = s.attempts + 1 /\ c.token = t
  BY <1>7, <1>8 DEF Submit, Sound, StateType, SameDemand
<1>13. CanCallPresent(c, t)
  BY <1>9, <1>12 DEF CanCallPresent, IsToken
<1> HIDE DEF c
<1>14. Sound(q)
  BY <1>11, <1>13, CallPresentSound
<1>15. /\ SameDemand(q, s) /\ q.application = s.application /\ q.link = "Running"
       /\ q.phase = "PresentCalled" /\ q.attempts = s.attempts + 1 /\ q.token = t
  BY <1>11, <1>12 DEF CallPresent, Sound, StateType, SameDemand
<1> QED
  BY <1>1, <1>4, <1>6, <1>7, <1>8, <1>10, <1>14, <1>15 DEF a, b, c

(* An attempt that is not over has a token. *)
LEMMA BusyHasToken ==
    ASSUME NEW s, Sound(s), s.phase # "Idle"
    PROVE  IsToken(s, s.token) /\ s.token \in Token
BY DEF Sound, StateType, LinkPart, PhasePart, TokenPart, TokenIsBounded, IsToken

Ended(q, s) ==
    /\ q.phase = "Idle" /\ q.application = s.application /\ q.attempts = s.attempts
    /\ q.requested = s.requested /\ q.epoch = s.epoch

LEMMA CompletePresentationLeaves ==
    ASSUME NEW s, Sound(s), IsRunning(s), s.phase = "PresentCalled"
    PROVE  LET q == CompletePresentation(s, s.token)
           IN  /\ CanCompletePresentation(s, s.token)
               /\ Sound(q) /\ Ended(q, s)
               /\ q.link = "Running" =>
                     /\ s.link = "Running"
                     /\ s.token.revision # s.requested \/ s.token.epoch # s.epoch
               /\ NeedsResume(q) => NeedsResume(s)
<1> DEFINE t == s.token
           q == CompletePresentation(s, t)
<1>1. CanCompletePresentation(s, t)
  BY BusyHasToken DEF CanCompletePresentation
<1>2. Sound(q)
  BY <1>1, CompletePresentationSound
<1> DEFINE r == IF AttemptIsCurrent(s)
                THEN [Retire(s, "Presented") EXCEPT !.presented = t.revision, !.dirty = FALSE]
                ELSE Retire(s, "Superseded")
<1>3. /\ Ended(r, s) /\ r.link = s.link /\ r.visible = s.visible /\ r.sized = s.sized
      /\ r.dirty = (s.dirty /\ ~AttemptIsCurrent(s))
      /\ r.link \in DisplayLink
      /\ DOMAIN r = DOMAIN s
  BY DEF Retire, Sound, StateType, Ended
<1>4. q = IF r.link = "Running" /\ ~Demanded(r) THEN [r EXCEPT !.link = "Paused"] ELSE r
  BY DEF CompletePresentation, ReconcileEligibility
<1>5. "link" \in DOMAIN s
  BY DEF Sound, StateType
<1> HIDE DEF r, q
<1>6. Ended(q, s) /\ q.visible = r.visible /\ q.sized = r.sized /\ q.dirty = r.dirty
  BY <1>3, <1>4, <1>5 DEF Ended
<1>7. q.link = IF r.link = "Running" /\ ~Demanded(r) THEN "Paused" ELSE r.link
  BY <1>3, <1>4, <1>5
<1>8. Demanded(q) <=> Demanded(r)
  BY <1>3, <1>6 DEF Ended, Demanded, IsRunning
<1>9. Demanded(r) => Demanded(s) /\ ~AttemptIsCurrent(s)
  BY <1>3 DEF Ended, Demanded, IsRunning
<1>10. Demanded(s) /\ ~AttemptIsCurrent(s) =>
         t.revision # s.requested \/ t.epoch # s.epoch
  BY BusyHasToken DEF AttemptIsCurrent, IsToken
<1>11. NeedsResume(q) => NeedsResume(s)
  BY <1>3, <1>7, <1>8, <1>9 DEF NeedsResume
<1>12. q.link = "Running" => s.link = "Running" /\ Demanded(r)
  BY <1>3, <1>7
<1> QED BY <1>1, <1>2, <1>6, <1>9, <1>10, <1>11, <1>12 DEF q

LEMMA FailActiveLeaves ==
    ASSUME NEW s, Sound(s), IsRunning(s), s.phase \in {"Encoding", "PresentCalled"}
    PROVE  LET q == FailActive(s)
           IN  /\ CanFailActive(s, s.token)
               /\ Sound(q) /\ Ended(q, s) /\ SameDemand(q, s) /\ q.link = "Paused"
<1>1. CanFailActive(s, s.token)
  BY BusyHasToken DEF CanFailActive, Committed
<1>2. Sound(FailActive(s))
  BY <1>1, FailActiveSound
<1> QED
  BY <1>1, <1>2 DEF FailActive, PauseIfRunning, Retire, IsRunning, Sound, StateType, Ended,
     SameDemand

LEMMA BeginShutdownLeaves ==
    ASSUME NEW s, Sound(s), IsRunning(s), s.phase \in {"Idle", "PresentCalled"}
    PROVE  LET q == BeginShutdown(s)
           IN  /\ Sound(q)
               /\ q.phase = s.phase /\ q.token = s.token /\ q.attempts = s.attempts
               /\ q.application = IF s.phase = "Idle" THEN "Stopped" ELSE "Stopping"
<1>1. Sound(BeginShutdown(s))
  BY BeginShutdownSound DEF CanBeginShutdown, IsRunning
<1> QED BY <1>1 DEF BeginShutdown, Committed, Sound, StateType

(* A stopping surface drains: the attempt is cancelled, then all stops. *)
LEMMA DrainLeaves ==
    ASSUME NEW s, Sound(s), s.application = "Stopping", s.phase = "PresentCalled"
    PROVE  LET q == StopAfterDrain(CancelActive(s))
           IN  /\ CanCancelActive(s, s.token)
               /\ Sound(q) /\ q.phase = "Idle" /\ q.application = "Stopped"
               /\ q.attempts = s.attempts
<1> DEFINE r == CancelActive(s)
<1>1. CanCancelActive(s, s.token)
  BY BusyHasToken DEF CanCancelActive, IsRunning
<1>2. Sound(r)
  BY <1>1, CancelActiveSound
<1>3. r.phase = "Idle" /\ r.application = "Stopping" /\ r.attempts = s.attempts
  BY DEF CancelActive, PauseIfRunning, Retire, IsRunning, Sound, StateType
<1> HIDE DEF r
<1>4. Sound(StopAfterDrain(r))
  BY <1>2, <1>3, StopAfterDrainSound DEF CanStopAfterDrain
<1> QED
  BY <1>1, <1>2, <1>3, <1>4 DEF r, StopAfterDrain, Sound, StateType

---------------------------------------------------------------------------
(* What the driver sees of the ring: the slots on lease. *)
RingSound(r) == r \in Ring!RingType /\ Ring!RingInvariant(r)

LEMMA SlotsAreThree ==
    /\ Ring!Slots = {1, 2, 3}
    /\ Ring!Cardinality({}) = 0
    /\ \A i : Ring!Cardinality({i}) = 1
<1>1. \A S : Ring!Cardinality(S) = Cardinality(S)
  BY DEF Ring!Cardinality, Cardinality
<1>2. Ring!Slots = {1, 2, 3}
  BY DEF Ring!Slots
<1> QED BY <1>1, <1>2, FS_EmptySet, FS_Singleton

LEMMA NewRingEmpty == RingSound(Ring!NewRing) /\ Ring!Occupied(Ring!NewRing) = {}
<1>1. Ring!NewRing \in Ring!RingType
  BY SequencesAssumption DEF Ring!NewRing, Ring!RingType, Ring!SlotPhase, Ring!Status
<1>2. Ring!Occupied(Ring!NewRing) = {}
  BY DEF Ring!Occupied, Ring!NewRing
<1>3. Ring!RingInvariant(Ring!NewRing)
  BY <1>2, SlotsAreThree
     DEF Ring!RingInvariant, Ring!SlotsMatchLeases, Ring!LeasesAreTheirSlots,
         Ring!LeasesAreUnique, Ring!AccountsBalance, Ring!NewRing, Ring!Status
<1> QED BY <1>1, <1>2, <1>3 DEF RingSound

(* An empty ring grants its first slot under a lease no slot had. *)
LEMMA LeaseGranted ==
    ASSUME NEW r, RingSound(r), Ring!Occupied(r) = {}, r.sequence < MaxAttempt,
           NEW t \in Token, NEW g \in Generation
    PROVE  LET l == Ring!NextLease(r, t, g)
               a == Ring!Acquire(r, t, g)
           IN  /\ Ring!CanAcquire(r, t) /\ ~Ring!IsSaturated(r) /\ l \in Ring!Lease
               /\ Ring!Owns(a, l, "Encoding") /\ a.sequence = r.sequence + 1
               /\ RingSound(a) /\ Ring!Occupied(a) = {l.slot}
<1> DEFINE l == Ring!NextLease(r, t, g)
           a == Ring!Acquire(r, t, g)
<1>1. ~Ring!IsSaturated(r)
  BY SlotsAreThree DEF Ring!IsSaturated
<1>2. /\ r \in Ring!RingType /\ r.sequence \in 0..MaxAttempt
      /\ r.releases \in Nat /\ r.admissions \in Nat /\ r.peak \in 0..3
      /\ \A i \in Ring!Slots : r.phase[i] = "Free" /\ r.lease[i] = NoLease
      /\ r.releases = r.admissions
      /\ r.releases = r.ended["Completed"] + r.ended["Failed"] + r.ended["Cancelled"]
  <2>1. /\ r \in Ring!RingType /\ r.sequence \in 0..MaxAttempt
        /\ r.releases \in Nat /\ r.admissions \in Nat /\ r.peak \in 0..3
    BY DEF RingSound, Ring!RingType
  <2>2. \A i \in Ring!Slots : r.phase[i] = "Free" /\ r.lease[i] = NoLease
    BY DEF RingSound, Ring!RingInvariant, Ring!Occupied, Ring!SlotsMatchLeases
  <2>3. /\ r.admissions = r.releases + Ring!Cardinality({})
        /\ r.releases = r.ended["Completed"] + r.ended["Failed"] + r.ended["Cancelled"]
    BY DEF RingSound, Ring!RingInvariant, Ring!AccountsBalance
  <2>4. r.releases = r.admissions
    BY <2>1, <2>3, SlotsAreThree
  <2> QED BY <2>1, <2>2, <2>3, <2>4
<1>3. Ring!CanAcquire(r, t)
  BY <1>2 DEF Ring!CanAcquire
<1>4. l.slot = 1 /\ 1 \in Ring!Slots
  BY <1>2, SlotsAreThree DEF Ring!NextLease, Ring!FirstFree
<1>5. l \in Ring!Lease /\ l.sequence = r.sequence + 1
  BY <1>2, <1>4, SequencesAssumption DEF Ring!NextLease, Ring!Lease
<1>6. a = [r EXCEPT !.phase[l.slot] = "Encoding", !.lease[l.slot] = l,
                    !.sequence = l.sequence, !.admissions = @ + 1,
                    !.peak = IF 0 + 1 > @ THEN @ + 1 ELSE @]
  BY <1>1, SlotsAreThree DEF Ring!Acquire
<1>7. l # NoLease
  BY <1>5, DriverAssumption
<1> HIDE DEF l, a
<1>8. PICK phase, lease, sequence, admissions, peak :
        /\ phase = [r.phase EXCEPT ![1] = "Encoding"]
        /\ lease = [r.lease EXCEPT ![1] = l]
        /\ sequence = r.sequence + 1 /\ admissions = r.admissions + 1
        /\ peak = IF 0 + 1 > r.peak THEN r.peak + 1 ELSE r.peak
  OBVIOUS
<1>9. a = [r EXCEPT !.phase = phase, !.lease = lease, !.sequence = sequence,
                    !.admissions = admissions, !.peak = peak]
  BY <1>4, <1>5, <1>6, <1>8
<1>10. peak \in 1..3
  <2>1. \A n \in 0..3 : (IF 0 + 1 > n THEN n + 1 ELSE n) \in 1..3
    OBVIOUS
  <2> QED BY <1>2, <1>8, <2>1
<1>11. a \in Ring!RingType
  <2>1. phase \in [Ring!Slots -> Ring!SlotPhase]
    BY <1>2, <1>8 DEF Ring!RingType, Ring!SlotPhase
  <2>2. lease \in [Ring!Slots -> Ring!Lease \union {NoLease}]
    BY <1>2, <1>5, <1>8 DEF Ring!RingType
  <2>3. sequence \in 0..MaxAttempt /\ admissions \in Nat
    <3>1. r.sequence \in 0..MaxAttempt /\ r.admissions \in Nat
      BY <1>2
    <3>2. sequence = r.sequence + 1 /\ admissions = r.admissions + 1
      BY <1>8
    <3>3. r.sequence + 1 \in 0..MaxAttempt
      BY <3>1, SequencesAssumption
    <3> QED BY <3>1, <3>2, <3>3
  <2>4. r \in Ring!RingType /\ peak \in 0..3
    BY <1>2, <1>10
  <2> QED BY <1>9, <2>1, <2>2, <2>3, <2>4 DEF Ring!RingType
<1>12. /\ a.phase = phase /\ a.lease = lease /\ a.sequence = sequence
       /\ a.admissions = admissions /\ a.peak = peak
       /\ a.releases = r.releases /\ a.ended = r.ended
  BY <1>2, <1>9 DEF Ring!RingType
<1>13. \A i \in Ring!Slots : /\ a.lease[i] = IF i = 1 THEN l ELSE NoLease
                             /\ a.phase[i] = IF i = 1 THEN "Encoding" ELSE "Free"
  BY <1>2, <1>8, <1>12 DEF Ring!RingType
<1>14. Ring!Occupied(a) = {1}
  BY <1>4, <1>13 DEF Ring!Occupied
<1>15. Ring!RingInvariant(a)
  <2>1. Ring!SlotsMatchLeases(a)
    BY <1>7, <1>13 DEF Ring!SlotsMatchLeases
  <2>2. Ring!LeasesAreTheirSlots(a)
    BY <1>2, <1>4, <1>5, <1>8, <1>13, <1>12 DEF Ring!LeasesAreTheirSlots
  <2>3. Ring!LeasesAreUnique(a)
    BY <1>13 DEF Ring!LeasesAreUnique
  <2>4. Ring!AccountsBalance(a)
    <3>1. /\ a.admissions = a.releases + Ring!Cardinality(Ring!Occupied(a))
          /\ Ring!Cardinality(Ring!Occupied(a)) <= a.peak
      <4>1. Ring!Cardinality(Ring!Occupied(a)) = 1
        BY <1>14, SlotsAreThree
      <4>2. a.admissions = a.releases + 1 /\ 1 <= a.peak
        <5>1. r.admissions \in Nat /\ r.releases = r.admissions
          BY <1>2
        <5> QED BY <5>1, <1>8, <1>12, <1>10
      <4> QED BY <4>1, <4>2
    <3>2. a.releases = a.ended["Completed"] + a.ended["Failed"] + a.ended["Cancelled"]
      BY <1>2, <1>12
    <3> QED BY <3>1, <3>2 DEF Ring!AccountsBalance
  <2> QED BY <2>1, <2>2, <2>3, <2>4 DEF Ring!RingInvariant
<1>16. Ring!Owns(a, l, "Encoding")
  BY <1>4, <1>13 DEF Ring!Owns
<1> QED
  BY <1>1, <1>3, <1>4, <1>5, <1>8, <1>11, <1>14, <1>12, <1>15, <1>16 DEF l, a, RingSound

(* A lease marked as submitted stays its slot's. *)
LEMMA LeaseSubmitted ==
    ASSUME NEW r, RingSound(r), NEW l \in Ring!Lease, Ring!Occupied(r) = {l.slot},
           Ring!Owns(r, l, "Encoding")
    PROVE  LET q == Ring!MarkSubmitted(r, l)
           IN  /\ RingSound(q) /\ Ring!Occupied(q) = {l.slot}
               /\ Ring!Owns(q, l, "Submitted") /\ q.sequence = r.sequence
<1> DEFINE q == Ring!MarkSubmitted(r, l)
<1>1. /\ r \in Ring!RingType /\ Ring!RingInvariant(r) /\ l.slot \in Ring!Slots
      /\ r.phase[l.slot] = "Encoding" /\ r.lease[l.slot] = l
  BY DEF RingSound, Ring!Lease, Ring!Owns
<1>2. /\ q.phase = [r.phase EXCEPT ![l.slot] = "Submitted"]
      /\ q = [r EXCEPT !.phase = q.phase]
  BY <1>1 DEF Ring!MarkSubmitted, Ring!RingType
<1> HIDE DEF q
<1>3. Ring!Occupied(q) = Ring!Occupied(r)
  BY <1>1, <1>2 DEF Ring!Occupied, Ring!RingType
<1>4. q \in Ring!RingType
  <2>1. q.phase \in [Ring!Slots -> Ring!SlotPhase]
    BY <1>1, <1>2 DEF Ring!RingType, Ring!SlotPhase
  <2> QED BY <1>1, <1>2, <2>1 DEF Ring!RingType
<1>5. /\ q.lease = r.lease /\ q.sequence = r.sequence /\ q.admissions = r.admissions
      /\ q.releases = r.releases /\ q.ended = r.ended /\ q.peak = r.peak
      /\ \A i \in Ring!Slots : q.phase[i] = "Free" <=> r.phase[i] = "Free"
      /\ q.phase[l.slot] = "Submitted"
  BY <1>1, <1>2 DEF Ring!RingType
<1>6. Ring!RingInvariant(q)
  BY <1>1, <1>3, <1>5 DEF Ring!RingInvariant, Ring!SlotsMatchLeases,
     Ring!LeasesAreTheirSlots, Ring!LeasesAreUnique, Ring!AccountsBalance
<1>7. Ring!Owns(q, l, "Submitted")
  BY <1>1, <1>5 DEF Ring!Owns
<1> QED BY <1>3, <1>4, <1>5, <1>6, <1>7 DEF q, RingSound

(* The only lease given back leaves the ring empty. *)
LEMMA LeaseReleased ==
    ASSUME NEW r, RingSound(r), NEW l \in Ring!Lease, Ring!Occupied(r) = {l.slot},
           NEW phase \in {"Encoding", "Submitted"}, Ring!Owns(r, l, phase),
           NEW status \in Ring!Status
    PROVE  LET q == Ring!Release(r, l, status)
           IN  RingSound(q) /\ Ring!Occupied(q) = {} /\ q.sequence = r.sequence
<1> DEFINE q == Ring!Release(r, l, status)
<1>1. /\ r \in Ring!RingType /\ l.slot \in Ring!Slots
      /\ \A i \in Ring!Slots : i # l.slot => r.phase[i] = "Free" /\ r.lease[i] = NoLease
      /\ r.admissions = r.releases + 1
      /\ r.releases = r.ended["Completed"] + r.ended["Failed"] + r.ended["Cancelled"]
  BY SlotsAreThree DEF RingSound, Ring!Lease, Ring!RingInvariant, Ring!SlotsMatchLeases,
     Ring!AccountsBalance, Ring!Occupied
<1>2. /\ q.phase = [r.phase EXCEPT ![l.slot] = "Free"]
      /\ q.lease = [r.lease EXCEPT ![l.slot] = NoLease]
      /\ q.releases = r.releases + 1
      /\ q.ended = [r.ended EXCEPT ![status] = @ + 1]
      /\ q.sequence = r.sequence /\ q.admissions = r.admissions /\ q.peak = r.peak
      /\ q = [r EXCEPT !.phase = q.phase, !.lease = q.lease, !.releases = q.releases,
                       !.ended = q.ended]
  BY <1>1 DEF Ring!Release, Ring!RingType
<1> HIDE DEF q
<1>3. q \in Ring!RingType
  <2>1. /\ q.phase \in [Ring!Slots -> Ring!SlotPhase]
        /\ q.lease \in [Ring!Slots -> Ring!Lease \union {NoLease}]
    BY <1>1, <1>2 DEF Ring!RingType, Ring!SlotPhase
  <2>2. q.releases \in Nat /\ q.ended \in [Ring!Status -> Nat]
    BY <1>1, <1>2 DEF Ring!RingType
  <2> QED BY <1>1, <1>2, <2>1, <2>2 DEF Ring!RingType
<1>4. \A i \in Ring!Slots : q.phase[i] = "Free" /\ q.lease[i] = NoLease
  BY <1>1, <1>2 DEF Ring!RingType
<1>5. Ring!Occupied(q) = {}
  BY <1>4 DEF Ring!Occupied
<1>6. q.ended["Completed"] + q.ended["Failed"] + q.ended["Cancelled"]
          = r.ended["Completed"] + r.ended["Failed"] + r.ended["Cancelled"] + 1
  <2>1. r.ended \in [{"Completed", "Failed", "Cancelled"} -> Nat]
    BY <1>1 DEF Ring!RingType, Ring!Status
  <2>2. CASE status = "Completed"
    BY <1>2, <2>1, <2>2
  <2>3. CASE status = "Failed"
    BY <1>2, <2>1, <2>3
  <2>4. CASE status = "Cancelled"
    BY <1>2, <2>1, <2>4
  <2> QED BY <2>2, <2>3, <2>4 DEF Ring!Status
<1>7. Ring!AccountsBalance(q)
  BY <1>1, <1>2, <1>5, <1>6, SlotsAreThree DEF Ring!AccountsBalance, Ring!RingType
<1>8. Ring!RingInvariant(q)
  BY <1>4, <1>7 DEF Ring!RingInvariant, Ring!SlotsMatchLeases, Ring!LeasesAreTheirSlots,
     Ring!LeasesAreUnique
<1> QED BY <1>2, <1>3, <1>5, <1>8 DEF q, RingSound

(* An empty ring grants a lease, and it is the only one afterwards. *)
LEMMA LeaseOut ==
    ASSUME NEW r, RingSound(r), Ring!Occupied(r) = {}, r.sequence < MaxAttempt,
           NEW t \in Token, NEW g \in Generation
    PROVE  LET l == Ring!NextLease(r, t, g)
               a == Ring!Acquire(r, t, g)
               q == Ring!MarkSubmitted(a, l)
               c == Ring!CancelEncoding(a, l)
           IN  /\ Ring!CanAcquire(r, t) /\ ~Ring!IsSaturated(r) /\ l \in Ring!Lease
               /\ RingSound(q) /\ Ring!Occupied(q) = {l.slot}
               /\ Ring!Owns(q, l, "Submitted") /\ q.sequence = r.sequence + 1
               /\ RingSound(c) /\ Ring!Occupied(c) = {} /\ c.sequence = r.sequence + 1
<1> DEFINE l == Ring!NextLease(r, t, g)
           a == Ring!Acquire(r, t, g)
           q == Ring!MarkSubmitted(a, l)
           c == Ring!CancelEncoding(a, l)
<1>1. /\ Ring!CanAcquire(r, t) /\ ~Ring!IsSaturated(r) /\ l \in Ring!Lease
      /\ Ring!Owns(a, l, "Encoding") /\ a.sequence = r.sequence + 1
      /\ RingSound(a) /\ Ring!Occupied(a) = {l.slot}
  BY LeaseGranted
<1> HIDE DEF l, a
<1>2. /\ RingSound(q) /\ Ring!Occupied(q) = {l.slot}
      /\ Ring!Owns(q, l, "Submitted") /\ q.sequence = a.sequence
  BY <1>1, LeaseSubmitted
<1>3. RingSound(c) /\ Ring!Occupied(c) = {} /\ c.sequence = a.sequence
  <2>1. "Cancelled" \in Ring!Status /\ c = Ring!Release(a, l, "Cancelled")
    BY DEF Ring!Status, Ring!CancelEncoding
  <2> HIDE DEF c
  <2> QED BY <1>1, <2>1, LeaseReleased
<1> QED BY <1>1, <1>2, <1>3 DEF l, a

(* The only lease is given back once, and the ring is empty again. *)
LEMMA LeaseBack ==
    ASSUME NEW r, RingSound(r), NEW l \in Ring!Lease, Ring!Occupied(r) = {l.slot},
           Ring!Owns(r, l, "Submitted"), NEW status \in Ring!Status
    PROVE  LET q == Ring!Complete(r, l, status)
           IN  /\ Ring!CanComplete(r, l)
               /\ RingSound(q) /\ Ring!Occupied(q) = {} /\ q.sequence = r.sequence
BY LeaseReleased DEF Ring!CanComplete, Ring!Complete

---------------------------------------------------------------------------
(* The inductive invariant.                                                *)

(* The attempt in the machine is the active frame's. *)
OwnsAttempt ==
    /\ state.phase = IF active = NoFrame THEN "Idle" ELSE "PresentCalled"
    /\ active # NoFrame => active.token = state.token

(* The ring holds one slot, until the command is terminal, and never ran   *)
(* ahead of the attempts.                                                  *)
HoldsSlot ==
    /\ RingSound(ring)
    /\ Ring!Occupied(ring) = IF AwaitsGpu THEN {active.lease.slot} ELSE {}
    /\ AwaitsGpu => Ring!Owns(ring, active.lease, "Submitted")
    /\ ring.sequence <= state.attempts

(* The surface lives while the application runs; a close that is not       *)
(* finished waits for the GPU, and every active frame has its timer.       *)
Closes ==
    /\ lifecycle = "LIVE" <=> IsRunning(state)
    /\ lifecycle = "CLOSING" /\ ~finished => state.application = "Stopping" /\ AwaitsGpu
    /\ lifecycle # "LIVE" => pending = NoFrame
    /\ finished => lifecycle # "LIVE" /\ active = NoFrame
    /\ active # NoFrame /\ lifecycle # "CLOSED" => timer.armed

(* The newest scene is pending, or it is the one in flight and the surface *)
(* has not changed since.                                                  *)
Waiting ==
    /\ pending # NoFrame => pending = state.requested
    /\ active # NoFrame /\ active.frame # NoFrame => active.frame = state.token.revision
    /\ lifecycle = "LIVE" /\ active # NoFrame /\ pending = NoFrame =>
         /\ active.frame # NoFrame
         /\ state.token.revision = state.requested
         /\ state.token.epoch = state.epoch

(* The native link runs whenever the state machine's does, and a pause it  *)
(* has not obeyed yet will be confirmed.                                   *)
Agrees(s, l) ==
    /\ s.link = "Running" => l.running
    /\ s.link = "Paused" /\ l.running => l.confirming

(* Pacing runs while a demanded frame is in flight, and only for a frame.  *)
Paces ==
    /\ lifecycle = "LIVE" => ~link.retired /\ Agrees(state, link)
    /\ lifecycle = "LIVE" /\ active # NoFrame /\ Demanded(state) => state.link = "Running"
    /\ state.link = "Running" /\ active = NoFrame => pending # NoFrame

IInv ==
    /\ TypeOK /\ Sound(state)
    /\ OwnsAttempt /\ HoldsSlot /\ Closes /\ Waiting /\ Paces

LEMMA InitIInv == Init => IInv
<1> SUFFICES ASSUME Init PROVE IInv
  OBVIOUS
<1>1. Sound(NewState)
  BY NewStateSound
<1>2. PICK sized \in BOOLEAN : state = SetSized(NewState, sized)
  BY DEF Init
<1>3. /\ Sound(state) /\ SameAttempt(state, NewState) /\ state.link # "Running"
      /\ NewState.phase = "Idle" /\ NewState.application = "Running"
      /\ NewState.attempts = 0
  BY <1>1, <1>2, SetSizedLeaves DEF NewState, IsRunning
<1>4. RingSound(ring) /\ Ring!Occupied(ring) = {} /\ ring.sequence = 0
  BY NewRingEmpty DEF Init, Ring!NewRing
<1>5. TypeOK
  <2>1. state \in StateType /\ ring \in Ring!RingType
    BY <1>3, <1>4 DEF Sound, RingSound
  <2>2. /\ link \in [running : BOOLEAN, retired : BOOLEAN,
                      queued : BOOLEAN, confirming : BOOLEAN]
        /\ timer \in [armed : BOOLEAN, updated : BOOLEAN]
    BY DEF Init
  <2>3. /\ pending = NoFrame /\ active = NoFrame /\ generation = 1 /\ refused = FALSE
        /\ gpu = "None" /\ glass = "None" /\ lifecycle = "LIVE" /\ finished = FALSE
    BY DEF Init
  <2>4. generation \in Generation
    BY <2>3 DEF Generation
  <2> QED BY <2>1, <2>2, <2>3, <2>4 DEF TypeOK
<1>6. OwnsAttempt /\ Closes /\ Waiting /\ Paces
  BY <1>3 DEF Init, OwnsAttempt, Closes, Waiting, Paces, Agrees, SameAttempt, IsRunning
<1>7. HoldsSlot
  BY <1>3, <1>4 DEF Init, HoldsSlot, AwaitsGpu, SameAttempt
<1> QED BY <1>3, <1>5, <1>6, <1>7 DEF IInv

(* What the invariant says on a live surface. *)
LEMMA LiveFacts ==
    ASSUME IInv, lifecycle = "LIVE"
    PROVE  /\ Sound(state) /\ IsRunning(state) /\ state.link \in {"Paused", "Running"}
           /\ ~link.retired /\ Agrees(state, link) /\ ~finished
           /\ active # NoFrame => state.phase = "PresentCalled"
           /\ active = NoFrame => state.phase = "Idle"
BY LinkOfRunning DEF IInv, Closes, Paces, OwnsAttempt

LEMMA ActiveFacts ==
    ASSUME IInv, active # NoFrame
    PROVE  /\ active \in ActiveFrame /\ active.lease \in Ring!Lease
           /\ active.token = state.token /\ active.terminal \in BOOLEAN
           /\ active.polls \in 0..MaxPolls
BY DEF IInv, TypeOK, OwnsAttempt, ActiveFrame

---------------------------------------------------------------------------
(* How a callback leaves the native link.                                  *)
LinkType == [running : BOOLEAN, retired : BOOLEAN, queued : BOOLEAN, confirming : BOOLEAN]

(* A directive that says what became of the portable link. *)
Tells(before, directive, after) ==
    /\ directive \in {"None", "Resume", "Pause"}
    /\ directive = "Pause" => after.link = "Paused"
    /\ directive = "Resume" => after.link = "Running"
    /\ directive = "None" /\ after.link = "Running" => before.link = "Running"

LEMMA ChangeTells ==
    ASSUME NEW before, NEW after,
           after.link \in {"Paused", "Running"}, before.link \in {"Paused", "Running"}
    PROVE  Tells(before, LinkChange(before, after), after)
BY DEF LinkChange, Tells

LEMMA DirectedAgrees ==
    ASSUME NEW l \in LinkType, ~l.retired, NEW before, NEW after, Agrees(before, l),
           after.link \in {"Paused", "Running"}, before.link \in {"Paused", "Running"}
    PROVE  LET r == Directed(l, LinkChange(before, after))
           IN  r \in LinkType /\ ~r.retired /\ Agrees(after, r)
BY DEF LinkType, Agrees, Directed, LinkChange

LEMMA ConfirmedAgrees ==
    ASSUME NEW l \in LinkType, ~l.retired, NEW before, NEW after, NEW d,
           Agrees(before, l), Tells(before, d, after)
    PROVE  LET r == Confirmed(Directed(l, d), d, after)
           IN  /\ r \in LinkType /\ ~r.retired /\ Agrees(after, r)
               /\ \A u \in AfterCallback(r, d) :
                     u \in LinkType /\ ~u.retired /\ Agrees(after, u)
<1> DEFINE m == Directed(l, d)
           r == Confirmed(m, d, after)
<1>1. /\ m \in LinkType /\ ~m.retired /\ m.confirming = l.confirming
      /\ m.running = (d = "Resume" \/ (d = "None" /\ l.running))
  BY DEF Directed, LinkType, Tells
<1> HIDE DEF m
<1>2. /\ r \in LinkType /\ ~r.retired /\ r.running = m.running
      /\ r.confirming = (\/ m.confirming \/ d = "Pause"
                         \/ (d = "None" /\ after.link = "Paused" /\ m.running))
  BY <1>1 DEF Confirmed, LinkType
<1> HIDE DEF r
<1>3. Agrees(after, r)
  BY <1>1, <1>2 DEF Agrees, Tells
<1>4. ASSUME NEW u \in AfterCallback(r, d)
      PROVE  u \in LinkType /\ ~u.retired /\ Agrees(after, u)
  BY <1>2, <1>3, <1>4 DEF AfterCallback, Agrees, Tells, LinkType
<1> QED BY <1>2, <1>3, <1>4 DEF r, m

LEMMA TimersTyped ==
    ASSUME NEW t \in [armed : BOOLEAN, updated : BOOLEAN], NEW act
    PROVE  /\ Armed(t) \in [armed : BOOLEAN, updated : BOOLEAN] /\ Armed(t).armed
           /\ Cancelled(t) \in [armed : BOOLEAN, updated : BOOLEAN]
           /\ TimerFor(t, act) \in [armed : BOOLEAN, updated : BOOLEAN]
           /\ act # NoFrame => TimerFor(t, act).armed
BY DEF Armed, Cancelled, TimerFor

---------------------------------------------------------------------------
(* Requests and configuration changes: the attempt is left alone. *)
LEMMA ConfigurationKeeps ==
    ASSUME IInv, lifecycle = "LIVE", Sound(state'), SameAttempt(state', state),
           UNCHANGED <<ring, generation, refused, outside, lifecycle, finished, timer>>,
           active' = active \/ (active # NoFrame /\ active' = [active EXCEPT !.frame = NoFrame]),
           pending' # NoFrame => pending' \in Frame /\ pending' = state'.requested,
           link' \in LinkType, ~link'.retired, Agrees(state', link'),
           active # NoFrame /\ pending' = NoFrame =>
              /\ active' = active /\ pending = NoFrame
              /\ state'.requested = state.requested /\ state'.epoch = state.epoch,
           active # NoFrame /\ Demanded(state') => state'.link = "Running",
           state'.link = "Running" /\ active = NoFrame => pending' # NoFrame
    PROVE  IInv'
<1>1. active # NoFrame => active' # NoFrame /\ active' \in ActiveFrame
                          /\ active'.token = active.token /\ active'.lease = active.lease
                          /\ active'.terminal = active.terminal
                          /\ active'.frame \in {active.frame, NoFrame}
  BY ActiveFacts, DriverAssumption DEF ActiveFrame
<1>2. active = NoFrame => active' = NoFrame
  OBVIOUS
<1>3. AwaitsGpu' <=> AwaitsGpu
  BY <1>1, <1>2 DEF AwaitsGpu
<1>4. TypeOK'
  BY <1>1, <1>2 DEF IInv, TypeOK, outside, Sound, LinkType
<1>5. OwnsAttempt' /\ Closes'
  BY <1>1, <1>2, <1>3, LiveFacts DEF IInv, OwnsAttempt, Closes, SameAttempt, IsRunning
<1>6. HoldsSlot'
  BY <1>1, <1>2, <1>3 DEF IInv, HoldsSlot, SameAttempt, AwaitsGpu, RingSound
<1>7. Waiting'
  BY <1>1, <1>2 DEF IInv, Waiting, SameAttempt
<1>8. Paces'
  BY <1>1, <1>2 DEF Paces
<1> QED BY <1>4, <1>5, <1>6, <1>7, <1>8 DEF IInv

LEMMA RequestFrameStep == IInv /\ RequestFrame => IInv' /\ refused' = refused
<1> SUFFICES ASSUME IInv, RequestFrame PROVE IInv' /\ refused' = refused
  OBVIOUS
<1> DEFINE frame == state.requested + 1
           asked == Invalidate(state)
<1>1. /\ lifecycle = "LIVE" /\ CanInvalidate(state)
      /\ pending' = frame /\ state' = ReconcileLink(asked, frame, active)
      /\ link' = Directed(link, LinkChange(state, state'))
      /\ UNCHANGED <<ring, active, generation, refused, outside, lifecycle, finished, timer>>
  BY DEF RequestFrame, RequestedFrame, Requested
<1>2. /\ Sound(asked) /\ SameAttempt(asked, state) /\ asked.requested = frame
      /\ asked.link = state.link
  BY <1>1, InvalidateLeaves, LiveFacts
<1>3. frame \in Frame
  BY <1>1, LiveFacts, SequencesAssumption DEF Sound, StateType, CanInvalidate, Frame
<1> HIDE DEF asked
<1>4. /\ Sound(state') /\ SameAttempt(state', asked) /\ SameDemand(state', asked)
      /\ Demanded(state') /\ (frame # NoFrame \/ active # NoFrame) => state'.link = "Running"
  BY <1>1, <1>2, ReconcileLinkLeaves
<1>5. frame # NoFrame
  BY <1>3, DriverAssumption
<1> HIDE DEF frame
<1>6. /\ SameAttempt(state', state) /\ state'.requested = frame
      /\ state'.link \in {"Paused", "Running"}
  BY <1>1, <1>2, <1>4, LiveFacts, LinkOfRunning DEF SameAttempt, SameDemand, IsRunning
<1>7. link' \in LinkType /\ ~link'.retired /\ Agrees(state', link')
  BY <1>1, <1>6, LiveFacts, DirectedAgrees DEF IInv, TypeOK, LinkType
<1> QED BY <1>1, <1>3, <1>4, <1>5, <1>6, <1>7, ConfigurationKeeps

LEMMA SynchronizeStep == IInv /\ Synchronize => IInv' /\ refused' = refused
<1> SUFFICES ASSUME IInv, Synchronize PROVE IInv' /\ refused' = refused
  OBVIOUS
<1>1. PICK differs \in BOOLEAN, sized \in BOOLEAN, visible \in BOOLEAN, wanted \in BOOLEAN :
        /\ lifecycle = "LIVE"
        /\ differs => CanAdvanceSurfaceEpoch(state)
        /\ CanRequest(state, wanted)
        /\ LET takes == differs /\ MovesActiveFrame
               kept == IF takes THEN active.frame ELSE pending
               act == IF takes THEN [active EXCEPT !.frame = NoFrame] ELSE active
               moved == IF differs THEN AdvanceSurfaceEpoch(state) ELSE state
               configured ==
                   ReconcileLink(SetVisible(SetSized(moved, sized), visible), kept, act)
               frame == RequestedFrame(configured, kept, wanted)
               next == IF wanted
                       THEN ReconcileLink(Requested(configured, TRUE), frame, act)
                       ELSE configured
           IN /\ state' = next
              /\ pending' = frame
              /\ active' = act
              /\ link' = Directed(Directed(link, LinkChange(state, configured)),
                                  LinkChange(configured, next))
        /\ UNCHANGED <<ring, generation, refused, outside, lifecycle, finished, timer>>
  BY DEF Synchronize
<1> DEFINE takes == differs /\ MovesActiveFrame
           kept == IF takes THEN active.frame ELSE pending
           act == IF takes THEN [active EXCEPT !.frame = NoFrame] ELSE active
           moved == IF differs THEN AdvanceSurfaceEpoch(state) ELSE state
           shown == SetVisible(SetSized(moved, sized), visible)
           configured == ReconcileLink(shown, kept, act)
           frame == RequestedFrame(configured, kept, wanted)
           asked == Invalidate(configured)
           next == IF wanted THEN ReconcileLink(asked, frame, act) ELSE configured
<1>2. /\ state' = next /\ pending' = frame /\ active' = act
      /\ link' = Directed(Directed(link, LinkChange(state, configured)),
                          LinkChange(configured, next))
  BY <1>1 DEF Requested
<1>3. /\ Sound(state) /\ IsRunning(state) /\ state.link \in {"Paused", "Running"}
      /\ ~link.retired /\ Agrees(state, link) /\ link \in LinkType
  BY <1>1, LiveFacts DEF IInv, TypeOK, LinkType
<1>4. /\ Sound(moved) /\ SameAttempt(moved, state) /\ moved.requested = state.requested
      /\ moved.link = state.link
      /\ ~differs => moved.epoch = state.epoch
  BY <1>1, <1>3, AdvanceSurfaceEpochLeaves DEF SameAttempt
<1> HIDE DEF moved
<1>5. /\ Sound(shown) /\ SameAttempt(shown, state) /\ shown.requested = state.requested
      /\ shown.epoch = moved.epoch
      /\ shown.link = "Running" => state.link = "Running"
  <2> DEFINE m == SetSized(moved, sized)
  <2>1. /\ Sound(m) /\ SameAttempt(m, moved) /\ m.requested = moved.requested
        /\ m.epoch = moved.epoch /\ (m.link = "Running" => moved.link = "Running")
    BY <1>3, <1>4, SetSizedLeaves DEF SameAttempt, IsRunning
  <2> HIDE DEF m
  <2>2. LET q == SetVisible(m, visible)
        IN  /\ Sound(q) /\ SameAttempt(q, m) /\ q.requested = m.requested
            /\ q.epoch = m.epoch /\ (q.link = "Running" => m.link = "Running")
    BY <1>3, <1>4, <2>1, SetVisibleLeaves DEF SameAttempt, IsRunning
  <2>3. shown = SetVisible(m, visible)
    BY DEF m
  <2> HIDE DEF shown
  <2> QED BY <1>4, <2>1, <2>2, <2>3 DEF SameAttempt
<1> HIDE DEF shown
<1>6. /\ Sound(configured) /\ SameAttempt(configured, shown) /\ SameDemand(configured, shown)
      /\ configured.link = "Running" =>
            shown.link = "Running" \/ kept # NoFrame \/ act # NoFrame
      /\ Demanded(configured) /\ (kept # NoFrame \/ act # NoFrame) =>
            configured.link = "Running"
  BY <1>5, ReconcileLinkLeaves
<1> HIDE DEF configured
<1>7. /\ SameAttempt(configured, state) /\ configured.requested = state.requested
      /\ configured.epoch = moved.epoch /\ configured.link \in {"Paused", "Running"}
  BY <1>3, <1>5, <1>6, LinkOfRunning DEF SameAttempt, SameDemand, IsRunning
<1>8. /\ takes => /\ active # NoFrame /\ pending = NoFrame
                  /\ active.frame \in Frame /\ active.frame = state.requested
      /\ active # NoFrame => act # NoFrame
      /\ active = NoFrame => act = NoFrame /\ ~takes
  BY <1>1, ActiveFacts, DriverAssumption DEF MovesActiveFrame, IInv, Waiting, ActiveFrame
<1>9. /\ kept # NoFrame => kept \in Frame /\ kept = state.requested
      /\ active # NoFrame /\ kept = NoFrame => ~differs /\ pending = NoFrame
  <2>1. active # NoFrame /\ pending = NoFrame => active.frame # NoFrame
    BY <1>1 DEF IInv, Waiting
  <2>2. pending # NoFrame => pending \in Frame /\ pending = state.requested
    BY DEF IInv, TypeOK, Waiting
  <2> QED BY <1>8, <2>1, <2>2, DriverAssumption DEF MovesActiveFrame
<1> HIDE DEF kept
<1>10. active' = active \/ (active # NoFrame /\ active' = [active EXCEPT !.frame = NoFrame])
  BY <1>2, <1>8
<1>11. ~differs => act = active
  OBVIOUS
<1> HIDE DEF takes, act
<1>12. wanted => /\ Sound(asked) /\ SameAttempt(asked, configured)
                 /\ asked.requested = state.requested + 1 /\ frame = state.requested + 1
                 /\ frame \in Frame /\ frame # NoFrame
  <2> SUFFICES ASSUME wanted
               PROVE  /\ Sound(asked) /\ SameAttempt(asked, configured)
                      /\ asked.requested = state.requested + 1
                      /\ frame = state.requested + 1
                      /\ frame \in Frame /\ frame # NoFrame
    OBVIOUS
  <2>1. CanInvalidate(state)
    BY <1>1 DEF CanRequest
  <2>2. CanInvalidate(configured)
    BY <1>7, <2>1 DEF CanInvalidate, SameAttempt, IsRunning
  <2>3. frame = state.requested + 1
    BY <1>7 DEF RequestedFrame
  <2>4. state.requested + 1 \in Frame
    BY <1>3, <2>1, SequencesAssumption DEF Sound, StateType, CanInvalidate, Frame
  <2> QED BY <1>6, <1>7, <2>2, <2>3, <2>4, InvalidateLeaves, DriverAssumption
<1>13. ~wanted => next = configured /\ frame = kept
  BY DEF RequestedFrame
<1>14. wanted => /\ Sound(next) /\ SameAttempt(next, asked) /\ SameDemand(next, asked)
                 /\ (Demanded(next) => next.link = "Running")
  BY <1>12, ReconcileLinkLeaves
<1> HIDE DEF asked, frame, next
<1>15. /\ Sound(next) /\ SameAttempt(next, state)
       /\ frame # NoFrame => frame \in Frame /\ frame = next.requested
  BY <1>6, <1>7, <1>9, <1>12, <1>13, <1>14 DEF SameAttempt, SameDemand
<1>16. next.link \in {"Paused", "Running"}
  BY <1>3, <1>15, LinkOfRunning DEF SameAttempt, IsRunning
<1>17. link' \in LinkType /\ ~link'.retired /\ Agrees(next, link')
  <2> DEFINE l == Directed(link, LinkChange(state, configured))
  <2>1. l \in LinkType /\ ~l.retired /\ Agrees(configured, l)
    BY <1>3, <1>7, DirectedAgrees
  <2> HIDE DEF l
  <2>2. LET r == Directed(l, LinkChange(configured, next))
        IN  r \in LinkType /\ ~r.retired /\ Agrees(next, r)
    BY <1>7, <1>16, <2>1, DirectedAgrees
  <2> QED BY <1>2, <2>2 DEF l
<1>18. active # NoFrame /\ frame = NoFrame =>
         /\ act = active /\ pending = NoFrame
         /\ next.requested = state.requested /\ next.epoch = state.epoch
  BY <1>4, <1>7, <1>9, <1>11, <1>12, <1>13
<1>19. active # NoFrame /\ Demanded(next) => next.link = "Running"
  BY <1>6, <1>8, <1>13, <1>14
<1>20. next.link = "Running" /\ active = NoFrame => frame # NoFrame
  <2> SUFFICES ASSUME next.link = "Running", active = NoFrame, ~wanted
               PROVE  kept # NoFrame
    BY <1>12, <1>13
  <2>1. shown.link = "Running" \/ kept # NoFrame
    BY <1>6, <1>8, <1>13
  <2>2. shown.link = "Running" => pending # NoFrame
    BY <1>5 DEF IInv, Paces
  <2> QED BY <1>8, <2>1, <2>2 DEF kept
<1> QED
  BY <1>1, <1>2, <1>10, <1>15, <1>17, <1>18, <1>19, <1>20, ConfigurationKeeps

LEMMA RejectConfigurationStep == IInv /\ RejectConfiguration => IInv' /\ refused' = refused
<1> SUFFICES ASSUME IInv, RejectConfiguration PROVE IInv' /\ refused' = refused
  OBVIOUS
<1> DEFINE m == SetSized(state, FALSE)
<1>1. /\ lifecycle = "LIVE" /\ state' = SetVisible(m, FALSE)
      /\ link' = Directed(link, LinkChange(state, state'))
      /\ UNCHANGED <<ring, pending, active, generation, refused, outside,
                     lifecycle, finished, timer>>
  BY DEF RejectConfiguration
<1>2. /\ Sound(state) /\ IsRunning(state) /\ state.link \in {"Paused", "Running"}
      /\ ~link.retired /\ Agrees(state, link) /\ link \in LinkType
  BY <1>1, LiveFacts DEF IInv, TypeOK, LinkType
<1>3. /\ Sound(m) /\ SameAttempt(m, state) /\ m.requested = state.requested
      /\ m.epoch = state.epoch
  BY <1>2, SetSizedLeaves
<1> HIDE DEF m
<1>4. /\ Sound(state') /\ SameAttempt(state', m) /\ state'.requested = m.requested
      /\ state'.epoch = m.epoch /\ state'.visible = FALSE
  BY <1>1, <1>2, <1>3, SetVisibleLeaves DEF SameAttempt, IsRunning
<1>5. /\ SameAttempt(state', state) /\ state'.requested = state.requested
      /\ state'.epoch = state.epoch /\ ~Demanded(state')
  BY <1>3, <1>4 DEF SameAttempt, Demanded
<1>6. state'.link = "Paused"
  BY <1>2, <1>4, <1>5, LinkOfRunning DEF SameAttempt, IsRunning
<1>7. link' \in LinkType /\ ~link'.retired /\ Agrees(state', link')
  BY <1>1, <1>2, <1>6, DirectedAgrees
<1>8. pending' # NoFrame => pending' \in Frame /\ pending' = state'.requested
  BY <1>1, <1>5 DEF IInv, TypeOK, Waiting
<1> QED BY <1>1, <1>4, <1>5, <1>6, <1>7, <1>8, ConfigurationKeeps

---------------------------------------------------------------------------
(* What a callback on a live surface reads of the frame in flight.         *)

LEMMA PolledLeaves ==
    ASSUME IInv, lifecycle = "LIVE", CommandDone
    PROVE  /\ ~PollRefused
           /\ RingSound(PolledRing) /\ Ring!Occupied(PolledRing) = {}
           /\ PolledRing.sequence = ring.sequence
           /\ PolledActive \in ActiveFrame /\ PolledActive.terminal
           /\ PolledActive.token = active.token /\ PolledActive.frame = active.frame
<1>1. active \in ActiveFrame /\ active.lease \in Ring!Lease /\ 0 \in 0..MaxPolls
  BY ActiveFacts, DriverAssumption DEF CommandDone
<1>2. CASE AwaitsGpu
  <2>1. "Completed" \in Ring!Status
    BY DEF Ring!Status
  <2>2. /\ RingSound(ring) /\ Ring!Occupied(ring) = {active.lease.slot}
        /\ Ring!Owns(ring, active.lease, "Submitted")
    BY <1>2 DEF IInv, HoldsSlot
  <2>3. /\ ~PollRefused
        /\ RingSound(PolledRing) /\ Ring!Occupied(PolledRing) = {}
        /\ PolledRing.sequence = ring.sequence
    BY <1>1, <1>2, <2>1, <2>2, LeaseBack DEF PollRefused, PolledRing
  <2> QED BY <1>1, <1>2, <2>3 DEF PolledActive, ActiveFrame
<1>3. CASE ~AwaitsGpu
  BY <1>1, <1>3 DEF IInv, HoldsSlot, PollRefused, PolledRing, PolledActive, AwaitsGpu,
     CommandDone
<1> QED BY <1>2, <1>3

(* A finished frame that is not shown yet is kept for another poll. *)
LEMMA WaitingLeaves ==
    ASSUME IInv, lifecycle = "LIVE", CommandDone, Waits
    PROVE  /\ Reconciled = state /\ ReconciledDirective = "None" /\ ~ReconcileRefused
           /\ ReconciledActive \in ActiveFrame /\ ReconciledActive.terminal
           /\ ReconciledActive.token = active.token
           /\ ReconciledActive.frame = active.frame
<1>1. ~GivesUp /\ glass = "None"
  BY DEF Waits
<1>2. Reconciled = state /\ ReconciledDirective = "None" /\ ~ReconcileRefused
  BY <1>1, PolledLeaves DEF Reconciled, ReconciledDirective, ReconcileRefused, Waits
<1>3. PolledActive \in ActiveFrame /\ PolledActive.polls \in 0..MaxPolls
  BY PolledLeaves DEF ActiveFrame
<1>4. PolledActive.polls + 1 \in 0..MaxPolls
  BY <1>1, <1>3, DriverAssumption DEF GivesUp
<1>5. ReconciledActive = [PolledActive EXCEPT !.polls = @ + 1]
  BY DEF ReconciledActive
<1> QED BY <1>2, <1>3, <1>4, <1>5, PolledLeaves DEF ActiveFrame

(* Otherwise the attempt ends, and no error is possible; pacing goes on    *)
(* only if a newer scene is pending.                                       *)
LEMMA EndingLeaves ==
    ASSUME IInv, lifecycle = "LIVE", CommandDone, ~Waits
    PROVE  /\ ~ReconcileRefused /\ ReconciledActive = NoFrame
           /\ Sound(Reconciled) /\ Ended(Reconciled, state)
           /\ Reconciled.link = "Running" => pending # NoFrame
           /\ Tells(state, ReconciledDirective, Reconciled)
<1>1. /\ Sound(state) /\ IsRunning(state) /\ state.phase = "PresentCalled"
      /\ active.token = state.token /\ active # NoFrame
  BY LiveFacts, ActiveFacts DEF CommandDone
<1>2. /\ CanFailActive(state, active.token)
      /\ Sound(FailActive(state)) /\ Ended(FailActive(state), state)
      /\ FailActive(state).link = "Paused"
  BY <1>1, FailActiveLeaves
<1>3. CASE glass = "Shown"
  <2> DEFINE q == CompletePresentation(state, active.token)
  <2>1. /\ CanCompletePresentation(state, active.token)
        /\ Sound(q) /\ Ended(q, state)
        /\ q.link = "Running" =>
              /\ state.link = "Running"
              /\ state.token.revision # state.requested \/ state.token.epoch # state.epoch
        /\ NeedsResume(q) => NeedsResume(state)
    BY <1>1, CompletePresentationLeaves
  <2>2. Reconciled = q /\ ReconciledDirective = CompletionDirective(state, q)
    BY <1>3 DEF Reconciled, ReconciledDirective, GivesUp, Waits
  <2> HIDE DEF q
  <2>3. ~NeedsResume(q)
    BY <1>1, <2>1 DEF NeedsResume, IInv, Paces
  <2>4. q.link \in {"Paused", "Running"}
    BY <1>1, <2>1, LinkOfRunning DEF Ended, IsRunning
  <2>5. Tells(state, CompletionDirective(state, q), q)
    BY <2>1, <2>3, <2>4 DEF CompletionDirective, Tells
  <2>6. q.link = "Running" => pending # NoFrame
    BY <1>1, <2>1 DEF IInv, Waiting
  <2> QED
    BY <1>2, <1>3, <2>1, <2>2, <2>5, <2>6, PolledLeaves DEF ReconcileRefused, ReconciledActive
<1>4. CASE glass # "Shown"
  <2>1. glass = "Skipped" \/ GivesUp
    BY <1>4 DEF Waits, IInv, TypeOK
  <2>2. /\ Reconciled = FailActive(state)
        /\ ReconciledDirective = LinkChange(state, FailActive(state))
    BY <1>4, <2>1 DEF Reconciled, ReconciledDirective, Waits, GivesUp
  <2>3. Tells(state, ReconciledDirective, Reconciled)
    BY <1>2, <2>2, LiveFacts, ChangeTells
  <2> QED
    BY <1>2, <1>4, <2>2, <2>3, PolledLeaves DEF ReconcileRefused, ReconciledActive
<1> QED BY <1>3, <1>4

(* A command that failed: the same, and its slot is free. *)
LEMMA FailingLeaves ==
    ASSUME IInv, lifecycle = "LIVE", CommandFailed
    PROVE  LET q == FailActive(state)
               r == Ring!Complete(ring, active.lease, "Failed")
           IN  /\ ~PollRefused /\ CanFailActive(state, active.token)
               /\ RingSound(r) /\ Ring!Occupied(r) = {} /\ r.sequence = ring.sequence
               /\ Sound(q) /\ Ended(q, state) /\ q.link = "Paused"
               /\ Tells(state, LinkChange(state, q), q)
<1>1. AwaitsGpu /\ active # NoFrame /\ "Failed" \in Ring!Status
  BY DEF CommandFailed, AwaitsGpu, Ring!Status
<1>2. /\ RingSound(ring) /\ Ring!Occupied(ring) = {active.lease.slot}
      /\ Ring!Owns(ring, active.lease, "Submitted")
  BY <1>1 DEF IInv, HoldsSlot
<1>3. /\ Sound(state) /\ IsRunning(state) /\ state.phase = "PresentCalled"
      /\ state.link \in {"Paused", "Running"}
      /\ active.token = state.token /\ active.lease \in Ring!Lease
  BY <1>1, LiveFacts, ActiveFacts
<1>4. /\ CanFailActive(state, active.token)
      /\ Sound(FailActive(state)) /\ Ended(FailActive(state), state)
      /\ FailActive(state).link = "Paused"
  BY <1>3, FailActiveLeaves
<1>5. Tells(state, LinkChange(state, FailActive(state)), FailActive(state))
  BY <1>3, <1>4, ChangeTells
<1> QED BY <1>1, <1>2, <1>3, <1>4, <1>5, LeaseBack DEF PollRefused

---------------------------------------------------------------------------
(* Callbacks on a live surface, from the display link and from the timer.  *)

(* What every one of them leaves, whatever became of the frame. *)
Returned ==
    /\ lifecycle = "LIVE" /\ UNCHANGED <<lifecycle, finished, generation>>
    /\ link' \in LinkType /\ ~link'.retired /\ Agrees(state', link')
    /\ timer' \in [armed : BOOLEAN, updated : BOOLEAN]
    /\ active' # NoFrame => timer'.armed
    /\ gpu' \in {"None", "Running", "Completed", "Failed"}
    /\ glass' \in {"None", "Shown", "Skipped"}

LEMMA LinkUpdateReturns ==
    ASSUME IInv, NEW d, NEW next, LinkUpdate(d, next), Tells(state, d, next)
    PROVE  Returned /\ state' = next
<1>1. /\ lifecycle = "LIVE" /\ UNCHANGED <<lifecycle, finished, generation>> /\ state' = next
      /\ timer' = TimerFor([timer EXCEPT !.updated = TRUE], active') /\ EndOutside(active')
  BY DEF LinkUpdate
<1> DEFINE l == [link EXCEPT !.queued = FALSE]
<1>2. link' \in AfterCallback(Confirmed(Directed(l, d), d, next), d)
  BY DEF LinkUpdate
<1>3. l \in LinkType /\ ~l.retired /\ Agrees(state, l)
  BY <1>1, LiveFacts DEF IInv, TypeOK, LinkType, Agrees
<1> HIDE DEF l
<1>4. link' \in LinkType /\ ~link'.retired /\ Agrees(next, link')
  BY <1>2, <1>3, ConfirmedAgrees
<1>5. [timer EXCEPT !.updated = TRUE] \in [armed : BOOLEAN, updated : BOOLEAN]
  BY DEF IInv, TypeOK
<1>6. /\ timer' \in [armed : BOOLEAN, updated : BOOLEAN]
      /\ active' # NoFrame => timer'.armed
  BY <1>1, <1>5, TimersTyped
<1>7. /\ gpu' \in {"None", "Running", "Completed", "Failed"}
      /\ glass' \in {"None", "Shown", "Skipped"}
  BY <1>1 DEF EndOutside, outside, IInv, TypeOK
<1> QED BY <1>1, <1>4, <1>6, <1>7 DEF Returned

LEMMA TickReturns ==
    ASSUME IInv, NEW ended, NEW pend, NEW act, active' = act, Tick(ended, pend, act),
           IsRunning(ended), Sound(ended)
    PROVE  LET next == IF act = NoFrame /\ pend # NoFrame /\ NeedsResume(ended)
                       THEN Resume(ended) ELSE ended
           IN  /\ Returned /\ state' = next /\ Sound(next)
               /\ SameAttempt(next, ended) /\ SameDemand(next, ended)
               /\ next.link = "Running" => ended.link = "Running" \/ pend # NoFrame
<1> DEFINE next == IF act = NoFrame /\ pend # NoFrame /\ NeedsResume(ended)
                   THEN Resume(ended) ELSE ended
           d == LinkChange(state, next)
<1>1. /\ lifecycle = "LIVE" /\ UNCHANGED <<lifecycle, finished, generation>> /\ state' = next
      /\ link' = Confirmed(Directed(link, d), d, next)
      /\ timer' = [armed |-> act # NoFrame, updated |-> FALSE] /\ EndOutside(act)
  BY DEF Tick
<1>2. /\ Sound(next) /\ SameAttempt(next, ended) /\ SameDemand(next, ended)
      /\ next.link = "Running" => ended.link = "Running" \/ pend # NoFrame
  BY ResumeLeaves DEF CanResume, SameAttempt, SameDemand
<1>3. next.link \in {"Paused", "Running"} /\ state.link \in {"Paused", "Running"}
  BY <1>1, <1>2, LiveFacts, LinkOfRunning DEF SameAttempt, IsRunning
<1> HIDE DEF next
<1>4. Tells(state, d, next)
  BY <1>3, ChangeTells
<1> HIDE DEF d
<1>5. link \in LinkType /\ ~link.retired /\ Agrees(state, link)
  BY <1>1, LiveFacts DEF IInv, TypeOK, LinkType
<1>6. link' \in LinkType /\ ~link'.retired /\ Agrees(next, link')
  BY <1>1, <1>4, <1>5, ConfirmedAgrees
<1>7. /\ gpu' \in {"None", "Running", "Completed", "Failed"}
      /\ glass' \in {"None", "Shown", "Skipped"}
  BY <1>1 DEF EndOutside, outside, IInv, TypeOK
<1>8. /\ timer' \in [armed : BOOLEAN, updated : BOOLEAN]
      /\ active' # NoFrame => timer'.armed
  BY <1>1
<1> QED BY <1>1, <1>2, <1>6, <1>7, <1>8 DEF Returned, next

LEMMA TypesReturned ==
    ASSUME IInv, Returned, state' \in StateType, ring' \in Ring!RingType,
           pending' \in Frame \union {NoFrame}, active' \in ActiveFrame \union {NoFrame},
           refused' \in BOOLEAN
    PROVE  TypeOK'
<1>1. generation' \in Generation /\ lifecycle' \in {"LIVE", "CLOSING", "CLOSED"}
      /\ finished' \in BOOLEAN
  BY DEF Returned, IInv, TypeOK
<1> QED BY <1>1 DEF Returned, TypeOK, LinkType

(* The frame is still in flight, and its command runs or is now terminal. *)
LEMMA FrameStays ==
    ASSUME IInv, Returned, active # NoFrame, state' = state, UNCHANGED <<pending, refused>>,
           active' \in ActiveFrame, active'.token = active.token, active'.frame = active.frame,
           \/ UNCHANGED <<active, ring>>
           \/ /\ active'.terminal
              /\ RingSound(ring') /\ Ring!Occupied(ring') = {} /\ ring'.sequence = ring.sequence
    PROVE  IInv'
<1>1. active' # NoFrame
  BY DriverAssumption
<1>2. RingSound(ring')
  BY DEF IInv, HoldsSlot
<1>3. TypeOK'
  BY <1>2, TypesReturned DEF IInv, TypeOK, Sound, RingSound
<1>4. Sound(state') /\ OwnsAttempt' /\ Closes'
  BY <1>1 DEF IInv, OwnsAttempt, Closes, Returned, IsRunning
<1>5. HoldsSlot'
  <2>1. CASE UNCHANGED <<active, ring>>
    BY <2>1, <1>2 DEF IInv, HoldsSlot, AwaitsGpu
  <2>2. CASE /\ active'.terminal
             /\ RingSound(ring') /\ Ring!Occupied(ring') = {}
             /\ ring'.sequence = ring.sequence
    BY <2>2 DEF IInv, HoldsSlot, AwaitsGpu
  <2> QED BY <2>1, <2>2
<1>6. Waiting' /\ Paces'
  BY <1>1 DEF IInv, Waiting, Paces, Returned, Demanded, IsRunning
<1> QED BY <1>3, <1>4, <1>5, <1>6 DEF IInv

(* The frame is over, and its slot is free. *)
LEMMA FrameIsOver ==
    ASSUME IInv, Returned, active' = NoFrame, pending' \in {pending, NoFrame},
           refused' \in BOOLEAN, Sound(state'), Ended(state', state),
           RingSound(ring'), Ring!Occupied(ring') = {}, ring'.sequence = ring.sequence,
           state'.link = "Running" => pending' # NoFrame
    PROVE  IInv'
<1>1. TypeOK'
  BY TypesReturned DEF IInv, TypeOK, Sound, RingSound
<1>2. OwnsAttempt' /\ Closes'
  BY DEF IInv, OwnsAttempt, Closes, Returned, IsRunning, Ended
<1>3. HoldsSlot'
  BY DEF IInv, HoldsSlot, AwaitsGpu, Ended
<1>4. Waiting' /\ Paces'
  BY DEF IInv, Waiting, Paces, Returned, Ended
<1> QED BY <1>1, <1>2, <1>3, <1>4 DEF IInv

---------------------------------------------------------------------------
(* The display link. *)
LEMMA UpdateAwaitsGpuStep == IInv /\ UpdateAwaitsGpu => IInv' /\ refused' = refused
<1> SUFFICES ASSUME IInv, UpdateAwaitsGpu PROVE IInv' /\ refused' = refused
  OBVIOUS
<1>1. /\ active # NoFrame /\ UNCHANGED <<ring, pending, active, refused>>
      /\ LinkUpdate("None", state)
  BY DEF UpdateAwaitsGpu, AwaitsGpu
<1>2. Returned /\ state' = state
  BY <1>1, LinkUpdateReturns DEF Tells
<1> QED BY <1>1, <1>2, ActiveFacts, FrameStays

LEMMA UpdateSeesGpuFailureStep == IInv /\ UpdateSeesGpuFailure => IInv' /\ refused' = refused
<1> SUFFICES ASSUME IInv, UpdateSeesGpuFailure PROVE IInv' /\ refused' = refused
  OBVIOUS
<1> DEFINE q == FailActive(state)
<1>1. /\ CommandFailed
      /\ ring' = Ring!Complete(ring, active.lease, "Failed")
      /\ pending' \in {pending, NoFrame}
      /\ active' = NoFrame
      /\ refused' = (refused \/ PollRefused \/ ~CanFailActive(state, active.token))
      /\ LinkUpdate(LinkChange(state, q), q)
  BY DEF UpdateSeesGpuFailure
<1>2. lifecycle = "LIVE"
  BY <1>1 DEF LinkUpdate
<1>3. /\ ~PollRefused /\ CanFailActive(state, active.token)
      /\ RingSound(ring') /\ Ring!Occupied(ring') = {} /\ ring'.sequence = ring.sequence
      /\ Sound(q) /\ Ended(q, state) /\ q.link = "Paused"
      /\ Tells(state, LinkChange(state, q), q)
  BY <1>1, <1>2, FailingLeaves
<1> HIDE DEF q
<1>4. Returned /\ state' = q
  BY <1>1, <1>3, LinkUpdateReturns
<1>5. refused' = refused /\ refused \in BOOLEAN
  BY <1>1, <1>3 DEF IInv, TypeOK
<1> QED BY <1>1, <1>3, <1>4, <1>5, FrameIsOver

LEMMA UpdateReconcilesStep == IInv /\ UpdateReconciles => IInv' /\ refused' = refused
<1> SUFFICES ASSUME IInv, UpdateReconciles PROVE IInv' /\ refused' = refused
  OBVIOUS
<1>1. /\ CommandDone /\ ring' = PolledRing /\ active' = ReconciledActive
      /\ refused' = (refused \/ ReconcileRefused) /\ pending' = pending
      /\ LinkUpdate(ReconciledDirective, Reconciled)
  BY DEF UpdateReconciles
<1>2. lifecycle = "LIVE" /\ refused \in BOOLEAN /\ active # NoFrame
  BY <1>1 DEF LinkUpdate, IInv, TypeOK, CommandDone
<1>3. RingSound(ring') /\ Ring!Occupied(ring') = {} /\ ring'.sequence = ring.sequence
  BY <1>1, <1>2, PolledLeaves
<1>4. CASE Waits
  <2>1. /\ Reconciled = state /\ ReconciledDirective = "None" /\ ~ReconcileRefused
        /\ active' \in ActiveFrame /\ active'.terminal
        /\ active'.token = active.token /\ active'.frame = active.frame
    BY <1>1, <1>2, <1>4, WaitingLeaves
  <2>2. Returned /\ state' = state
    BY <1>1, <2>1, LinkUpdateReturns DEF Tells
  <2>3. refused' = refused
    BY <1>1, <2>1, <1>2
  <2> QED BY <1>1, <1>2, <1>3, <2>1, <2>2, <2>3, FrameStays
<1>5. CASE ~Waits
  <2>1. /\ ~ReconcileRefused /\ active' = NoFrame
        /\ Sound(Reconciled) /\ Ended(Reconciled, state)
        /\ Reconciled.link = "Running" => pending # NoFrame
        /\ Tells(state, ReconciledDirective, Reconciled)
    BY <1>1, <1>2, <1>5, EndingLeaves
  <2>2. Returned /\ state' = Reconciled
    BY <1>1, <2>1, LinkUpdateReturns
  <2>3. refused' = refused
    BY <1>1, <2>1, <1>2
  <2> QED BY <1>1, <1>2, <1>3, <2>1, <2>2, <2>3, FrameIsOver
<1> QED BY <1>4, <1>5

LEMMA UpdateReplacesStep ==
    IInv /\ UpdateReplaces => IInv' /\ (refused' # refused => ~CanResume(Reconciled))
<1> SUFFICES ASSUME IInv, UpdateReplaces
             PROVE  IInv' /\ (refused' # refused => ~CanResume(Reconciled))
  OBVIOUS
<1>1. /\ CommandDone /\ (glass = "Skipped" \/ GivesUp) /\ pending # NoFrame
      /\ ring' = PolledRing /\ active' = NoFrame /\ pending' = pending
      /\ refused' = (refused \/ ReconcileRefused \/ ~CanResume(Reconciled))
      /\ IF CanResume(Reconciled) THEN LinkUpdate("None", Resume(Reconciled))
         ELSE LinkUpdate("Pause", Reconciled)
  BY DEF UpdateReplaces
<1>2. lifecycle = "LIVE" /\ refused \in BOOLEAN /\ ~Waits /\ glass # "Shown"
  BY <1>1 DEF LinkUpdate, IInv, TypeOK, Waits, GivesUp
<1>3. RingSound(ring') /\ Ring!Occupied(ring') = {} /\ ring'.sequence = ring.sequence
  BY <1>1, <1>2, PolledLeaves
<1>4. ~ReconcileRefused /\ Sound(Reconciled) /\ Ended(Reconciled, state)
  BY <1>1, <1>2, EndingLeaves
<1>5. Reconciled = FailActive(state)
  BY <1>1, <1>2 DEF Reconciled, Waits
<1>6. SameDemand(Reconciled, state) /\ Reconciled.link = "Paused"
  BY <1>1, <1>2, <1>5, LiveFacts, FailActiveLeaves DEF CommandDone
<1>7. refused' \in BOOLEAN /\ (refused' # refused => ~CanResume(Reconciled))
  BY <1>1, <1>2, <1>4
<1>8. CASE CanResume(Reconciled)
  <2> DEFINE q == Resume(Reconciled)
  <2>1. /\ Sound(q) /\ SameAttempt(q, Reconciled) /\ SameDemand(q, Reconciled)
        /\ q.link = "Running"
    BY <1>4, <1>8, ResumeLeaves
  <2>2. state.link = "Running"
    <3>1. Demanded(state)
      BY <1>4, <1>6, <1>8
         DEF CanResume, NeedsResume, Demanded, IsRunning, SameDemand, Ended
    <3> QED BY <1>1, <1>2, <3>1 DEF IInv, Paces, CommandDone
  <2> HIDE DEF q
  <2>3. Returned /\ state' = q
    BY <1>1, <1>8, <2>1, <2>2, LinkUpdateReturns DEF Tells, q
  <2>4. Ended(q, state)
    BY <1>4, <2>1 DEF Ended, SameAttempt, SameDemand
  <2> QED BY <1>1, <1>3, <1>7, <2>1, <2>3, <2>4, FrameIsOver
<1>9. CASE ~CanResume(Reconciled)
  <2>1. Returned /\ state' = Reconciled
    BY <1>1, <1>6, <1>9, LinkUpdateReturns DEF Tells
  <2> QED BY <1>1, <1>3, <1>4, <1>6, <1>7, <2>1, FrameIsOver
<1> QED BY <1>8, <1>9

LEMMA UpdateFindsPausedStep == IInv /\ UpdateFindsPaused => IInv' /\ refused' = refused
<1> SUFFICES ASSUME IInv, UpdateFindsPaused PROVE IInv' /\ refused' = refused
  OBVIOUS
<1>1. /\ active = NoFrame /\ state.link # "Running"
      /\ UNCHANGED <<ring, pending, active, refused>> /\ LinkUpdate("None", state)
  BY DEF UpdateFindsPaused
<1>2. Returned /\ state' = state
  BY <1>1, LinkUpdateReturns DEF Tells
<1>3. /\ Ended(state', state) /\ RingSound(ring') /\ Ring!Occupied(ring') = {}
      /\ refused \in BOOLEAN /\ Sound(state)
  BY <1>1, <1>2 DEF IInv, OwnsAttempt, HoldsSlot, AwaitsGpu, TypeOK, Ended
<1> QED BY <1>1, <1>2, <1>3, FrameIsOver

(* An update that may submit finds a scene, an idle machine and an empty   *)
(* ring: nothing on the way to the GPU refuses the frame.                  *)
LEMMA SubmissionFacts ==
    ASSUME IInv, lifecycle = "LIVE", CanSubmitPending
    PROVE  /\ pending \in Frame /\ pending = state.requested /\ ~SubmitRefused
           /\ RingSound(ring) /\ Ring!Occupied(ring) = {} /\ ring.sequence < MaxAttempt
           /\ generation \in Generation /\ NewToken \in Token
<1>1. /\ Sound(state) /\ state.link = "Running" /\ state.phase = "Idle"
      /\ state.attempts < MaxAttempt /\ active = NoFrame
  BY LiveFacts DEF CanSubmitPending
<1>2. pending # NoFrame /\ pending \in Frame /\ pending = state.requested
  BY <1>1 DEF IInv, TypeOK, Paces, Waiting
<1>3. /\ RingSound(ring) /\ Ring!Occupied(ring) = {} /\ ring.sequence <= state.attempts
      /\ generation \in Generation
  BY <1>1 DEF IInv, HoldsSlot, AwaitsGpu, TypeOK
<1>4. ring.sequence < MaxAttempt
  BY <1>1, <1>3, SequencesAssumption DEF RingSound, Ring!RingType, Sound, StateType
<1>5. /\ CanPrepare(state) /\ CanBeginUpdate(Prepare(state), NewToken) /\ NewToken \in Token
  BY <1>1, SubmissionLeaves DEF NewToken
<1>6. Ring!CanAcquire(ring, NewToken) /\ ~Ring!IsSaturated(ring)
  BY <1>3, <1>4, <1>5, LeaseOut
<1> QED BY <1>2, <1>3, <1>4, <1>5, <1>6 DEF SubmitRefused

LEMMA UpdateSubmitsStep == IInv /\ UpdateSubmits => IInv' /\ refused' = refused
<1> SUFFICES ASSUME IInv, UpdateSubmits PROVE IInv' /\ refused' = refused
  OBVIOUS
<1> DEFINE l == Ring!NextLease(ring, NewToken, generation)
           q == CallPresent(Submit(Begun))
<1>1. /\ CanSubmitPending /\ lifecycle = "LIVE"
      /\ ring' = Ring!MarkSubmitted(Ring!Acquire(ring, NewToken, generation), l)
      /\ active' = [token |-> NewToken, lease |-> l, frame |-> pending,
                    terminal |-> FALSE, polls |-> 0]
      /\ pending' = NoFrame
      /\ refused' = (refused \/ SubmitRefused \/ ~CanSubmit(Begun, NewToken))
      /\ state' = q
      /\ link' = [link EXCEPT !.queued = FALSE]
      /\ timer' = Armed([timer EXCEPT !.updated = TRUE])
      /\ gpu' = "Running" /\ glass' = "None"
      /\ UNCHANGED <<generation, lifecycle, finished>>
  BY DEF UpdateSubmits
<1>2. /\ pending \in Frame /\ pending = state.requested /\ ~SubmitRefused
      /\ RingSound(ring) /\ Ring!Occupied(ring) = {} /\ ring.sequence < MaxAttempt
      /\ generation \in Generation /\ NewToken \in Token
  BY <1>1, SubmissionFacts
<1>3. /\ Sound(state) /\ IsRunning(state) /\ state.link = "Running" /\ state.phase = "Idle"
      /\ state.attempts < MaxAttempt /\ ~link.retired /\ Agrees(state, link)
      /\ link \in LinkType
  BY <1>1, LiveFacts DEF CanSubmitPending, IInv, TypeOK, LinkType
<1>4. /\ CanSubmit(Begun, NewToken)
      /\ NewToken.revision = state.requested /\ NewToken.epoch = state.epoch
      /\ Sound(q) /\ SameDemand(q, state) /\ q.application = state.application
      /\ q.phase = "PresentCalled" /\ q.token = NewToken /\ q.attempts = state.attempts + 1
      /\ q.link = "Running"
  BY <1>3, SubmissionLeaves DEF Begun, NewToken
<1>5. /\ l \in Ring!Lease /\ RingSound(ring') /\ Ring!Occupied(ring') = {l.slot}
      /\ Ring!Owns(ring', l, "Submitted") /\ ring'.sequence = ring.sequence + 1
  BY <1>1, <1>2, LeaseOut
<1> HIDE DEF l, q
<1>6. active' \in ActiveFrame /\ active' # NoFrame
  <2>1. 0 \in 0..MaxPolls
    BY DriverAssumption
  <2>2. active' \in ActiveFrame
    BY <1>1, <1>2, <1>5, <2>1 DEF ActiveFrame
  <2> QED BY <2>2, DriverAssumption
<1>7. refused' = refused /\ refused \in BOOLEAN
  BY <1>1, <1>2, <1>4 DEF IInv, TypeOK
<1>8. Returned
  <2>1. link' \in LinkType /\ ~link'.retired /\ Agrees(state', link')
    BY <1>1, <1>3, <1>4 DEF LinkType, Agrees
  <2>2. [timer EXCEPT !.updated = TRUE] \in [armed : BOOLEAN, updated : BOOLEAN]
    BY DEF IInv, TypeOK
  <2>3. timer' \in [armed : BOOLEAN, updated : BOOLEAN] /\ timer'.armed
    BY <1>1, <2>2, TimersTyped
  <2> QED BY <1>1, <2>1, <2>3 DEF Returned
<1>9. TypeOK'
  BY <1>1, <1>4, <1>5, <1>6, <1>7, <1>8, TypesReturned DEF Sound, RingSound
<1>10. OwnsAttempt' /\ Closes'
  BY <1>1, <1>3, <1>4, <1>6, <1>8, LiveFacts DEF OwnsAttempt, Closes, Returned, IsRunning
<1>11. HoldsSlot'
  <2>1. ring'.sequence <= state'.attempts
    BY <1>1, <1>3, <1>4, <1>5, <1>2 DEF IInv, HoldsSlot, RingSound, Ring!RingType, Sound,
       StateType
  <2>2. AwaitsGpu' /\ active'.lease = l
    BY <1>1, <1>6 DEF AwaitsGpu
  <2> QED BY <1>5, <2>1, <2>2 DEF HoldsSlot
<1>12. Waiting'
  <2>1. active'.frame = pending /\ pending # NoFrame
    BY <1>1, <1>2, DriverAssumption
  <2>2. state'.token = NewToken /\ SameDemand(state', state)
    BY <1>1, <1>4
  <2> QED BY <1>1, <1>2, <1>4, <2>1, <2>2 DEF Waiting, SameDemand
<1>13. Paces'
  BY <1>1, <1>4, <1>6, <1>8 DEF Paces, Returned
<1> QED BY <1>1, <1>4, <1>7, <1>9, <1>10, <1>11, <1>12, <1>13 DEF IInv

LEMMA UpdateRejectedStep == IInv /\ UpdateRejected => IInv' /\ refused' = refused
<1> SUFFICES ASSUME IInv, UpdateRejected PROVE IInv' /\ refused' = refused
  OBVIOUS
<1> DEFINE l == Ring!NextLease(ring, NewToken, generation)
           c == Ring!CancelEncoding(Ring!Acquire(ring, NewToken, generation), l)
           q == FailActive(Begun)
<1>1. /\ CanSubmitPending
      /\ ring' \in {c, ring}
      /\ pending' = NoFrame /\ active' = active
      /\ refused' = (refused \/ SubmitRefused)
      /\ LinkUpdate("Pause", q)
  BY DEF UpdateRejected
<1>2. lifecycle = "LIVE" /\ active' = NoFrame
  BY <1>1 DEF LinkUpdate, CanSubmitPending
<1>3. /\ ~SubmitRefused
      /\ RingSound(ring) /\ Ring!Occupied(ring) = {} /\ ring.sequence < MaxAttempt
      /\ generation \in Generation /\ NewToken \in Token
  BY <1>1, <1>2, SubmissionFacts
<1>4. /\ Sound(state) /\ IsRunning(state) /\ state.link = "Running" /\ state.phase = "Idle"
      /\ state.attempts < MaxAttempt
  BY <1>1, <1>2, LiveFacts DEF CanSubmitPending
<1>5. /\ Sound(Begun) /\ IsRunning(Begun) /\ Begun.phase = "Encoding"
      /\ Begun.attempts = state.attempts + 1
  BY <1>4, SubmissionLeaves DEF Begun, IsRunning
<1>6. /\ Sound(q) /\ q.link = "Paused" /\ q.phase = "Idle" /\ IsRunning(q)
      /\ q.attempts = state.attempts + 1
  BY <1>5, FailActiveLeaves DEF Ended, IsRunning
<1>7. /\ RingSound(ring') /\ Ring!Occupied(ring') = {}
      /\ ring'.sequence \in {ring.sequence, ring.sequence + 1}
  BY <1>1, <1>3, LeaseOut
<1> HIDE DEF q, c, l
<1>8. Returned /\ state' = q
  BY <1>1, <1>6, LinkUpdateReturns DEF Tells
<1>9. refused' = refused /\ refused \in BOOLEAN
  BY <1>1, <1>3 DEF IInv, TypeOK
<1>10. TypeOK'
  BY <1>1, <1>2, <1>6, <1>7, <1>8, <1>9, TypesReturned DEF Sound, RingSound
<1>11. HoldsSlot'
  <2>1. ring.sequence \in Nat /\ state.attempts \in Nat /\ ring.sequence <= state.attempts
    BY <1>3, <1>4, SequencesAssumption
       DEF IInv, HoldsSlot, RingSound, Ring!RingType, Sound, StateType
  <2>2. ring'.sequence <= state'.attempts
    BY <1>6, <1>7, <1>8, <2>1
  <2> QED BY <1>2, <1>7, <2>2 DEF HoldsSlot, AwaitsGpu
<1>12. OwnsAttempt' /\ Closes'
  BY <1>2, <1>6, <1>8, LiveFacts DEF OwnsAttempt, Closes, Returned
<1>13. Waiting' /\ Paces'
  BY <1>1, <1>2, <1>6, <1>8 DEF Waiting, Paces, Returned
<1> QED BY <1>6, <1>8, <1>9, <1>10, <1>11, <1>12, <1>13 DEF IInv

---------------------------------------------------------------------------
(* The frame-progress timer. *)
LEMMA TickAwaitsGpuStep == IInv /\ TickAwaitsGpu => IInv' /\ refused' = refused
<1> SUFFICES ASSUME IInv, TickAwaitsGpu PROVE IInv' /\ refused' = refused
  OBVIOUS
<1>1. /\ active # NoFrame /\ UNCHANGED <<ring, pending, active, refused>>
      /\ Tick(state, pending, active)
  BY DEF TickAwaitsGpu, AwaitsGpu
<1>2. Sound(state) /\ IsRunning(state)
  BY <1>1, LiveFacts DEF Tick
<1>3. Returned /\ state' = state
  BY <1>1, <1>2, TickReturns
<1> QED BY <1>1, <1>3, ActiveFacts, FrameStays

LEMMA TickSeesGpuFailureStep == IInv /\ TickSeesGpuFailure => IInv' /\ refused' = refused
<1> SUFFICES ASSUME IInv, TickSeesGpuFailure PROVE IInv' /\ refused' = refused
  OBVIOUS
<1> DEFINE q == FailActive(state)
<1>1. /\ CommandFailed
      /\ ring' = Ring!Complete(ring, active.lease, "Failed")
      /\ pending' \in {pending, NoFrame}
      /\ active' = NoFrame
      /\ refused' = (refused \/ PollRefused \/ ~CanFailActive(state, active.token))
      /\ Tick(q, pending', NoFrame)
  BY DEF TickSeesGpuFailure
<1>2. lifecycle = "LIVE"
  BY <1>1 DEF Tick
<1>3. /\ ~PollRefused /\ CanFailActive(state, active.token)
      /\ RingSound(ring') /\ Ring!Occupied(ring') = {} /\ ring'.sequence = ring.sequence
      /\ Sound(q) /\ Ended(q, state) /\ q.link = "Paused"
  BY <1>1, <1>2, FailingLeaves
<1> HIDE DEF q
<1>4. IsRunning(q)
  BY <1>2, <1>3, LiveFacts DEF Ended, IsRunning
<1>5. /\ Returned /\ Sound(state') /\ SameAttempt(state', q) /\ SameDemand(state', q)
      /\ state'.link = "Running" => pending' # NoFrame
  BY <1>1, <1>3, <1>4, TickReturns
<1>6. Ended(state', state)
  BY <1>3, <1>5 DEF Ended, SameAttempt, SameDemand
<1>7. refused' = refused /\ refused \in BOOLEAN
  BY <1>1, <1>3 DEF IInv, TypeOK
<1> QED BY <1>1, <1>3, <1>5, <1>6, <1>7, FrameIsOver

LEMMA TickPollsStep == IInv /\ TickPolls => IInv' /\ refused' = refused
<1> SUFFICES ASSUME IInv, TickPolls PROVE IInv' /\ refused' = refused
  OBVIOUS
<1>1. /\ CommandDone /\ ring' = PolledRing /\ active' = PolledActive
      /\ refused' = (refused \/ PollRefused) /\ pending' = pending
      /\ Tick(state, pending, PolledActive)
  BY DEF TickPolls
<1>2. lifecycle = "LIVE" /\ active # NoFrame /\ refused \in BOOLEAN
  BY <1>1 DEF Tick, CommandDone, IInv, TypeOK
<1>3. /\ ~PollRefused /\ RingSound(ring') /\ Ring!Occupied(ring') = {}
      /\ ring'.sequence = ring.sequence
      /\ active' \in ActiveFrame /\ active'.terminal
      /\ active'.token = active.token /\ active'.frame = active.frame
  BY <1>1, <1>2, PolledLeaves
<1>4. PolledActive # NoFrame
  BY <1>1, <1>3, DriverAssumption
<1>5. Sound(state) /\ IsRunning(state)
  BY <1>2, LiveFacts
<1>6. Returned /\ state' = state
  BY <1>1, <1>4, <1>5, TickReturns
<1>7. refused' = refused
  BY <1>1, <1>2, <1>3
<1> QED BY <1>1, <1>2, <1>3, <1>6, <1>7, FrameStays

LEMMA SilentTickStep == IInv /\ SilentTick => IInv' /\ refused' = refused
<1> SUFFICES ASSUME IInv, SilentTick PROVE IInv' /\ refused' = refused
  OBVIOUS
<1>1. /\ CommandDone /\ ring' = PolledRing /\ active' = ReconciledActive
      /\ refused' = (refused \/ ReconcileRefused) /\ pending' = pending
      /\ Tick(Reconciled, pending, ReconciledActive)
  BY DEF SilentTick
<1>2. /\ lifecycle = "LIVE" /\ active # NoFrame /\ refused \in BOOLEAN
      /\ Sound(state) /\ IsRunning(state)
  BY <1>1, LiveFacts DEF Tick, CommandDone, IInv, TypeOK
<1>3. RingSound(ring') /\ Ring!Occupied(ring') = {} /\ ring'.sequence = ring.sequence
  BY <1>1, <1>2, PolledLeaves
<1>4. CASE Waits
  <2>1. /\ Reconciled = state /\ ~ReconcileRefused
        /\ active' \in ActiveFrame /\ active'.terminal
        /\ active'.token = active.token /\ active'.frame = active.frame
    BY <1>1, <1>2, <1>4, WaitingLeaves
  <2>2. ReconciledActive # NoFrame
    BY <1>1, <2>1, DriverAssumption
  <2>3. Returned /\ state' = state
    BY <1>1, <1>2, <2>1, <2>2, TickReturns
  <2>4. refused' = refused
    BY <1>1, <1>2, <2>1
  <2> QED BY <1>1, <1>2, <1>3, <2>1, <2>3, <2>4, FrameStays
<1>5. CASE ~Waits
  <2>1. /\ ~ReconcileRefused /\ active' = NoFrame
        /\ Sound(Reconciled) /\ Ended(Reconciled, state)
        /\ Reconciled.link = "Running" => pending # NoFrame
    BY <1>1, <1>2, <1>5, EndingLeaves
  <2>2. IsRunning(Reconciled)
    BY <1>2, <2>1 DEF Ended, IsRunning
  <2>3. /\ Returned /\ Sound(state') /\ SameAttempt(state', Reconciled)
        /\ SameDemand(state', Reconciled)
        /\ state'.link = "Running" => Reconciled.link = "Running" \/ pending # NoFrame
    BY <1>1, <2>1, <2>2, TickReturns
  <2>4. Ended(state', state)
    BY <2>1, <2>3 DEF Ended, SameAttempt, SameDemand
  <2>5. refused' = refused
    BY <1>1, <1>2, <2>1
  <2> QED BY <1>1, <1>2, <1>3, <2>1, <2>3, <2>4, <2>5, FrameIsOver
<1> QED BY <1>4, <1>5

---------------------------------------------------------------------------
(* The close. *)

FinishedLinkAndTimer ==
    /\ link' \in LinkType /\ timer' \in [armed : BOOLEAN, updated : BOOLEAN]

LEMMA RetiredTyped ==
    ASSUME IInv
    PROVE  /\ RetiredLink(link) \in LinkType
           /\ Cancelled(timer) \in [armed : BOOLEAN, updated : BOOLEAN]
           /\ Armed(timer) \in [armed : BOOLEAN, updated : BOOLEAN] /\ Armed(timer).armed
BY TimersTyped DEF IInv, TypeOK, RetiredLink, LinkType

(* The driver's part of a shutdown: only a committed frame that still runs *)
(* keeps the application stopping.                                         *)
LEMMA ShutdownLeaves ==
    ASSUME IInv, NEW s, Sound(s), IsRunning(s), SameAttempt(s, state), ShutdownDriver(s),
           lifecycle = "LIVE"
    PROVE  /\ generation' \in Generation /\ pending' = NoFrame /\ refused' = refused
           /\ active' = IF AwaitsGpu THEN active ELSE NoFrame
           /\ ring' = ring
           /\ gpu' \in {"None", "Running", "Completed", "Failed"}
           /\ glass' \in {"None", "Shown", "Skipped"}
           /\ Sound(state') /\ state'.attempts = state.attempts /\ ~IsRunning(state')
           /\ AwaitsGpu => /\ state'.application = "Stopping"
                           /\ state'.phase = state.phase /\ state'.token = state.token
           /\ ~AwaitsGpu => state'.application = "Stopped" /\ state'.phase = "Idle"
<1> DEFINE ends == active # NoFrame /\ active.terminal
           begun == BeginShutdown(s)
<1>1. /\ generation' = 2 /\ pending' = NoFrame
      /\ active' = IF ends THEN NoFrame ELSE active
      /\ state' = IF ends THEN StopAfterDrain(CancelActive(begun)) ELSE begun
      /\ refused' = (refused \/ (ends /\ ~CanCancelActive(begun, active.token)))
      /\ ring' = ring /\ EndOutside(active')
  BY DEF ShutdownDriver
<1>2. /\ active # NoFrame => s.phase = "PresentCalled"
      /\ active = NoFrame => s.phase = "Idle"
      /\ refused \in BOOLEAN
  BY LiveFacts DEF SameAttempt, IInv, TypeOK
<1>3. /\ Sound(begun)
      /\ begun.phase = s.phase /\ begun.token = s.token /\ begun.attempts = s.attempts
      /\ begun.application = IF s.phase = "Idle" THEN "Stopped" ELSE "Stopping"
  BY <1>2, BeginShutdownLeaves
<1> HIDE DEF begun
<1>4. /\ gpu' \in {"None", "Running", "Completed", "Failed"}
      /\ glass' \in {"None", "Shown", "Skipped"}
  BY <1>1 DEF EndOutside, outside, IInv, TypeOK
<1>5. generation' \in Generation
  BY <1>1 DEF Generation
<1>6. CASE ends
  <2>1. active.token = begun.token /\ ~AwaitsGpu
    BY <1>3, <1>6, ActiveFacts DEF SameAttempt, AwaitsGpu
  <2>2. LET q == StopAfterDrain(CancelActive(begun))
        IN  /\ CanCancelActive(begun, begun.token)
            /\ Sound(q) /\ q.phase = "Idle" /\ q.application = "Stopped"
            /\ q.attempts = begun.attempts
    BY <1>2, <1>3, <1>6, DrainLeaves
  <2> QED
    BY <1>1, <1>2, <1>3, <1>4, <1>5, <1>6, <2>1, <2>2 DEF SameAttempt, IsRunning
<1>7. CASE ~ends
  <2>1. AwaitsGpu <=> active # NoFrame
    BY <1>7 DEF AwaitsGpu
  <2> QED
    BY <1>1, <1>2, <1>3, <1>4, <1>5, <1>7, <2>1 DEF SameAttempt, IsRunning
<1> QED BY <1>6, <1>7

(* A surface that is shut down. *)
LEMMA ShutDown ==
    ASSUME IInv, Sound(state'), ~IsRunning(state'), FinishedLinkAndTimer,
           lifecycle' \in {"CLOSING", "CLOSED"}, finished' \in BOOLEAN,
           generation' \in Generation, pending' = NoFrame, refused' = refused,
           gpu' \in {"None", "Running", "Completed", "Failed"},
           glass' \in {"None", "Shown", "Skipped"},
           active' = IF AwaitsGpu THEN active ELSE NoFrame, ring' = ring,
           state'.attempts = state.attempts,
           AwaitsGpu => /\ state'.application = "Stopping"
                        /\ state'.phase = state.phase /\ state'.token = state.token,
           ~AwaitsGpu => state'.application = "Stopped" /\ state'.phase = "Idle",
           lifecycle' = "CLOSING" => finished' = ~AwaitsGpu,
           finished' => ~AwaitsGpu,
           AwaitsGpu /\ lifecycle' = "CLOSING" => timer'.armed
    PROVE  IInv'
<1>1. active' # NoFrame <=> AwaitsGpu
  BY DEF AwaitsGpu
<1>2. AwaitsGpu' <=> AwaitsGpu
  BY <1>1 DEF AwaitsGpu
<1>3. state'.link = "Invalid"
  BY LinkOfRunning
<1>4. TypeOK'
  <2>1. pending' \in Frame \union {NoFrame} /\ active' \in ActiveFrame \union {NoFrame}
        /\ ring' \in Ring!RingType /\ refused' \in BOOLEAN
        /\ lifecycle' \in {"LIVE", "CLOSING", "CLOSED"}
    BY DEF IInv, TypeOK
  <2> QED BY <2>1 DEF TypeOK, Sound, FinishedLinkAndTimer, LinkType
<1>5. OwnsAttempt'
  BY <1>1 DEF IInv, OwnsAttempt, AwaitsGpu
<1>6. HoldsSlot'
  BY <1>1, <1>2 DEF IInv, HoldsSlot, AwaitsGpu
<1>7. Closes'
  BY <1>1, <1>2 DEF Closes
<1>8. Waiting'
  <2>1. AwaitsGpu => active # NoFrame
    BY DEF AwaitsGpu
  <2> QED BY <1>1, <2>1 DEF IInv, Waiting
<1>9. Paces'
  BY <1>3 DEF Paces
<1> QED BY <1>4, <1>5, <1>6, <1>7, <1>8, <1>9 DEF IInv

LEMMA BeginNativeCloseStep == IInv /\ BeginNativeClose => IInv' /\ refused' = refused
<1> SUFFICES ASSUME IInv, BeginNativeClose PROVE IInv' /\ refused' = refused
  OBVIOUS
<1>1. PICK wanted \in BOOLEAN :
        /\ lifecycle = "LIVE" /\ CanRequest(state, wanted) /\ lifecycle' = "CLOSING"
        /\ ShutdownDriver(Requested(state, wanted))
        /\ IF state'.application = "Stopping"
           THEN LET last == ReconcileLink(Requested(state, wanted), pending, active)
                IN /\ timer' = Armed(timer)
                   /\ link' = Directed(link, LinkChange(state, last))
                   /\ UNCHANGED finished
           ELSE FinishNativeClose
  BY DEF BeginNativeClose
<1> DEFINE s == Requested(state, wanted)
           last == ReconcileLink(s, pending, active)
<1>2. Sound(s) /\ SameAttempt(s, state) /\ IsRunning(s)
  BY <1>1, LiveFacts, InvalidateLeaves DEF Requested, CanRequest, SameAttempt, IsRunning
<1> HIDE DEF s
<1>3. /\ generation' \in Generation /\ pending' = NoFrame /\ refused' = refused
      /\ active' = IF AwaitsGpu THEN active ELSE NoFrame
      /\ ring' = ring
      /\ gpu' \in {"None", "Running", "Completed", "Failed"}
      /\ glass' \in {"None", "Shown", "Skipped"}
      /\ Sound(state') /\ state'.attempts = state.attempts /\ ~IsRunning(state')
      /\ AwaitsGpu => /\ state'.application = "Stopping"
                      /\ state'.phase = state.phase /\ state'.token = state.token
      /\ ~AwaitsGpu => state'.application = "Stopped" /\ state'.phase = "Idle"
  BY <1>1, <1>2, ShutdownLeaves DEF s
<1>4. /\ FinishedLinkAndTimer /\ finished' \in BOOLEAN /\ finished' = ~AwaitsGpu
      /\ AwaitsGpu => timer'.armed
  <2>1. CASE AwaitsGpu
    <3>1. /\ timer' = Armed(timer) /\ finished' = finished
          /\ link' = Directed(link, LinkChange(state, last))
      BY <1>1, <1>3, <2>1 DEF s
    <3>2. Sound(last) /\ SameAttempt(last, s)
      BY <1>2, ReconcileLinkLeaves
    <3>3. last.link \in {"Paused", "Running"}
      BY <1>2, <3>2, LinkOfRunning DEF SameAttempt, IsRunning
    <3> HIDE DEF last
    <3>4. link' \in LinkType
      BY <1>1, <3>1, <3>3, LiveFacts, DirectedAgrees DEF IInv, TypeOK, LinkType
    <3> QED
      BY <1>1, <2>1, <3>1, <3>4, LiveFacts, RetiredTyped
         DEF FinishedLinkAndTimer, IInv, TypeOK
  <2>2. CASE ~AwaitsGpu
    <3>1. finished' = TRUE /\ timer' = Cancelled(timer) /\ link' = RetiredLink(link)
      BY <1>1, <1>3, <2>2 DEF FinishNativeClose
    <3> QED BY <2>2, <3>1, RetiredTyped DEF FinishedLinkAndTimer
  <2> QED BY <2>1, <2>2
<1> QED BY <1>1, <1>3, <1>4, ShutDown

LEMMA DrainShutdownStep == IInv /\ DrainShutdown => IInv' /\ refused' = refused
<1> SUFFICES ASSUME IInv, DrainShutdown PROVE IInv' /\ refused' = refused
  OBVIOUS
<1> DEFINE q == StopAfterDrain(CancelActive(state))
           r == Ring!Complete(ring, active.lease, "Cancelled")
<1>1. /\ lifecycle = "CLOSING" /\ ~finished /\ active # NoFrame
      /\ ring' = r /\ active' = NoFrame
      /\ refused' = (\/ refused
                     \/ ~Ring!CanComplete(ring, active.lease)
                     \/ ~CanCancelActive(state, active.token))
      /\ state' = q
      /\ EndOutside(NoFrame)
      /\ FinishNativeClose
      /\ UNCHANGED <<pending, generation, lifecycle>>
  BY DEF DrainShutdown
<1>2. /\ state.application = "Stopping" /\ AwaitsGpu /\ state.phase = "PresentCalled"
      /\ active.token = state.token /\ active.lease \in Ring!Lease /\ Sound(state)
      /\ refused \in BOOLEAN
  BY <1>1, ActiveFacts DEF IInv, Closes, OwnsAttempt, TypeOK
<1>3. /\ CanCancelActive(state, active.token)
      /\ Sound(q) /\ q.phase = "Idle" /\ q.application = "Stopped"
      /\ q.attempts = state.attempts
  BY <1>2, DrainLeaves
<1>4. /\ RingSound(ring) /\ Ring!Occupied(ring) = {active.lease.slot}
      /\ Ring!Owns(ring, active.lease, "Submitted") /\ ring.sequence <= state.attempts
      /\ "Cancelled" \in Ring!Status
  BY <1>2 DEF IInv, HoldsSlot, Ring!Status
<1>5. /\ Ring!CanComplete(ring, active.lease)
      /\ RingSound(r) /\ Ring!Occupied(r) = {} /\ r.sequence = ring.sequence
  BY <1>2, <1>4, LeaseBack
<1> HIDE DEF q, r
<1>6. refused' = refused
  BY <1>1, <1>2, <1>3, <1>5
<1>7. finished' = TRUE /\ link' \in LinkType
      /\ timer' \in [armed : BOOLEAN, updated : BOOLEAN]
  BY <1>1, RetiredTyped DEF FinishNativeClose
<1>8. TypeOK'
  <2>1. /\ pending' \in Frame \union {NoFrame} /\ refused' \in BOOLEAN
        /\ generation' \in Generation
        /\ lifecycle' \in {"LIVE", "CLOSING", "CLOSED"}
        /\ gpu' = "None" /\ glass' = "None"
    BY <1>1, <1>6 DEF IInv, TypeOK, EndOutside
  <2> QED BY <1>1, <1>3, <1>5, <1>7, <2>1 DEF TypeOK, Sound, RingSound, LinkType
<1>9. OwnsAttempt' /\ Closes'
  BY <1>1, <1>3, <1>7 DEF IInv, OwnsAttempt, Closes, IsRunning
<1>10. HoldsSlot'
  BY <1>1, <1>3, <1>4, <1>5 DEF HoldsSlot, AwaitsGpu
<1>11. Waiting' /\ Paces'
  <2>1. state'.link = "Invalid"
    BY <1>1, <1>3, LinkOfRunning DEF IsRunning
  <2>2. pending' = NoFrame
    BY <1>1 DEF IInv, Closes
  <2> QED BY <1>1, <2>1, <2>2 DEF Waiting, Paces
<1> QED BY <1>1, <1>3, <1>6, <1>8, <1>9, <1>10, <1>11 DEF IInv

LEMMA TeardownStep == IInv /\ Teardown => IInv' /\ refused' = refused
<1> SUFFICES ASSUME IInv, Teardown PROVE IInv' /\ refused' = refused
  OBVIOUS
<1>1. /\ finished \/ lifecycle = "LIVE"
      /\ lifecycle # "CLOSED"
      /\ timer' = Cancelled(timer) /\ link' = RetiredLink(link) /\ finished' = finished
      /\ IF CanBeginShutdown(state) THEN ShutdownDriver(state)
         ELSE UNCHANGED <<driver, outside>>
  BY DEF Teardown
<1>2. lifecycle' = "CLOSED"
  BY DEF Teardown
<1>3. FinishedLinkAndTimer /\ finished' \in BOOLEAN
  BY <1>1, RetiredTyped DEF FinishedLinkAndTimer, IInv, TypeOK
<1>4. CASE lifecycle = "LIVE"
  <2>1. /\ Sound(state) /\ IsRunning(state) /\ SameAttempt(state, state) /\ ~finished
    BY <1>4, LiveFacts DEF SameAttempt
  <2>2. ShutdownDriver(state)
    BY <1>1, <2>1 DEF CanBeginShutdown
  <2>3. /\ generation' \in Generation /\ pending' = NoFrame /\ refused' = refused
        /\ active' = IF AwaitsGpu THEN active ELSE NoFrame
        /\ ring' = ring
        /\ gpu' \in {"None", "Running", "Completed", "Failed"}
        /\ glass' \in {"None", "Shown", "Skipped"}
        /\ Sound(state') /\ state'.attempts = state.attempts /\ ~IsRunning(state')
        /\ AwaitsGpu => /\ state'.application = "Stopping"
                        /\ state'.phase = state.phase /\ state'.token = state.token
        /\ ~AwaitsGpu => state'.application = "Stopped" /\ state'.phase = "Idle"
    BY <1>4, <2>1, <2>2, ShutdownLeaves
  <2> QED BY <1>1, <1>2, <1>3, <2>1, <2>3, ShutDown
<1>5. CASE lifecycle # "LIVE"
  <2>1. ~IsRunning(state) /\ finished /\ active = NoFrame /\ pending = NoFrame
    BY <1>1, <1>5 DEF IInv, Closes
  <2>2. UNCHANGED <<driver, outside>>
    BY <1>1, <2>1 DEF CanBeginShutdown
  <2>3. /\ state' = state /\ ring' = ring /\ pending' = pending /\ active' = active
        /\ generation' = generation /\ refused' = refused /\ gpu' = gpu /\ glass' = glass
    BY <2>2 DEF driver, outside
  <2>4. TypeOK'
    BY <1>2, <1>3, <2>3 DEF IInv, TypeOK, FinishedLinkAndTimer, LinkType
  <2>5. OwnsAttempt' /\ HoldsSlot' /\ Closes' /\ Waiting'
    BY <1>2, <2>1, <2>3 DEF IInv, OwnsAttempt, HoldsSlot, AwaitsGpu, RingSound, Closes,
       Waiting, IsRunning
  <2>6. Paces'
    BY <1>2, <2>1, <2>3 DEF IInv, Paces
  <2> QED BY <2>3, <2>4, <2>5, <2>6 DEF IInv
<1> QED BY <1>4, <1>5

---------------------------------------------------------------------------
(* What runs beside the main thread, and the deferred pause. *)
LEMMA BesideKeeps ==
    ASSUME IInv, UNCHANGED <<driver, lifecycle, finished, timer>>,
           gpu' \in {"None", "Running", "Completed", "Failed"},
           glass' \in {"None", "Shown", "Skipped"},
           link' \in LinkType, link'.retired = link.retired,
           lifecycle = "LIVE" => Agrees(state, link')
    PROVE  IInv' /\ refused' = refused
<1>1. /\ state' = state /\ ring' = ring /\ pending' = pending /\ active' = active
      /\ generation' = generation /\ refused' = refused /\ lifecycle' = lifecycle
      /\ finished' = finished /\ timer' = timer
  BY DEF driver
<1>2. TypeOK'
  BY <1>1 DEF IInv, TypeOK, LinkType
<1>3. OwnsAttempt' /\ HoldsSlot' /\ Closes' /\ Waiting'
  BY <1>1 DEF IInv, OwnsAttempt, HoldsSlot, AwaitsGpu, RingSound, Closes, Waiting, IsRunning
<1>4. Paces'
  BY <1>1 DEF IInv, Paces, Agrees, Demanded, IsRunning
<1> QED BY <1>1, <1>2, <1>3, <1>4 DEF IInv

LEMMA BesideStep ==
    /\ IInv
    /\ (LinkQueuesUpdate \/ GpuFinishes \/ GlassReports \/ ConfirmPause \/ UNCHANGED vars)
    => IInv' /\ refused' = refused
<1> SUFFICES ASSUME IInv, LinkQueuesUpdate \/ GpuFinishes \/ GlassReports \/ ConfirmPause
                          \/ UNCHANGED vars
             PROVE  IInv' /\ refused' = refused
  OBVIOUS
<1>1. link \in LinkType /\ (lifecycle = "LIVE" => Agrees(state, link))
  BY DEF IInv, TypeOK, Paces, LinkType
<1>2. /\ gpu \in {"None", "Running", "Completed", "Failed"}
      /\ glass \in {"None", "Shown", "Skipped"}
  BY DEF IInv, TypeOK
<1>3. CASE LinkQueuesUpdate
  <2>1. link' = [link EXCEPT !.queued = TRUE]
    BY <1>3 DEF LinkQueuesUpdate
  <2>2. link' \in LinkType /\ link'.retired = link.retired
        /\ (lifecycle = "LIVE" => Agrees(state, link'))
    BY <1>1, <2>1 DEF LinkType, Agrees, IInv, Paces, TypeOK
  <2> QED BY <1>2, <1>3, <2>2, BesideKeeps DEF LinkQueuesUpdate, outside
<1>4. CASE GpuFinishes
  BY <1>1, <1>2, <1>4, BesideKeeps DEF GpuFinishes, LinkType, IInv, TypeOK, Paces
<1>5. CASE GlassReports
  BY <1>1, <1>2, <1>5, BesideKeeps DEF GlassReports, LinkType, IInv, TypeOK, Paces
<1>6. CASE ConfirmPause
  <2>1. link' = [link EXCEPT !.confirming = FALSE,
                             !.running = link.running /\ state.link # "Paused"]
    BY <1>6 DEF ConfirmPause
  <2>2. link' \in LinkType /\ link'.retired = link.retired
        /\ (lifecycle = "LIVE" => Agrees(state, link'))
    BY <1>1, <2>1 DEF LinkType, Agrees, IInv, Paces, TypeOK
  <2> QED BY <1>2, <1>6, <2>2, BesideKeeps DEF ConfirmPause, outside
<1>7. CASE UNCHANGED vars
  BY <1>1, <1>2, <1>7, BesideKeeps
     DEF vars, driver, outside, LinkType, IInv, TypeOK, Paces
<1> QED BY <1>3, <1>4, <1>5, <1>6, <1>7

(* Every step keeps the invariant, and records a refusal only where the    *)
(* code resumes pacing without asking.                                     *)
LEMMA NextStep ==
    IInv /\ [Next]_vars =>
        /\ IInv'
        /\ refused' # refused => UpdateReplaces /\ ~CanResume(Reconciled)
<1> SUFFICES ASSUME IInv, [Next]_vars
             PROVE  /\ IInv'
                    /\ refused' # refused => UpdateReplaces /\ ~CanResume(Reconciled)
  OBVIOUS
<1>1. CASE RequestFrame
  BY <1>1, RequestFrameStep
<1>2. CASE Synchronize
  BY <1>2, SynchronizeStep
<1>3. CASE RejectConfiguration
  BY <1>3, RejectConfigurationStep
<1>4. CASE Update
  <2>1. CASE UpdateReplaces
    BY <2>1, UpdateReplacesStep
  <2>2. CASE ~UpdateReplaces
    BY <1>4, <2>2, UpdateAwaitsGpuStep, UpdateSeesGpuFailureStep, UpdateReconcilesStep,
       UpdateFindsPausedStep, UpdateSubmitsStep, UpdateRejectedStep DEF Update
  <2> QED BY <2>1, <2>2
<1>5. CASE FrameProgressTick
  BY <1>5, TickAwaitsGpuStep, TickSeesGpuFailureStep, TickPollsStep, SilentTickStep
     DEF FrameProgressTick
<1>6. CASE BeginNativeClose
  BY <1>6, BeginNativeCloseStep
<1>7. CASE DrainTick \/ DrainUpdate
  BY <1>7, DrainShutdownStep DEF DrainTick, DrainUpdate
<1>8. CASE Teardown
  BY <1>8, TeardownStep
<1>9. CASE LinkQueuesUpdate \/ GpuFinishes \/ GlassReports \/ ConfirmPause \/ UNCHANGED vars
  BY <1>9, BesideStep
<1> QED BY <1>1, <1>2, <1>3, <1>4, <1>5, <1>6, <1>7, <1>8, <1>9 DEF Next

---------------------------------------------------------------------------
(* The driver's inductive invariant. *)
THEOREM DriverInvariant == Spec => []IInv
<1>1. IInv /\ [Next]_vars => IInv'
  BY NextStep
<1> QED BY <1>1, InitIInv, PTL DEF Spec

(* Between callbacks an attempt is over or it is committed and owned by    *)
(* the active frame, which holds exactly its slot until its command is     *)
(* terminal and has a timer that ends it; a close finishes only after it.  *)
THEOREM DriverActiveOwnsAttempt == Spec => []ActiveOwnsAttempt
<1>1. IInv => ActiveOwnsAttempt
  <2> SUFFICES ASSUME IInv PROVE ActiveOwnsAttempt
    OBVIOUS
  <2>1. {ring.lease[i] : i \in Ring!Occupied(ring)} =
          IF active # NoFrame /\ ~active.terminal THEN {active.lease} ELSE {}
    BY DEF IInv, HoldsSlot, AwaitsGpu, Ring!Owns
  <2> QED
    BY <2>1 DEF ActiveOwnsAttempt, IInv, HoldsSlot, RingSound, OwnsAttempt, Closes
<1> QED BY <1>1, DriverInvariant, PTL

(* The pending frame is the newest one requested, also when a surface      *)
(* change made the frame in flight pending again.                          *)
THEOREM DriverPendingIsNewest == Spec => []PendingIsNewest
<1>1. IInv => PendingIsNewest
  BY DEF IInv, Waiting, PendingIsNewest
<1> QED BY <1>1, DriverInvariant, PTL

(* The native link does what the state machine believes, up to a pause     *)
(* that will be confirmed, and pacing is on only with a frame to draw.     *)
THEOREM DriverLinkAgrees == Spec => []LinkAgrees
<1>1. IInv => LinkAgrees
  BY DEF IInv, Paces, Agrees, LinkAgrees
<1> QED BY <1>1, DriverInvariant, PTL

(* No callback is ever refused by the state machine or by the ring, except *)
(* where it resumes pacing of a surface that may no longer be drawn.       *)
THEOREM DriverOnlyResumeIsRefused == Spec => OnlyResumeIsRefused
<1>1. IInv /\ [Next]_vars =>
        [refused' # refused => UpdateReplaces /\ ~CanResume(Reconciled)]_vars
  BY NextStep
<1> QED BY <1>1, DriverInvariant, PTL DEF Spec, OnlyResumeIsRefused

(* The driver's state machine never leaves its own invariants, so no       *)
(* callback meets the rollback in `apply'.                                 *)
THEOREM DriverKeepsMachineSound == Spec => []InvariantsHold(state)
<1>1. IInv => InvariantsHold(state)
  BY SoundIsInvariant DEF IInv
<1> QED BY <1>1, DriverInvariant, PTL
===============================================================================
