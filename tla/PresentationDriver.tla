--------------------------- MODULE PresentationDriver ---------------------------
(***************************************************************************)
(* The native owner of one presentation surface                            *)
(* (crates/alpine-platform-macos/src/native.rs): PresentationDriver, which *)
(* composes the portable state machine with the frame-slot ring, and the   *)
(* parts of DisplayLinkDelegate that call it: display-link updates, the    *)
(* frame-progress timer, configuration changes, frame requests, the        *)
(* deferred pause confirmation, and the close.                             *)
(*                                                                         *)
(* Every callback runs on the main thread and is one atomic step here.     *)
(* Asynchronous to it are the GPU (command completion), the window server  *)
(* (the drawable's presented handler) and the display link, which may have *)
(* queued an update before it was paused.                                  *)
(***************************************************************************)
EXTENDS PresentationState

CONSTANTS
    NoFrame,        \* pending, active, or the frame an active attempt keeps, is None
    NoLease,
    MaxPolls        \* MAX_POST_COMMAND_PRESENTATION_POLLS, 2 in the code

Generation == 1..2      \* begin_shutdown advances the owner generation once

Ring == INSTANCE FrameSlotRing
            WITH SlotCount <- 3, MaxSequence <- MaxAttempt,
                 Tokens <- Token, Generations <- Generation

Frame == 1..MaxRevision

ActiveFrame ==
    [token : Token, lease : Ring!Lease, frame : Frame \union {NoFrame},
     terminal : BOOLEAN, polls : 0..MaxPolls]

ASSUME DriverAssumption ==
    /\ NoFrame \notin Frame \union ActiveFrame
    /\ NoLease \notin Ring!Lease
    /\ MaxPolls \in Nat \ {0}

VARIABLES
    state,          \* PresentationState
    ring,           \* frame_slots
    pending,        \* revision of the pending frame, or NoFrame
    active,         \* the committed attempt, or NoFrame
    generation,     \* owner_generation
    refused,        \* a handler the driver relied on returned Err (history)
    gpu,            \* the active command buffer
    glass,          \* the active drawable's PresentationSignal
    lifecycle,      \* SURFACE_LIVE, SURFACE_CLOSING, SURFACE_CLOSED
    finished,       \* native_close_finished
    link,           \* the CAMetalDisplayLink and what it has queued
    timer           \* the frame-progress timer

driver == <<state, ring, pending, active, generation, refused>>
outside == <<gpu, glass>>
vars == <<driver, outside, lifecycle, finished, link, timer>>

TypeOK ==
    /\ state \in StateType
    /\ ring \in Ring!RingType
    /\ pending \in Frame \union {NoFrame}
    /\ active \in ActiveFrame \union {NoFrame}
    /\ generation \in Generation
    /\ refused \in BOOLEAN
    /\ gpu \in {"None", "Running", "Completed", "Failed"}
    /\ glass \in {"None", "Shown", "Skipped"}
    /\ lifecycle \in {"LIVE", "CLOSING", "CLOSED"}
    /\ finished \in BOOLEAN
    /\ link \in [running : BOOLEAN, retired : BOOLEAN,
                 queued : BOOLEAN, confirming : BOOLEAN]
    /\ timer \in [armed : BOOLEAN, updated : BOOLEAN]

Init ==
    /\ state \in {SetSized(NewState, sized) : sized \in BOOLEAN}
    /\ ring = Ring!NewRing
    /\ pending = NoFrame /\ active = NoFrame
    /\ generation = 1 /\ refused = FALSE
    /\ gpu = "None" /\ glass = "None"
    /\ lifecycle = "LIVE" /\ finished = FALSE
    /\ link = [running |-> FALSE, retired |-> FALSE,
               queued |-> FALSE, confirming |-> FALSE]
    /\ timer = [armed |-> FALSE, updated |-> FALSE]

---------------------------------------------------------------------------
(* The native link and the timer. *)

Directed(l, directive) ==
    IF l.retired THEN l
    ELSE CASE directive = "None" -> l
           [] directive = "Resume" -> [l EXCEPT !.running = TRUE]
           [] directive = "Pause" -> [l EXCEPT !.running = FALSE]

(* Mutant: a pause is never confirmed from a later turn. *)
MutantUnconfirmed(l, directive, s) == l

(* confirm_link_pause: repeat a pause from a later run-loop turn. *)
Confirmed(l, directive, s) ==
    IF directive = "Pause" \/ (directive = "None" /\ s.link = "Paused" /\ l.running)
    THEN [l EXCEPT !.confirming = TRUE] ELSE l

RetiredLink(l) == [l EXCEPT !.running = FALSE, !.retired = TRUE, !.queued = FALSE]

Armed(t) == IF t.armed THEN t ELSE [armed |-> TRUE, updated |-> FALSE]
Cancelled(t) == [t EXCEPT !.armed = FALSE]
TimerFor(t, act) == IF act # NoFrame THEN Armed(t) ELSE Cancelled(t)

(* Mutant: a resumed state machine does not resume the native link. *)
MutantLinkNeverResumed(before, after) ==
    IF before.link = "Running" /\ after.link = "Paused" THEN "Pause" ELSE "None"

(* The directive that turns one portable link state into the next. *)
LinkChange(before, after) ==
    CASE before.link = "Paused" /\ after.link = "Running" -> "Resume"
      [] before.link = "Running" /\ after.link = "Paused" -> "Pause"
      [] OTHER -> "None"

(* Directive of a terminal transition (record_terminal returns it). *)
CompletionDirective(before, after) ==
    CASE before.link # after.link -> "Pause"
      [] before.link = after.link /\ NeedsResume(after) -> "Resume"
      [] OTHER -> "None"

(* Mutant: pacing resumes whether or not there is a frame to draw. *)
MutantReconcileWithoutWork(s, pend, act) == IF NeedsResume(s) THEN Resume(s) ELSE s

(* reconcile_link: pacing resumes only while there is a frame to draw. *)
ReconcileLink(s, pend, act) ==
    IF NeedsResume(s) /\ (pend # NoFrame \/ act # NoFrame) THEN Resume(s) ELSE s

---------------------------------------------------------------------------
(* Requests and configuration changes. *)

(* request_frame_with_event, when `wanted'; the newest request replaces    *)
(* the pending frame.                                                      *)
Requested(s, wanted) == IF wanted THEN Invalidate(s) ELSE s
RequestedFrame(s, pend, wanted) == IF wanted THEN s.requested + 1 ELSE pend
CanRequest(s, wanted) == wanted => CanInvalidate(s)

RequestFrame ==
    /\ lifecycle = "LIVE"
    /\ CanInvalidate(state)
    /\ LET frame == RequestedFrame(state, pending, TRUE)
           next == ReconcileLink(Requested(state, TRUE), frame, active)
       IN /\ state' = next
          /\ pending' = frame
          /\ link' = Directed(link, LinkChange(state, next))
    /\ UNCHANGED <<ring, active, generation, refused, outside,
                   lifecycle, finished, timer>>

(* Mutant: the frame in flight replaces a newer pending one. *)
MutantMovesAlways == active # NoFrame /\ active.frame # NoFrame

(* A surface change makes the frame in flight stale: its scene, unless it  *)
(* was moved before, is drawn again if no newer one is pending.            *)
MovesActiveFrame == pending = NoFrame /\ active # NoFrame /\ active.frame # NoFrame

(* try_synchronize_native_configuration: apply the new configuration, then *)
(* dispatch a Resize event, whose handler may request a frame.             *)
Synchronize ==
    \E differs, sized, visible, wanted \in BOOLEAN :
        /\ lifecycle = "LIVE"
        /\ differs => CanAdvanceSurfaceEpoch(state)
        /\ CanRequest(state, wanted)
        /\ LET takes == differs /\ MovesActiveFrame
               kept == IF takes THEN active.frame ELSE pending
               act == IF takes THEN [active EXCEPT !.frame = NoFrame] ELSE active
               moved == IF differs THEN AdvanceSurfaceEpoch(state) ELSE state
               configured ==
                   ReconcileLink(SetVisible(SetSized(moved, sized), visible), kept, act)
               frame == RequestedFrame(configured, kept, wanted)
               next == IF wanted
                       THEN ReconcileLink(Requested(configured, TRUE), frame, act)
                       ELSE configured
           IN /\ state' = next
              /\ pending' = frame
              /\ active' = act
              /\ link' = Directed(Directed(link, LinkChange(state, configured)),
                                  LinkChange(configured, next))
        /\ UNCHANGED <<ring, generation, refused, outside, lifecycle, finished, timer>>

(* reject_configuration: an unusable configuration hides the surface.      *)
RejectConfiguration ==
    /\ lifecycle = "LIVE"
    /\ LET next == SetVisible(SetSized(state, FALSE), FALSE)
       IN /\ state' = next
          /\ link' = Directed(link, LinkChange(state, next))
    /\ UNCHANGED <<ring, pending, active, generation, refused, outside,
                   lifecycle, finished, timer>>

---------------------------------------------------------------------------
(* The active frame, as poll_active_command and                            *)
(* reconcile_active_presentation see it.                                   *)

AwaitsGpu == active # NoFrame /\ ~active.terminal
CommandFailed == AwaitsGpu /\ gpu = "Failed"
CommandDone == active # NoFrame /\ (active.terminal \/ gpu = "Completed")

(* Mutant: the slot of a completed command stays leased. *)
MutantRingKept == ring

(* poll_active_command after a successful command: the slot is released,   *)
(* the frame stays active until its presentation is observed.              *)
PolledRing ==
    IF AwaitsGpu THEN Ring!Complete(ring, active.lease, "Completed") ELSE ring
PolledActive ==
    IF AwaitsGpu THEN [active EXCEPT !.terminal = TRUE, !.polls = 0] ELSE active

GivesUp ==
    glass = "None" /\ (pending # NoFrame \/ PolledActive.polls + 1 >= MaxPolls)
Waits == glass = "None" /\ ~GivesUp

(* What one reconciliation makes of a finished command. *)
Reconciled ==
    CASE glass = "Shown" -> CompletePresentation(state, active.token)
      [] glass = "Skipped" \/ GivesUp -> FailActive(state)
      [] Waits -> state
ReconciledDirective ==
    CASE glass = "Shown" -> CompletionDirective(state, Reconciled)
      [] glass = "Skipped" \/ GivesUp -> LinkChange(state, Reconciled)
      [] Waits -> "None"
ReconciledActive ==
    IF Waits THEN [PolledActive EXCEPT !.polls = @ + 1] ELSE NoFrame

(* A token is always accepted here, and a lease always completes; `refused' *)
(* records it if not.                                                       *)
PollRefused == AwaitsGpu /\ ~Ring!CanComplete(ring, active.lease)
ReconcileRefused ==
    \/ PollRefused
    \/ ~Waits /\ ~CanFailActive(state, active.token)
    \/ glass = "Shown" /\ ~CanCompletePresentation(state, active.token)

EndOutside(act) == IF act = NoFrame THEN gpu' = "None" /\ glass' = "None"
                   ELSE UNCHANGED outside

---------------------------------------------------------------------------
(* metalDisplayLink:needsUpdate: on a live surface.                        *)

(* CoreAnimation may undo a pause that its own callback asked for, which is *)
(* why the driver repeats it from a later turn.                            *)
AfterCallback(l, directive) ==
    IF directive = "Pause" THEN {l, [l EXCEPT !.running = TRUE]} ELSE {l}

LinkUpdate(directive, next) ==
    /\ link.queued
    /\ lifecycle = "LIVE"
    /\ link' \in AfterCallback(Confirmed(
                    Directed([link EXCEPT !.queued = FALSE], directive),
                    directive, next), directive)
    /\ state' = next
    /\ timer' = TimerFor([timer EXCEPT !.updated = TRUE], active')
    /\ EndOutside(active')
    /\ UNCHANGED <<generation, lifecycle, finished>>

(* The command buffer is still executing. *)
UpdateAwaitsGpu ==
    /\ AwaitsGpu /\ gpu = "Running"
    /\ UNCHANGED <<ring, pending, active, refused>>
    /\ LinkUpdate("None", state)

(* The command failed: the frame is dropped, and so is the pending one if  *)
(* the backend has to be recreated.                                        *)
UpdateSeesGpuFailure ==
    \E discards \in BOOLEAN :
        /\ CommandFailed
        /\ ring' = Ring!Complete(ring, active.lease, "Failed")
        /\ pending' = IF discards THEN NoFrame ELSE pending
        /\ active' = NoFrame
        /\ refused' = (refused \/ PollRefused \/ ~CanFailActive(state, active.token))
        /\ LinkUpdate(LinkChange(state, FailActive(state)), FailActive(state))

(* The command completed: the frame was shown, or it still waits.          *)
UpdateReconciles ==
    /\ CommandDone
    /\ glass = "Shown" \/ Waits \/ pending = NoFrame
    /\ ring' = PolledRing
    /\ active' = ReconciledActive
    /\ refused' = (refused \/ ReconcileRefused)
    /\ UNCHANGED pending
    /\ LinkUpdate(ReconciledDirective, Reconciled)

(* The frame was not shown and a newer one is pending: pacing resumes at   *)
(* once, without a directive because the callback presumes a running link. *)
(* If it may not resume, fail_after_error records the error and pauses.    *)
UpdateReplaces ==
    /\ CommandDone
    /\ glass = "Skipped" \/ GivesUp
    /\ pending # NoFrame
    /\ ring' = PolledRing
    /\ active' = NoFrame
    /\ refused' = (refused \/ ReconcileRefused \/ ~CanResume(Reconciled))
    /\ UNCHANGED pending
    /\ IF CanResume(Reconciled) THEN LinkUpdate("None", Resume(Reconciled))
       ELSE LinkUpdate("Pause", Reconciled)

(* An update queued before the link was paused finds nothing to do. *)
UpdateFindsPaused ==
    /\ active = NoFrame
    /\ state.link # "Running"
    /\ UNCHANGED <<ring, pending, active, refused>>
    /\ LinkUpdate("None", state)

(* submit_pending up to BeginUpdate: the token, and what could refuse it.  *)
Begun == BeginUpdate(Prepare(state))
NewToken == Prepare(state).token
CanSubmitPending == active = NoFrame /\ state.link = "Running" /\ state.attempts < MaxAttempt
SubmitRefused ==
    \/ pending = NoFrame
    \/ ~CanPrepare(state)
    \/ ~CanBeginUpdate(Prepare(state), NewToken)
    \/ ~Ring!CanAcquire(ring, NewToken)
    \/ Ring!IsSaturated(ring)

UpdateSubmits ==
    /\ CanSubmitPending
    /\ LET lease == Ring!NextLease(ring, NewToken, generation)
       IN /\ ring' = Ring!MarkSubmitted(Ring!Acquire(ring, NewToken, generation), lease)
          /\ active' = [token |-> NewToken, lease |-> lease, frame |-> pending,
                        terminal |-> FALSE, polls |-> 0]
    /\ pending' = NoFrame
    /\ refused' = (refused \/ SubmitRefused \/ ~CanSubmit(Begun, NewToken))
    /\ link.queued /\ lifecycle = "LIVE"
    /\ state' = CallPresent(Submit(Begun))
    /\ link' = [link EXCEPT !.queued = FALSE]
    /\ timer' = Armed([timer EXCEPT !.updated = TRUE])
    /\ gpu' = "Running" /\ glass' = "None"
    /\ UNCHANGED <<generation, lifecycle, finished>>

(* The descriptor is invalid, or the backend rejects the frame before      *)
(* committing anything; the frame is dropped.                              *)
UpdateRejected ==
    \E leased \in BOOLEAN :
        /\ CanSubmitPending
        /\ ring' = IF leased
                   THEN Ring!CancelEncoding(Ring!Acquire(ring, NewToken, generation),
                                            Ring!NextLease(ring, NewToken, generation))
                   ELSE ring
        /\ pending' = NoFrame
        /\ UNCHANGED active
        /\ refused' = (refused \/ SubmitRefused)
        /\ LinkUpdate("Pause", FailActive(Begun))

Update ==
    \/ UpdateAwaitsGpu
    \/ UpdateSeesGpuFailure
    \/ UpdateReconciles
    \/ UpdateReplaces
    \/ UpdateFindsPaused
    \/ UpdateSubmits
    \/ UpdateRejected

---------------------------------------------------------------------------
(* frame_progress_tick on a live surface (progress_without_display_link).  *)

(* A frame still waiting for a drawable gets its link back. *)
Tick(ended, pend, act) ==
    LET next == IF act = NoFrame /\ pend # NoFrame /\ NeedsResume(ended)
                THEN Resume(ended) ELSE ended
        directive == LinkChange(state, next)
    IN /\ timer.armed
       /\ lifecycle = "LIVE"
       /\ state' = next
       /\ link' = Confirmed(Directed(link, directive), directive, next)
       /\ timer' = [armed |-> act # NoFrame, updated |-> FALSE]
       /\ EndOutside(act)
       /\ UNCHANGED <<generation, lifecycle, finished>>

TickAwaitsGpu ==
    /\ AwaitsGpu /\ gpu = "Running"
    /\ UNCHANGED <<ring, pending, active, refused>>
    /\ Tick(state, pending, active)

TickSeesGpuFailure ==
    \E discards \in BOOLEAN :
        /\ CommandFailed
        /\ ring' = Ring!Complete(ring, active.lease, "Failed")
        /\ pending' = IF discards THEN NoFrame ELSE pending
        /\ active' = NoFrame
        /\ refused' = (refused \/ PollRefused \/ ~CanFailActive(state, active.token))
        /\ Tick(FailActive(state), pending', NoFrame)

(* The link updated since the last tick, so the tick only polls. *)
TickPolls ==
    /\ CommandDone
    /\ ring' = PolledRing
    /\ active' = PolledActive
    /\ refused' = (refused \/ PollRefused)
    /\ UNCHANGED pending
    /\ Tick(state, pending, PolledActive)

(* Mutant: a silent tick only polls the command. *)
MutantSilentTickPolls == ~timer.updated /\ TickPolls

(* The link is silent: the tick stands in for it. *)
SilentTick ==
    /\ ~timer.updated
    /\ CommandDone
    /\ ring' = PolledRing
    /\ active' = ReconciledActive
    /\ refused' = (refused \/ ReconcileRefused)
    /\ UNCHANGED pending
    /\ Tick(Reconciled, pending, ReconciledActive)

FrameProgressTick ==
    TickAwaitsGpu \/ TickSeesGpuFailure \/ TickPolls \/ SilentTick

---------------------------------------------------------------------------
(* The close: admission is revoked, a committed frame drains, and only     *)
(* then does the event loop stop.                                          *)

FinishNativeClose ==
    /\ finished' = TRUE
    /\ timer' = Cancelled(timer)
    /\ link' = RetiredLink(link)

(* PresentationDriver::begin_shutdown from a running surface. *)
ShutdownDriver(s) ==
    LET ends == active # NoFrame /\ active.terminal
        begun == BeginShutdown(s)
    IN /\ generation' = 2
       /\ pending' = NoFrame
       /\ active' = IF ends THEN NoFrame ELSE active
       /\ state' = IF ends THEN StopAfterDrain(CancelActive(begun)) ELSE begun
       /\ refused' = (refused \/ (ends /\ ~CanCancelActive(begun, active.token)))
       /\ UNCHANGED ring
       /\ EndOutside(active')

(* begin_native_close; losing the input focus dispatches an event that may *)
(* request one more frame, which the shutdown then cancels.                *)
BeginNativeClose ==
    \E wanted \in BOOLEAN :
        /\ lifecycle = "LIVE"
        /\ CanRequest(state, wanted)
        /\ lifecycle' = "CLOSING"
        /\ ShutdownDriver(Requested(state, wanted))
        /\ IF state'.application = "Stopping"
           THEN LET last == ReconcileLink(Requested(state, wanted), pending, active)
                IN /\ timer' = Armed(timer)
                   /\ link' = Directed(link, LinkChange(state, last))
                   /\ UNCHANGED finished
           ELSE FinishNativeClose

(* drain_shutdown, from the display link or from the timer. *)
DrainShutdown ==
    /\ lifecycle = "CLOSING" /\ ~finished
    /\ active # NoFrame /\ gpu \in {"Completed", "Failed"}
    /\ ring' = Ring!Complete(ring, active.lease, "Cancelled")
    /\ active' = NoFrame
    /\ refused' = (\/ refused
                   \/ ~Ring!CanComplete(ring, active.lease)
                   \/ ~CanCancelActive(state, active.token))
    /\ state' = StopAfterDrain(CancelActive(state))
    /\ EndOutside(NoFrame)
    /\ FinishNativeClose
    /\ UNCHANGED <<pending, generation, lifecycle>>

DrainTick == timer.armed /\ DrainShutdown
DrainUpdate == link.queued /\ DrainShutdown

(* NativeSurface::drop, after the event loop has returned, or early when   *)
(* it could not run.                                                       *)
Teardown ==
    /\ finished \/ lifecycle = "LIVE"
    /\ lifecycle # "CLOSED"
    /\ lifecycle' = "CLOSED"
    /\ IF CanBeginShutdown(state) THEN ShutdownDriver(state)
       ELSE UNCHANGED <<driver, outside>>
    /\ timer' = Cancelled(timer)
    /\ link' = RetiredLink(link)
    /\ UNCHANGED finished

---------------------------------------------------------------------------
(* What runs beside the main thread, and the deferred pause.               *)

LinkQueuesUpdate ==
    /\ link.running /\ ~link.queued
    /\ link' = [link EXCEPT !.queued = TRUE]
    /\ UNCHANGED <<driver, outside, lifecycle, finished, timer>>

GpuFinishes ==
    /\ gpu = "Running"
    /\ gpu' \in {"Completed", "Failed"}
    /\ UNCHANGED <<driver, glass, lifecycle, finished, link, timer>>

GlassReports ==
    /\ active # NoFrame /\ glass = "None"
    /\ glass' \in {"Shown", "Skipped"}
    /\ UNCHANGED <<driver, gpu, lifecycle, finished, link, timer>>

ConfirmPause ==
    /\ link.confirming
    /\ link' = [link EXCEPT !.confirming = FALSE,
                            !.running = @ /\ state.link # "Paused"]
    /\ UNCHANGED <<driver, outside, lifecycle, finished, timer>>

Next ==
    \/ RequestFrame
    \/ Synchronize
    \/ RejectConfiguration
    \/ Update
    \/ FrameProgressTick
    \/ BeginNativeClose
    \/ DrainTick
    \/ DrainUpdate
    \/ Teardown
    \/ LinkQueuesUpdate
    \/ GpuFinishes
    \/ GlassReports
    \/ ConfirmPause

Spec == Init /\ [][Next]_vars

(* The GPU finishes every committed command.  The timer fires while it is  *)
(* armed, and a tick with no update since the last one counts the link as  *)
(* silent.  A link that was resumed delivers updates.                      *)
Fairness ==
    /\ WF_vars(GpuFinishes)
    /\ WF_vars(FrameProgressTick)
    /\ WF_vars(SilentTick)
    /\ WF_vars(DrainTick)
    /\ WF_vars(LinkQueuesUpdate)
    /\ WF_vars(Update)

FairSpec == Spec /\ Fairness

---------------------------------------------------------------------------
(* Between callbacks an attempt is either over or committed and owned: the *)
(* active frame carries the token of the presented-but-unended attempt,    *)
(* exactly one slot, the one its lease names, is held for it until the     *)
(* command is terminal, a timer is there to end it, and closing stops the  *)
(* event loop only after it.                                               *)
ActiveOwnsAttempt ==
    /\ TypeOK
    /\ Ring!RingInvariant(ring)
    /\ state.phase = IF active = NoFrame THEN "Idle" ELSE "PresentCalled"
    /\ active # NoFrame => active.token = state.token
    /\ {ring.lease[i] : i \in Ring!Occupied(ring)} =
          IF active # NoFrame /\ ~active.terminal THEN {active.lease} ELSE {}
    /\ active # NoFrame /\ lifecycle # "CLOSED" => timer.armed
    /\ finished => active = NoFrame

(* The frame waiting to be drawn is always the newest one requested, also  *)
(* when a surface change made the frame in flight pending again.           *)
PendingIsNewest == pending # NoFrame => pending = state.requested

(* The display link does what the state machine believes: it runs whenever *)
(* pacing was resumed, and while it runs although pacing is paused a       *)
(* confirmation of that pause is on its way.  And it is resumed only with  *)
(* a frame to draw: an update never prepares an attempt it has no scene    *)
(* for, which would strand the state machine in Prepared, where no failure *)
(* can end it.                                                             *)
LinkAgrees ==
    /\ lifecycle = "LIVE" =>
        /\ state.link = "Running" => link.running
        /\ state.link = "Paused" /\ link.running => link.confirming
    /\ state.link = "Running" /\ active = NoFrame => pending # NoFrame

(* The driver propagates the error of every transition it applies, and none *)
(* of them ever fails, with one exception: native.rs:1465 resumes pacing in *)
(* a callback without asking whether the surface may still be drawn.       *)
OnlyResumeIsRefused ==
    [][refused' # refused => UpdateReplaces /\ ~CanResume(Reconciled)]_vars

(* Every committed frame ends even if the display falls silent, and every  *)
(* close finishes.                                                         *)
FramesEnd ==
    /\ (active # NoFrame) ~> (active = NoFrame \/ lifecycle = "CLOSED")
    /\ (lifecycle = "CLOSING") ~> finished

(* While pacing runs, the pending frame is eventually taken.               *)
PendingIsDrawn ==
    (pending # NoFrame) ~>
        (pending = NoFrame \/ state.link # "Running" \/ state.attempts = MaxAttempt)
===============================================================================
