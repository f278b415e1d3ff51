---------------------------- MODULE LanguageProcess ----------------------------
(* A language server's process and the thread that supervises it               *)
(* (apps/alpine-editor/src/lsp_process.rs), with the part of its client that   *)
(* shares their channels (lsp_client.rs, rust_diagnostics.rs): the editor's    *)
(* main thread sends, restarts, stops and takes events, the supervisor spawns, *)
(* feeds, watches, kills and reaps the child, and announces events with a      *)
(* counter and a wake beside the channel.                                      *)
(*                                                                             *)
(* Payloads are left out, and so are their budgets, helper threads that panic  *)
(* and a wait that fails because another reaped the child.  A process identity *)
(* rises with its epoch, so the epoch stands for both.                         *)
EXTENDS Integers, Sequences

CONSTANTS ControlCapacity, EventCapacity, TerminalReserve, InputCapacity,
          OutputCapacity, WriteCapacity,
          MaxPolls,      \* MAX_POLLS_PER_TURN
          MaxEpoch,      \* restarts of a session, and one
          MaxInputs,     \* bound: messages sent
          MaxOutputs     \* bound: packets the server prints

ASSUME LanguageProcessAssumption ==
    /\ {ControlCapacity, InputCapacity, OutputCapacity, WriteCapacity, MaxPolls, MaxEpoch} \subseteq Nat \ {0}
    /\ TerminalReserve \in 0 .. EventCapacity /\ {EventCapacity, MaxInputs, MaxOutputs} \subseteq Nat

\* TERMINAL_EVENT_RESERVE is two: the end of a child and of the child before it.
ASSUME ReserveAssumption == TerminalReserve >= 2

VARIABLES
    client,     \* the main thread's handle and its turn
    controls,   \* sync_channel<Control>
    events,     \* sync_channel<ProcessEvent>
    queued,     \* Counters.queued_events
    latch,      \* LanguageWakeLatch, set for this session
    pid,        \* Counters.process_id: the epoch of the child it names, or 0
    sup,        \* the supervisor: where it is, and what it is about to emit
    child,      \* Running, or NoChild
    reaped,     \* epochs whose child has been waited for
    misfired,   \* history: a group was signalled after its leader was reaped
    silent,     \* history: epochs whose start was refused or dropped
    sent, printed   \* bounds
vars == <<client, controls, events, queued, latch, pid, sup, child, reaped, misfired,
          silent, sent, printed>>

NoChild == [epoch |-> 0]
Running == child # NoChild
NoEmission == [phase |-> "none"]

\* spawn_process: the pipes are open and three helper threads serve them.
Spawned(e) == [epoch |-> e, leader |-> "alive", inbox |-> 0, open |-> TRUE, writer |-> TRUE,
               writes |-> 0, output |-> 0, reader |-> TRUE, overflowed |-> FALSE]

Init ==
    /\ client = [epoch |-> 1, open |-> TRUE, told |-> "starting", turn |-> "idle", left |-> 0,
                 hand |-> <<>>]
    /\ controls = <<>> /\ events = <<>> /\ queued = 0 /\ latch = FALSE /\ pid = 0
    /\ sup = [at |-> "start", epoch |-> 1, emission |-> NoEmission, accepted |-> TRUE,
              reason |-> "none"]
    /\ child = NoChild /\ reaped = {} /\ misfired = FALSE /\ silent = {}
    /\ sent = 0 /\ printed = 0

Ended == sup.at = "done"

(***************************************************************************)
(* The main thread                                                         *)
(***************************************************************************)

ClientStep == UNCHANGED <<pid, sup, child, reaped, misfired, printed>>

\* A turn's handlers run between two events or outside of a poll.
Free == client.open /\ client.turn # "count"

\* send, of a client whose server has started; a full channel changes nothing.
Send ==
    /\ Free /\ client.told = "started" /\ sent < MaxInputs
    /\ ~Ended /\ Len(controls) < ControlCapacity
    /\ controls' = Append(controls, [kind |-> "input", epoch |-> client.epoch])
    /\ sent' = sent + 1
    /\ ClientStep /\ UNCHANGED <<client, events, queued, latch, silent>>

\* restart: the epoch rises before the supervisor hears of it.  A session
\* restarts a server that has started or ended, never one that is starting.
Restart ==
    /\ Free /\ client.told \in {"started", "ended"} /\ client.epoch < MaxEpoch
    /\ ~Ended /\ Len(controls) < ControlCapacity
    /\ controls' = Append(controls, [kind |-> "restart", epoch |-> client.epoch + 1])
    /\ client' = [client EXCEPT !.epoch = @ + 1, !.told = "starting"]
    /\ ClientStep /\ UNCHANGED <<events, queued, latch, silent, sent>>

\* begin_stop, and the handle dropped with its end of every channel.
Stop ==
    /\ Free
    /\ client' = [client EXCEPT !.open = FALSE, !.turn = "idle"]
    /\ queued' = queued - Len(events) /\ events' = <<>>
    /\ ClientStep /\ UNCHANGED <<controls, latch, silent, sent>>

\* poll_latched_language_wake, at the end of any turn: take, then poll.
TakeWake ==
    /\ client.turn = "idle" /\ latch
    /\ latch' = FALSE
    /\ client' = IF client.open THEN [client EXCEPT !.turn = "poll", !.left = MaxPolls] ELSE client
    /\ ClientStep /\ UNCHANGED <<controls, events, queued, silent, sent>>

\* try_event receives first, and counts after.
Receive ==
    /\ client.turn = "poll" /\ client.left > 0 /\ events # <<>>
    /\ client' = [client EXCEPT !.turn = "count", !.hand = <<Head(events)>>]
    /\ events' = Tail(events)
    /\ ClientStep /\ UNCHANGED <<controls, queued, latch, silent, sent>>

\* Mutant: events of the child before a restart are taken for the new one's.
MutantStale(event) == FALSE

Stale(event) == event.epoch # client.epoch

\* What LspClient::poll and apply_poll make of an event.
Delivered(event) ==
    CASE event.kind = "started" -> [client EXCEPT !.told = "started", !.turn = "poll", !.left = @ - 1]
      [] event.kind = "ended" -> [client EXCEPT !.told = "ended", !.turn = "end"]
      [] OTHER -> [client EXCEPT !.turn = "poll", !.left = @ - 1]

Count ==
    /\ client.turn = "count"
    /\ queued' = queued - 1
    /\ LET event == client.hand[1]
       IN client' = [IF Stale(event) THEN [client EXCEPT !.turn = "poll"] ELSE Delivered(event)
                        EXCEPT !.hand = <<>>]
    /\ ClientStep /\ UNCHANGED <<controls, events, latch, silent, sent>>

\* Idle, the turn's share used up, or SupervisorStopped.
NoMore ==
    /\ client.turn = "poll" /\ (client.left = 0 \/ events = <<>>)
    /\ client' = [client EXCEPT !.turn = "end",
                                !.told = IF client.left > 0 /\ Ended THEN "gone" ELSE @]
    /\ ClientStep /\ UNCHANGED <<controls, events, queued, latch, silent, sent>>

\* Mutant: a turn leaves what is still queued to the next wake.
MutantEndTurn ==
    /\ client.turn = "end"
    /\ client' = [client EXCEPT !.turn = "idle"]
    /\ ClientStep /\ UNCHANGED <<controls, events, queued, latch, silent, sent>>

\* continuation_for_queued_events
EndTurn ==
    /\ client.turn = "end"
    /\ client' = [client EXCEPT !.turn = "idle"] /\ latch' = (latch \/ queued # 0)
    /\ ClientStep /\ UNCHANGED <<controls, events, queued, silent, sent>>

(***************************************************************************)
(* Emitting                                                                *)
(***************************************************************************)

SupStep == UNCHANGED <<client, sent, printed>>

Emission(kind, e, terminal) ==
    [phase |-> "count", event |-> [kind |-> kind, epoch |-> e], terminal |-> terminal, n |-> 0]

Silent == sup.emission = NoEmission

\* emit refuses what would use up the reserve; otherwise the event is counted
\* before it is sent.
CountEvent ==
    /\ sup.emission.phase = "count"
    /\ IF ~sup.emission.terminal /\ queued >= EventCapacity - TerminalReserve
       THEN /\ sup' = [sup EXCEPT !.emission = NoEmission, !.accepted = FALSE]
            /\ UNCHANGED queued
       ELSE /\ sup' = [sup EXCEPT !.emission.phase = "send", !.emission.n = queued + 1]
            /\ queued' = queued + 1
    /\ SupStep /\ UNCHANGED <<controls, events, latch, pid, child, reaped, misfired, silent>>

SendEvent ==
    /\ sup.emission.phase = "send"
    /\ IF client.open /\ Len(events) < EventCapacity
       THEN /\ events' = Append(events, sup.emission.event)
            /\ sup' = [sup EXCEPT !.emission.phase = "wake", !.accepted = TRUE]
            /\ UNCHANGED queued
       ELSE /\ queued' = queued - 1
            /\ sup' = [sup EXCEPT !.emission = NoEmission, !.accepted = FALSE]
            /\ UNCHANGED events
    /\ SupStep /\ UNCHANGED <<controls, latch, pid, child, reaped, misfired, silent>>

\* Mutant: a terminal event wakes nobody.
MutantWakeClient ==
    /\ sup.emission.phase = "wake"
    /\ latch' = (latch \/ (sup.emission.n = 1 /\ ~sup.emission.terminal))
    /\ sup' = [sup EXCEPT !.emission = NoEmission]
    /\ SupStep /\ UNCHANGED <<controls, events, queued, pid, child, reaped, misfired, silent>>

WakeClient ==
    /\ sup.emission.phase = "wake"
    /\ latch' = (latch \/ sup.emission.n = 1)
    /\ sup' = [sup EXCEPT !.emission = NoEmission]
    /\ SupStep /\ UNCHANGED <<controls, events, queued, pid, child, reaped, misfired, silent>>

(***************************************************************************)
(* The supervisor                                                          *)
(***************************************************************************)

At(place) == sup.at = place /\ Silent
Quiet == SupStep /\ UNCHANGED <<events, queued, latch>>

\* start_running: the child's number is published before it is announced.
Start ==
    /\ At("start")
    /\ \/ /\ child' = Spawned(sup.epoch) /\ pid' = sup.epoch
          /\ sup' = [sup EXCEPT !.at = "started", !.emission = Emission("started", sup.epoch, FALSE)]
       \/ /\ sup' = [sup EXCEPT !.at = "inspect", !.emission = Emission("ended", sup.epoch, TRUE)]
          /\ UNCHANGED <<child, pid>>
    /\ Quiet /\ UNCHANGED <<controls, reaped, misfired, silent>>

\* A child that cannot be announced is stopped without a word.
Started ==
    /\ At("started")
    /\ sup' = [sup EXCEPT !.at = IF sup.accepted THEN "inspect" ELSE "unpublish",
                          !.reason = IF sup.accepted THEN @ ELSE "unannounced"]
    /\ silent' = IF sup.accepted THEN silent ELSE silent \union {sup.epoch}
    /\ Quiet /\ UNCHANGED <<controls, pid, child, reaped, misfired>>

StopRequested == ~client.open

\* handle_input_control and admit_input
TakeInput ==
    /\ At("loop") /\ ~StopRequested /\ controls # <<>> /\ Head(controls).kind = "input"
    /\ controls' = Tail(controls)
    /\ LET e == Head(controls).epoch
       IN IF Running /\ child.epoch = e /\ child.open /\ child.writer /\ child.inbox < InputCapacity
          THEN /\ child' = [child EXCEPT !.inbox = @ + 1] /\ sup' = [sup EXCEPT !.at = "inspect"]
          ELSE /\ sup' = [sup EXCEPT !.at = "inspect", !.emission = Emission("input", e, FALSE)]
               /\ UNCHANGED child
    /\ Quiet /\ UNCHANGED <<pid, reaped, misfired, silent>>

\* supervise, of a restart: the old child is stopped before the new one starts.
TakeRestart ==
    /\ At("loop") /\ ~StopRequested /\ controls # <<>> /\ Head(controls).kind = "restart"
    /\ controls' = Tail(controls)
    /\ sup' = [sup EXCEPT !.epoch = Head(controls).epoch,
                          !.at = IF Running THEN "unpublish" ELSE "start",
                          !.reason = IF Running THEN "restart" ELSE @]
    /\ Quiet /\ UNCHANGED <<pid, child, reaped, misfired, silent>>

\* recv_timeout
NoControl ==
    /\ At("loop") /\ ~StopRequested /\ controls = <<>>
    /\ Running   \* without a child the supervisor only waits on
    /\ sup' = [sup EXCEPT !.at = "inspect"]
    /\ Quiet /\ UNCHANGED <<controls, pid, child, reaped, misfired, silent>>

Inspect ==
    /\ At("inspect")
    /\ IF Running
       THEN /\ sup' = [sup EXCEPT !.at = "outputs", !.accepted = TRUE,
                                  !.reason = IF child.overflowed THEN "output overflow" ELSE "none"]
            /\ child' = [child EXCEPT !.overflowed = FALSE]
       ELSE sup' = [sup EXCEPT !.at = "loop"] /\ UNCHANGED child
    /\ Quiet /\ UNCHANGED <<controls, pid, reaped, misfired, silent>>

\* forward_outputs and forward_writes: until none is left or one is refused.
Forward(place, from, kind, next) ==
    /\ At(place)
    /\ IF sup.accepted /\ child[from] > 0
       THEN /\ child' = [child EXCEPT ![from] = @ - 1]
            /\ sup' = [sup EXCEPT !.emission = Emission(kind, child.epoch, FALSE)]
       ELSE /\ sup' = [sup EXCEPT !.at = next, !.accepted = TRUE,
                                  !.reason = IF sup.accepted THEN @ ELSE "event overflow"]
            /\ UNCHANGED child
    /\ Quiet /\ UNCHANGED <<controls, pid, reaped, misfired, silent>>

ForwardOutputs == Forward("outputs", "output", "output", "writes")
ForwardWrites == Forward("writes", "writes", "input", "wait")

\* try_wait: it reaps a child that has exited.
TryWait ==
    /\ At("wait")
    /\ IF child.leader = "exited"
       THEN sup' = [sup EXCEPT !.at = "exited"] /\ reaped' = reaped \union {child.epoch}
       ELSE sup' = [sup EXCEPT !.at = "decide"] /\ UNCHANGED reaped
    /\ Quiet /\ UNCHANGED <<controls, pid, child, misfired, silent>>

\* Mutant: a reaped child is still taken for running, and stopped as one.
MutantExited ==
    /\ At("exited")
    /\ pid' = 0 /\ UNCHANGED child
    /\ sup' = [sup EXCEPT !.at = "decide", !.emission = Emission("ended", child.epoch, TRUE)]
    /\ Quiet /\ UNCHANGED <<controls, reaped, misfired, silent>>

\* handle_wait and finish_exited, once the child is reaped.
Exited ==
    /\ At("exited")
    /\ pid' = 0 /\ child' = NoChild
    /\ sup' = [sup EXCEPT !.at = "decide", !.emission = Emission("ended", child.epoch, TRUE)]
    /\ Quiet /\ UNCHANGED <<controls, reaped, misfired, silent>>

Decide ==
    /\ At("decide")
    /\ sup' = [sup EXCEPT !.at = IF sup.reason = "none" THEN "loop"
                                 ELSE IF Running THEN "unpublish" ELSE "finish"]
    /\ Quiet /\ UNCHANGED <<controls, pid, child, reaped, misfired, silent>>

\* shutdown_requested, or the control channel closed
Close ==
    /\ At("loop") /\ StopRequested
    /\ sup' = [sup EXCEPT !.at = IF Running THEN "unpublish" ELSE "finish",
                          !.reason = IF Running THEN "shutdown" ELSE @]
    /\ Quiet /\ UNCHANGED <<controls, pid, child, reaped, misfired, silent>>

\* force_stop and shut_down: the number is withdrawn first.
Unpublish ==
    /\ At("unpublish")
    /\ pid' = 0 /\ child' = [child EXCEPT !.open = FALSE]
    /\ sup' = [sup EXCEPT !.at = "kill"]
    /\ Quiet /\ UNCHANGED <<controls, reaped, misfired, silent>>

\* stop_group: signals, kills and waits, and what its caller does next.
StopGroup ==
    /\ At("kill")
    /\ misfired' = (misfired \/ child.epoch \in reaped)
    /\ reaped' = reaped \union {child.epoch}
    /\ child' = NoChild
    /\ sup' = CASE sup.reason = "unannounced" -> [sup EXCEPT !.at = "inspect", !.reason = "none"]
                [] sup.reason = "shutdown" -> [sup EXCEPT !.at = "finish"]
                [] sup.reason = "restart" ->
                     [sup EXCEPT !.at = "start", !.reason = "none",
                                 !.emission = Emission("restarted", child.epoch, TRUE)]
                [] OTHER ->
                     [sup EXCEPT !.at = "finish", !.emission = Emission("ended", child.epoch, TRUE)]
    /\ Quiet /\ UNCHANGED <<controls, pid, silent>>

\* supervise returns: what is still in its channel is dropped with it.
Finish ==
    /\ At("finish")
    /\ sup' = [sup EXCEPT !.at = "done", !.reason = "none"]
    /\ controls' = <<>>
    /\ silent' = silent \union {controls[n].epoch : n \in {n \in DOMAIN controls : controls[n].kind = "restart"}}
    /\ Quiet /\ UNCHANGED <<pid, child, reaped, misfired>>

(***************************************************************************)
(* The server and the threads on its pipes                                 *)
(***************************************************************************)

ChildStep == UNCHANGED <<client, controls, events, queued, latch, pid, sup, reaped, misfired, silent, sent>>

\* writer: it gives up when a write fails or its result has no room.
Write ==
    /\ Running /\ child.writer /\ child.inbox > 0
    /\ LET room == child.writes < WriteCapacity
       IN child' = [child EXCEPT !.inbox = @ - 1, !.writes = IF room THEN @ + 1 ELSE @,
                                 !.writer = room /\ child.leader = "alive"]
    /\ ChildStep /\ UNCHANGED printed

\* reader, of what the server prints
Read ==
    /\ Running /\ child.reader /\ child.leader = "alive" /\ printed < MaxOutputs
    /\ printed' = printed + 1
    /\ child' = IF child.output < OutputCapacity THEN [child EXCEPT !.output = @ + 1]
                ELSE [child EXCEPT !.overflowed = TRUE, !.reader = FALSE]
    /\ ChildStep

\* The server exits by itself, whenever it likes.
Exit ==
    /\ Running /\ child.leader = "alive"
    /\ child' = [child EXCEPT !.leader = "exited"]
    /\ ChildStep /\ UNCHANGED printed

Emit == CountEvent \/ SendEvent \/ WakeClient

Supervise ==
    \/ Emit \/ Start \/ Started \/ TakeInput \/ TakeRestart \/ NoControl \/ Inspect
    \/ ForwardOutputs \/ ForwardWrites \/ TryWait \/ Exited \/ Decide \/ Close
    \/ Unpublish \/ StopGroup \/ Finish

Turn == TakeWake \/ Receive \/ Count \/ NoMore \/ EndTurn

Next == Send \/ Restart \/ Stop \/ Turn \/ Supervise \/ Write \/ Read \/ Exit

Spec == Init /\ [][Next]_vars

\* The supervisor's loop times out every two milliseconds, a latched wake
\* brings the main thread's turn, and a turn once begun ends.
Fairness == WF_vars(Supervise) /\ WF_vars(Turn)

FairSpec == Spec /\ Fairness

(***************************************************************************)
(* Properties                                                              *)
(***************************************************************************)

Events == [kind : {"started", "output", "input", "restarted", "ended"}, epoch : 1 .. MaxEpoch]

TypeOK ==
    /\ client.told \in {"starting", "started", "ended", "gone"} /\ client.epoch \in 1 .. MaxEpoch
    /\ client.turn \in {"idle", "poll", "count", "end"} /\ client.left \in 0 .. MaxPolls
    /\ Len(controls) <= ControlCapacity
    /\ events \in Seq(Events) /\ Len(events) <= EventCapacity
    /\ queued \in 0 .. EventCapacity + 2 /\ latch \in BOOLEAN
    /\ child.epoch \in 0 .. MaxEpoch /\ pid \in 0 .. MaxEpoch

\* "Unpublishes the PID before any signal or reap, after which the OS may reuse
\* it" and "Signal the group only while its leader is unreaped": a number is
\* shown of the running child only, except between the wait that finds it gone
\* and the step after it, and no group is signalled once its leader is reaped,
\* whatever made the supervisor stop and in whichever order.
ChildIsOurs ==
    /\ TypeOK
    /\ pid # 0 => pid = child.epoch /\ (pid \notin reaped \/ sup.at = "exited")
    /\ ~misfired
    /\ Running /\ child.epoch \in reaped => sup.at = "exited"

\* No event waits unannounced.  The counter beside the channel may run ahead of
\* it and behind it, and only the event counted as first wakes the main thread;
\* still, what is queued has been announced, is about to be, or will be found
\* by the turn that is under way.
EventsAreAnnounced ==
    client.open /\ events # <<>> =>
        \/ latch \/ client.turn # "idle"
        \/ sup.emission.phase = "wake" /\ sup.emission.n = 1

Queued(kind, e) == \E n \in DOMAIN events : events[n].kind = kind /\ events[n].epoch = e

\* The event is queued, about to be, or in the main thread's hand.
OnItsWay(kind, e) ==
    \/ Queued(kind, e)
    \/ ~Silent /\ sup.emission.phase \in {"count", "send"} /\ sup.emission.event = [kind |-> kind, epoch |-> e]
    \/ client.hand # <<>> /\ client.hand[1] = [kind |-> kind, epoch |-> e]

\* The supervisor has yet to start this epoch.
ToBeStarted(e) ==
    \/ sup.at \in {"start", "started"} /\ sup.epoch = e
    \/ sup.reason = "restart" /\ sup.epoch = e
    \/ \E n \in DOMAIN controls : controls[n] = [kind |-> "restart", epoch |-> e]

\* The client's picture of the child of its present epoch.  A client told of its
\* end has none running, so its restart never kills a healthy server on the
\* word of an event of the server before; a client told that it has started
\* has it running, or the end is on its way; a client waiting for it will be
\* told.  Two ways lead to silence, and no third: a start refused by a full
\* queue, and a restart accepted by a supervisor that is about to return.  The
\* end of a server is never refused: TERMINAL_EVENT_RESERVE is enough.
ClientIsTold ==
    LET e == client.epoch
        alive == Running /\ child.epoch = e
    IN client.open =>
        /\ client.told = "ended" => ~alive
        /\ client.told = "started" => alive \/ OnItsWay("ended", e)
        /\ client.told = "starting" =>
              ToBeStarted(e) \/ OnItsWay("started", e) \/ OnItsWay("ended", e) \/ e \in silent

\* A client that waits for its server is told, or its epoch is one of the silent
\* ones; and after a stop the child is reaped and the supervisor returns.
Settles ==
    /\ client.told = "starting" ~> client.told # "starting" \/ ~client.open \/ client.epoch \in silent
    /\ ~client.open ~> Ended /\ ~Running
=============================================================================
