----------------------------- MODULE Runtime -----------------------------
(* The foreground of one application and what feeds it: the bounded worker  *)
(* pool, the queue of independent (external) results and the wake that asks *)
(* the main thread for one more turn.  The main thread, every worker and    *)
(* every producer are processes; a step is the code between two operations  *)
(* on a channel, a lock or a shared counter.                                *)
(*                                                                          *)
(* Left out: scenes, viewport and dirty flag (a function of the main thread *)
(* alone) and the counters that only a snapshot reads.  The two revisions   *)
(* are one number: they are captured, advanced and compared together.       *)
EXTENDS Integers, SequencesExt, FiniteSetsExt

CONSTANTS Producers,         \* threads with a clone of the external producer
          Workers,           \* threads of the fixed pool
          RequestCapacity,   \* jobs the request channel holds
          ResultCapacity,    \* completions the result channel holds
          Capacity,          \* EXTERNAL_RESULT_CAPACITY
          MaxBytes,          \* MAX_EXTERNAL_RETAINED_BYTES
          Sizes,             \* retained_bytes a producer attributes to a result
          MaxSequence,       \* sequences before the external source is exhausted
          PerTurn,           \* MAX_WORKER_RESULTS_PER_TURN
          MaxJobs,           \* bound: jobs the delegate submits
          MaxRevision,       \* bound: revision of the workspace and document
          MaxInputs          \* bound: native events other than wakes

ASSUME RuntimeAssumption ==
    /\ {RequestCapacity, ResultCapacity, Capacity, PerTurn} \subseteq Nat \ {0}
    /\ {MaxBytes, MaxSequence, MaxJobs, MaxRevision, MaxInputs} \subseteq Nat
    /\ Sizes \subseteq Nat
    /\ IsFiniteSet(Workers) /\ "none" \notin Producers

VARIABLES
    \* the external queue
    sender,        \* [holder, open, stopping]: the lock, the Option, the flag
    chan,          \* the channel of external results
    items, bytes,  \* current_items and current_bytes
    sequence,      \* next_sequence, counted from zero
    producer,      \* what each producer is submitting
    delivered,     \* history: sequence of the last external result received
    \* the worker pool
    requests, results,
    queuedResults, \* queued_results
    connected,     \* whether the foreground still holds its two channel ends
    worker,        \* what each worker is doing
    accepted,      \* next_sequence of the pool: jobs accepted so far
    ended,         \* history: jobs whose result was applied, refused or lost
    \* the foreground
    wake,          \* a wake is queued on the main dispatch queue
    main,          \* [pc, event, turn, hand]
    app,           \* [revision, stopping, externalNext]
    inputs         \* bound: events so far

external == <<sender, chan, items, bytes, sequence, producer, delivered>>
pool == <<requests, results, queuedResults, connected, worker, accepted, ended>>
vars == <<external, pool, wake, main, app, inputs>>

Jobs == 1 .. MaxJobs
Job == [job : Jobs, revision : 0 .. MaxRevision]
Completion == [job : Jobs, revision : 0 .. MaxRevision, panicked : BOOLEAN]
Result == [sequence : 1 .. MaxSequence, bytes : Sizes]
None == "none"
Nothing == [pc |-> "idle"]

\* A wake carries no data: a second one before the first is dispatched
\* coalesces with it (NativeWakeBridge, modelled from its callers' view).
Wake == wake' = TRUE

Init ==
    /\ sender = [holder |-> None, open |-> TRUE, stopping |-> FALSE]
    /\ chan = <<>> /\ items = 0 /\ bytes = 0 /\ sequence = 0 /\ delivered = 0
    /\ producer = [p \in Producers |-> Nothing]
    /\ requests = <<>> /\ results = <<>> /\ queuedResults = 0 /\ connected = TRUE
    /\ worker = [w \in Workers |-> Nothing]
    /\ accepted = 0 /\ ended = {}
    /\ wake = TRUE   \* run_on_native_surface wakes once before it runs
    /\ main = [pc |-> "idle", event |-> None, turn |-> 0, hand |-> None]
    /\ app = [revision |-> 0, stopping |-> FALSE, externalNext |-> TRUE]
    /\ inputs = 0

-----------------------------------------------------------------------------
(* ExternalProducer::submit.  A producer that finds the lock held, the      *)
(* queue closed or its sequence exhausted is refused and changes nothing.   *)

\* The byte budget test of submit.
FitsBudget(size) == bytes + size <= MaxBytes

\* Mutant: a producer does not wait for the lock.
MutantAdmitting == ~sender.stopping /\ sender.open

\* submit tests the stop flag and the Option under the lock.
Admitting == sender.holder = None /\ ~sender.stopping /\ sender.open

\* From the lock to the channel: a sequence, then the bytes, then the item.
\* A result over the budget gives the lock back and has burned its sequence.
ReserveResult(p, size) ==
    /\ producer[p].pc = "idle"
    /\ Admitting
    /\ sequence < MaxSequence
    /\ sequence' = sequence + 1
    /\ \/ /\ FitsBudget(size)
          /\ bytes' = bytes + size
          /\ items' = items + 1
          /\ sender' = [sender EXCEPT !.holder = p]
          /\ producer' = [producer EXCEPT ![p] =
                [pc |-> "sending", queued |-> items', sequence |-> sequence', bytes |-> size]]
       \/ /\ ~FitsBudget(size)
          /\ UNCHANGED <<bytes, items, sender, producer>>
    /\ UNCHANGED <<chan, delivered, pool, wake, main, app, inputs>>

\* try_send, then drop(sender_guard).
SendResult(p) ==
    /\ producer[p].pc = "sending"
    /\ Len(chan) < Capacity
    /\ chan' = Append(chan, [sequence |-> producer[p].sequence, bytes |-> producer[p].bytes])
    /\ sender' = [sender EXCEPT !.holder = None]
    /\ producer' = [producer EXCEPT ![p] = [pc |-> "admitted", queued |-> @.queued]]
    /\ UNCHANGED <<items, bytes, sequence, delivered, pool, wake, main, app, inputs>>

\* Mutant: a refused result keeps its bytes.
MutantResultRefused(p) ==
    /\ producer[p].pc = "sending"
    /\ Len(chan) = Capacity
    /\ items' = items - 1
    /\ sender' = [sender EXCEPT !.holder = None]
    /\ producer' = [producer EXCEPT ![p] = Nothing]
    /\ UNCHANGED <<chan, bytes, sequence, delivered, pool, wake, main, app, inputs>>

\* try_send finds the channel full: what was reserved is given back.
ResultRefused(p) ==
    /\ producer[p].pc = "sending"
    /\ Len(chan) = Capacity
    /\ items' = items - 1
    /\ bytes' = bytes - producer[p].bytes
    /\ sender' = [sender EXCEPT !.holder = None]
    /\ producer' = [producer EXCEPT ![p] = Nothing]
    /\ UNCHANGED <<chan, sequence, delivered, pool, wake, main, app, inputs>>

\* admit: only the result that took the count from zero to one wakes.
Announce(p) ==
    /\ producer[p].pc = "admitted"
    /\ IF producer[p].queued = 1 THEN Wake ELSE UNCHANGED wake
    /\ producer' = [producer EXCEPT ![p] = Nothing]
    /\ UNCHANGED <<sender, chan, items, bytes, sequence, delivered, pool, main, app, inputs>>

Produce(p) == (\E size \in Sizes : ReserveResult(p, size)) \/ SendResult(p) \/ ResultRefused(p) \/ Announce(p)

-----------------------------------------------------------------------------
(* worker_loop.  The lock on the request channel only decides which idle    *)
(* worker receives; a job is assumed to return or to panic.                 *)

\* recv, and the job starts.
TakeRequest(w) ==
    /\ worker[w].pc = "idle"
    /\ requests # <<>>
    /\ requests' = Tail(requests)
    /\ worker' = [worker EXCEPT ![w] = [pc |-> "running", token |-> Head(requests)]]
    /\ UNCHANGED <<external, results, queuedResults, connected, accepted, ended, wake, main, app, inputs>>

\* The job returns or reaches the panic boundary; the result is counted
\* before it is sent.
FinishJob(w) ==
    /\ worker[w].pc = "running"
    /\ \E panicked \in BOOLEAN :
          worker' = [worker EXCEPT ![w] =
                [pc |-> "sending",
                 token |-> [job |-> @.token.job, revision |-> @.token.revision, panicked |-> panicked]]]
    /\ queuedResults' = queuedResults + 1
    /\ UNCHANGED <<external, requests, results, connected, accepted, ended, wake, main, app, inputs>>

\* Mutant: try_send instead of send, so a full channel loses the result.
MutantSendCompletion(w) ==
    /\ worker[w].pc = "sending"
    /\ connected
    /\ results' = IF Len(results) < ResultCapacity THEN Append(results, worker[w].token) ELSE results
    /\ worker' = [worker EXCEPT ![w] = [pc |-> "sent"]]
    /\ UNCHANGED <<external, requests, queuedResults, connected, accepted, ended, wake, main, app, inputs>>

\* send waits for room while the foreground holds the receiver.
SendCompletion(w) ==
    /\ worker[w].pc = "sending"
    /\ connected
    /\ Len(results) < ResultCapacity
    /\ results' = Append(results, worker[w].token)
    /\ worker' = [worker EXCEPT ![w] = [pc |-> "sent"]]
    /\ UNCHANGED <<external, requests, queuedResults, connected, accepted, ended, wake, main, app, inputs>>

\* send fails once the receiver is gone: the result is dropped.
DropCompletion(w) ==
    /\ worker[w].pc = "sending"
    /\ ~connected
    /\ queuedResults' = queuedResults - 1
    /\ ended' = ended \cup {worker[w].token.job}
    /\ worker' = [worker EXCEPT ![w] = Nothing]
    /\ UNCHANGED <<external, requests, results, connected, accepted, wake, main, app, inputs>>

\* Mutant: a worker wakes the main thread only for a first queued result.
MutantWakeAfterSend(w) ==
    /\ worker[w].pc = "sent"
    /\ IF queuedResults = 1 THEN Wake ELSE UNCHANGED wake
    /\ worker' = [worker EXCEPT ![w] = Nothing]
    /\ UNCHANGED <<external, requests, results, queuedResults, connected, accepted, ended, main, app, inputs>>

WakeAfterSend(w) ==
    /\ worker[w].pc = "sent"
    /\ Wake
    /\ worker' = [worker EXCEPT ![w] = Nothing]
    /\ UNCHANGED <<external, requests, results, queuedResults, connected, accepted, ended, main, app, inputs>>

\* Mutant: a worker leaves at the shutdown before the queued requests.
MutantExitWorker(w) ==
    /\ worker[w].pc = "idle"
    /\ ~connected
    /\ worker' = [worker EXCEPT ![w] = [pc |-> "exited"]]
    /\ UNCHANGED <<external, requests, results, queuedResults, connected, accepted, ended, wake, main, app, inputs>>

\* recv fails when the sender is gone and the queued requests have drained.
ExitWorker(w) ==
    /\ worker[w].pc = "idle"
    /\ ~connected
    /\ requests = <<>>
    /\ worker' = [worker EXCEPT ![w] = [pc |-> "exited"]]
    /\ UNCHANGED <<external, requests, results, queuedResults, connected, accepted, ended, wake, main, app, inputs>>

Work(w) == TakeRequest(w) \/ FinishJob(w) \/ SendCompletion(w) \/ DropCompletion(w)
              \/ WakeAfterSend(w) \/ ExitWorker(w)

-----------------------------------------------------------------------------
(* The main thread: one dispatch at a time, drained in at most PerTurn      *)
(* iterations.                                                              *)

At(pc) == main.pc = pc
Goto(pc) == main' = [main EXCEPT !.pc = pc]
Rest == [pc |-> "idle", event |-> None, turn |-> 0, hand |-> None]

\* A dispatch drains before the delegate sees the event, an accessibility
\* action after, an accessibility query not at all.
Begin(event) ==
    main' = [main EXCEPT !.pc = IF event \in {"query", "action"} THEN "event" ELSE "first",
                         !.event = event]

\* The bridge clears its pending flag and delivers one Wake event; after the
\* close, dispatch returns at once.
DispatchWake ==
    /\ At("idle")
    /\ wake
    /\ wake' = FALSE
    /\ IF app.stopping THEN UNCHANGED main ELSE Begin("wake")
    /\ UNCHANGED <<external, pool, app, inputs>>

DispatchInput(event) ==
    /\ At("idle")
    /\ ~app.stopping
    /\ inputs < MaxInputs
    /\ inputs' = inputs + 1
    /\ Begin(event)
    /\ UNCHANGED <<external, pool, wake, app>>

\* What the delegate may do with an AppContext: nothing, a newer revision, or
\* one job, refused unseen when the request channel is full.
Delegate ==
    \/ UNCHANGED <<app, requests, accepted>>
    \/ /\ app.revision < MaxRevision
       /\ app' = [app EXCEPT !.revision = @ + 1]
       /\ UNCHANGED <<requests, accepted>>
    \/ /\ accepted < MaxJobs
       /\ Len(requests) < RequestCapacity
       /\ accepted' = accepted + 1
       /\ requests' = Append(requests, [job |-> accepted', revision |-> app.revision])
       /\ UNCHANGED app

\* After the delegate's event handler: a close that it did not cancel closes
\* the external queue, an action drains, anything else is over.
DelegateEvent ==
    /\ At("event")
    /\ Delegate
    /\ CASE main.event = "action" -> Goto("first")
         [] main.event = "close"  -> Goto("closing") \/ main' = Rest
         [] OTHER                 -> main' = Rest
    /\ UNCHANGED <<external, results, queuedResults, connected, worker, ended, wake, inputs>>

\* Where the drain returns to.
Drained == IF main.event = "action" THEN main' = Rest ELSE Goto("event")

NextIteration ==
    main' = [main EXCEPT !.pc = IF main.turn + 1 = PerTurn THEN "spent" ELSE "first",
                         !.turn = IF main.turn + 1 = PerTurn THEN 0 ELSE main.turn + 1,
                         !.hand = None]

\* try_recv of the external channel; the counters follow in their own step.
ReceiveResult ==
    /\ chan # <<>>
    /\ chan' = Tail(chan)
    /\ main' = [main EXCEPT !.pc = "uncounted", !.hand = Head(chan)]
    /\ UNCHANGED <<items, bytes, sequence, producer, sender>>

\* External results first when the last one applied came from a worker.
DrainExternalFirst ==
    /\ At("first")
    /\ \/ app.externalNext /\ ReceiveResult /\ delivered' = Head(chan).sequence
       \/ ~(app.externalNext /\ chan # <<>>) /\ Goto("worker") /\ UNCHANGED external
    /\ UNCHANGED <<pool, wake, app, inputs>>

DrainExternalLast ==
    /\ At("last")
    /\ \/ ReceiveResult /\ delivered' = Head(chan).sequence
       \/ chan = <<>> /\ Drained /\ UNCHANGED external
    /\ UNCHANGED <<pool, wake, app, inputs>>

\* A completion for another revision is refused; a panicked job has no result.
Refused(completion) == completion.revision # app.revision \/ completion.panicked

\* try_completion, and what to do with what it finds.
DrainWorker ==
    /\ At("worker")
    /\ \/ /\ results # <<>>
          /\ results' = Tail(results)
          /\ queuedResults' = queuedResults - 1
          /\ app' = [app EXCEPT !.externalNext = TRUE]
          /\ IF Refused(Head(results))
             THEN NextIteration /\ ended' = ended \cup {Head(results).job}
             ELSE main' = [main EXCEPT !.pc = "apply", !.hand = Head(results)] /\ UNCHANGED ended
       \/ /\ results = <<>>
          /\ IF app.externalNext THEN Drained ELSE Goto("last")
          /\ UNCHANGED <<results, queuedResults, ended, app>>
    /\ UNCHANGED <<external, requests, connected, worker, accepted, wake, inputs>>

\* The counters of a received external result; the close discards it.
CountResult ==
    /\ At("uncounted")
    /\ items' = items - 1
    /\ bytes' = bytes - main.hand.bytes
    /\ main' = [main EXCEPT !.pc = IF sender.stopping THEN "discard" ELSE "applyExternal", !.hand = None]
    /\ app' = IF sender.stopping THEN app ELSE [app EXCEPT !.externalNext = FALSE]
    /\ UNCHANGED <<sender, chan, sequence, producer, delivered, pool, wake, inputs>>

\* delegate.worker_result.
ApplyResult ==
    /\ main.pc \in {"apply", "applyExternal"}
    /\ Delegate
    /\ ended' = IF At("apply") THEN ended \cup {main.hand.job} ELSE ended
    /\ NextIteration
    /\ UNCHANGED <<external, results, queuedResults, connected, worker, wake, inputs>>

\* What the counters say is left when a turn is spent.
ResultsLeft == queuedResults > 0 \/ items > 0

TurnSpent ==
    /\ At("spent")
    /\ IF ResultsLeft THEN Wake ELSE UNCHANGED wake
    /\ Drained
    /\ UNCHANGED <<external, pool, app, inputs>>

-----------------------------------------------------------------------------
(* The close of the external queue and the end of the application.          *)

\* close waits for the lock, revokes the sender and then discards the queue.
CloseQueue ==
    /\ At("closing")
    /\ sender.holder = None
    /\ sender' = [sender EXCEPT !.open = FALSE, !.stopping = TRUE]
    /\ Goto("discard")
    /\ UNCHANGED <<chan, items, bytes, sequence, producer, delivered, pool, wake, app, inputs>>

DiscardQueue ==
    /\ At("discard")
    /\ \/ ReceiveResult /\ UNCHANGED <<delivered, app>>
       \/ /\ chan = <<>>
          /\ app' = [app EXCEPT !.stopping = TRUE]
          /\ IF main.event = "return" THEN Goto("shutdown") ELSE main' = Rest
          /\ UNCHANGED external
    /\ UNCHANGED <<pool, wake, inputs>>

\* The run loop returns, after a close or with an error of the surface.
RunReturns ==
    /\ At("idle")
    /\ main' = [main EXCEPT !.pc = "closing", !.event = "return"]
    /\ UNCHANGED <<external, pool, wake, app, inputs>>

\* Mutant: shutdown joins with the result receiver still held.
MutantShutdownWorkers ==
    /\ At("shutdown")
    /\ Goto("joining")
    /\ UNCHANGED <<external, pool, wake, app, inputs>>

\* WorkerPool::shutdown drops both channel ends; results nobody received go
\* with the channel.
ShutdownWorkers ==
    /\ At("shutdown")
    /\ connected' = FALSE
    /\ results' = <<>>
    /\ ended' = ended \cup {results[i].job : i \in DOMAIN results}
    /\ Goto("joining")
    /\ UNCHANGED <<external, requests, queuedResults, worker, accepted, wake, app, inputs>>

JoinWorkers ==
    /\ At("joining")
    /\ \A w \in Workers : worker[w].pc = "exited"
    /\ main' = [Rest EXCEPT !.pc = "stopped"]
    /\ UNCHANGED <<external, pool, wake, app, inputs>>

Foreground ==
    \/ DispatchWake
    \/ DelegateEvent
    \/ DrainExternalFirst \/ DrainWorker \/ DrainExternalLast
    \/ CountResult \/ ApplyResult \/ TurnSpent
    \/ CloseQueue \/ DiscardQueue
    \/ ShutdownWorkers \/ JoinWorkers

Events == {"input", "query", "action", "close"}

Next ==
    \/ Foreground
    \/ \E event \in Events : DispatchInput(event)
    \/ RunReturns
    \/ \E p \in Producers : Produce(p)
    \/ \E w \in Workers : Work(w)

Spec == Init /\ [][Next]_vars

\* Every thread is scheduled, the run loop dispatches what is queued on it, a
\* job ends, and the loop returns once the application has allowed the close.
\* Neither an input nor a submission ever has to happen.
FairSpec ==
    /\ Spec
    /\ WF_vars(Foreground)
    /\ WF_vars(RunReturns /\ app.stopping)
    /\ \A p \in Producers : WF_vars(SendResult(p) \/ ResultRefused(p) \/ Announce(p))
    /\ \A w \in Workers : WF_vars(Work(w))

-----------------------------------------------------------------------------
Sending(p) == producer[p].pc = "sending"
Held(w) == worker[w].pc \in {"running", "sending"}

\* Types, and the bounds of both queues and of the byte budget.
TypeOK ==
    /\ sender \in [holder : Producers \cup {None}, open : BOOLEAN, stopping : BOOLEAN]
    /\ chan \in SeqOf(Result, Capacity)
    /\ items \in 0 .. Capacity + 2
    /\ bytes \in 0 .. MaxBytes
    /\ sequence \in 0 .. MaxSequence /\ delivered \in 0 .. MaxSequence
    /\ \A p \in Producers : producer[p].pc \in {"idle", "sending", "admitted"}
    /\ requests \in SeqOf(Job, RequestCapacity)
    /\ results \in SeqOf(Completion, ResultCapacity)
    /\ queuedResults \in 0 .. MaxJobs
    /\ connected \in BOOLEAN
    /\ \A w \in Workers : worker[w].pc \in {"idle", "running", "sending", "sent", "exited"}
    /\ accepted \in 0 .. MaxJobs /\ ended \subseteq Jobs
    /\ wake \in BOOLEAN
    /\ main.turn \in 0 .. PerTurn - 1
    /\ app \in [revision : 0 .. MaxRevision, stopping : BOOLEAN, externalNext : BOOLEAN]
    /\ inputs \in 0 .. MaxInputs

\* The promise of the queue, read from its channel until the close.
Promise == INSTANCE ExternalResults WITH queue <- IF sender.open THEN chan ELSE <<>>, closed <- ~sender.open

\* An external result is admitted once, in order and within both limits,
\* delivered in the order of admission, and never admitted or delivered after
\* the close: lock, counters and channel implement ExternalResults.
KeepsPromise == Promise!Spec

\* What a producer that holds the lock has reserved and not sent, and what the
\* main thread has received and not counted off.
Reserved == IF sender.holder = None THEN [items |-> 0, bytes |-> 0]
            ELSE [items |-> 1, bytes |-> producer[sender.holder].bytes]
InHand == IF At("uncounted") THEN [items |-> 1, bytes |-> main.hand.bytes] ELSE [items |-> 0, bytes |-> 0]

\* The atomic counters are exact whatever the threads interleave: what they
\* say is in the channel, in the hands of the producer that holds the lock, or
\* in those of the main thread, and after the close nothing is left.
CountsAreExact ==
    /\ TypeOK
    /\ {p \in Producers : Sending(p)} = {sender.holder} \ {None}
    /\ items = Len(chan) + Reserved.items + InHand.items
    /\ bytes = Promise!Retained(chan) + Reserved.bytes + InHand.bytes
    /\ connected => queuedResults = Len(results) + Cardinality({w \in Workers : worker[w].pc = "sending"})
    /\ app.stopping => items = 0 /\ bytes = 0

\* Where an accepted job is.
Places(job) ==
    {<<"requests", i>> : i \in {n \in DOMAIN requests : requests[n].job = job}}
    \cup {<<"worker", w>> : w \in {v \in Workers : Held(v) /\ worker[v].token.job = job}}
    \cup {<<"results", i>> : i \in {n \in DOMAIN results : results[n].job = job}}
    \cup {<<"main", 0>> : n \in {m \in {main} : m.pc = "apply" /\ m.hand.job = job}}
    \cup {<<"ended", 0>> : n \in {job} \cap ended}

\* An accepted job is in exactly one place until its result is applied,
\* refused or dropped: none is lost or answered twice, a full result channel,
\* a panic and the shutdown included.
EveryJobOnce == \A job \in Jobs :
    IF job <= accepted THEN \E place \in Places(job) : Places(job) = {place} ELSE Places(job) = {}

\* A completed result never waits unannounced: while one is in the channel and
\* the main thread rests, a wake is queued or its worker is about to wake.
ResultsAnnounced ==
    At("idle") /\ ~app.stopping /\ results # <<>> =>
        wake \/ \E w \in Workers : worker[w].pc = "sent"

\* Every accepted job ends: its result is applied, refused or dropped.
JobsEnd == \A job \in Jobs : accepted >= job ~> job \in ended

\* Shutdown joins every worker: it waits for jobs, never for a channel.
ShutdownEnds == At("shutdown") ~> At("stopped")
=============================================================================
