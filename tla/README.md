# Verification of Alpine

TLA+ models of the parts of Alpine whose correctness depends on order: the
native presentation driver and the frames it sends to the GPU, the application
runtime and the panels that give it work, the publication of workspace edits, the recovery journal, and the language
servers from their process up to the pool that keeps them. Every definition is
translated from the source; `PROJECT.json` maps each one to its lines.

## The system

Alpine is a text editor for macOS with its own GPU renderer. One process; the
main thread runs AppKit callbacks and the application, a few threads beside it
do file and language work, language servers are child processes, and the GPU and
the display report back through callbacks.

| Component | State it keeps | Operations | Who calls it |
| --- | --- | --- | --- |
| Presentation state machine (`alpine-platform/src/lib.rs`) | application, link, dirty flag, requested and presented revision, surface epoch, one attempt (phase, resource, token, outcome) | fifteen actions through `apply` | the driver |
| Frame slot ring (`alpine-platform/src/frame_slots.rs`) | three slots, leases, accounts | acquire, mark submitted, cancel, complete | the driver |
| Native presentation driver (`alpine-platform-macos/src/native.rs`) | the two above, pending and active frame, link, timer, lifecycle | display-link update, timer tick, request, configuration, close, teardown | AppKit, CoreAnimation, Metal |
| Application runtime (`alpine-runtime/src/lib.rs`) | external queue and its counts, worker pool, wake, revisions | submit, dispatch, drain, worker loop, shutdown | producers, workers, the native surface |
| Workspace edit publication (`rust_workspace_publish.rs`) | journal, stages, backups, targets on disk | publish, recover at startup | editor worker, startup |
| Recovery journal (`recovery.rs`, `crash.rs`) | newest snapshot, generations, writer, journal file | publish, write, flush after a panic, shutdown | editor, writer thread, panic hook |
| Settings reload (`settings/loader.rs`) | requested and submitted generation, one load in flight, layers in force | request, take, defer, admit, replace project | editor |
| Panels: find, quick open, project search, file tree, workspace edits | query, generations, what is wanted, what is pending, what is shown | open, close, type, take, admit, fail | editor, worker pool |
| Language process (`lsp_process.rs`) | child and its number, epoch, control and event channels, event counter | start, send, restart, stop, poll; supervise, kill, reap | session, supervisor thread |
| Language session (`rust_diagnostics.rs`, `lsp_client.rs`) | protocol state, text last sent, version, one completion, diagnostics, restarts | start, change, switch, complete, poll, retry | pool, editor |
| Language pool (`language_services.rs`) | slots, order of use, active slot, searches, draining stops | sync, poll, evict, reap, discover, quit | editor, discovery thread |
| Documents, tabs, panes (`documents.rs`, `panes.rs`) | tab table, history, pane tree | open, close, move, split | editor |
| Glyph atlas (`alpine-text-layout`, `alpine-scene`) | texture, entries in order of use, dirty rows, published image | look up, insert, grow, evict, publish, advance | editor |
| GPU backend (`alpine-metal`) | atlas cache, upload buffers and pending command per slot, state, accounts | prepare, submit, poll, press, recreate | driver, Metal's completion handlers |
| Stall watchdog (`stall.rs`) | one atomic word | begin, end, sample | runtime, its thread |
| Text, layout, scene, accessibility, tools | values | pure or AppKit-driven | all |

How they interact: events reach the runtime from the driver; the runtime hands
jobs to workers and drains their completions and the external queue, one of each
in turn, on the main thread; after each event the panels submit what they want
and the runtime later brings the answer, unless the document has moved on; a
frame goes from the application to the driver, which prepares an attempt, leases
a slot, uploads what the GPU's copy of the glyph atlas lacks, submits it and waits for the GPU and for the presented handler; edits
prepared by a worker are published by another; the dirty documents are published
to the recovery journal after each event; the pool follows the shown document,
starts a session for it when an executable is found, and stops the oldest; a
session talks to its server through the supervisor's channels and is woken by it.

What is hard: the driver is called by four sources in no fixed order and may
never be called again by the display; counts and wakes are separate atomic steps
from the sends they announce; a result may be stale when it arrives, or be
thrown away; a process may die between two file operations, and a failing
directory sync reports an operation as failed that has happened; a server exits,
is restarted or stopped while its messages are under way, and its number may be
another process's a moment later. The list is under `hazards`.

What makes each component correct:

- *Presentation.* An attempt ends once; a frame is called shown only if it is the
  newest on the current surface; the link runs only when something may be drawn.
- *Slots.* No slot belongs to two frames, no lease is honoured twice or lost.
- *Rendering.* A frame that completes shows each glyph from its own pixels; an end
  reaches the frame it belongs to.
- *Driver.* Attempt, slot and frame end together; frames end and closes finish
  even if the display is silent; a waiting frame is drawn.
- *Runtime.* Budgets hold, nothing admitted is lost or reordered, nothing waits
  without a wake, every job ends once, shutdown never blocks for ever.
- *Publication.* All files or none, no content lost, a true answer, recovery
  always possible.
- *Recovery journal.* The journal only moves forward, and whatever was published
  is written, flushed or reported.
- *Settings and panels.* What is shown answers what is asked; each request is
  answered, refused or asked again; none waits for an answer nobody will give.
- *Process.* No signal reaches a reaped child, no event of an old child is taken
  for the new one's, no event waits unannounced, the client learns what became
  of its server.
- *Session.* What is shown was computed for what is on screen; the server's text
  follows the buffer; no session stalls but in the ways named.
- *Pool.* The shown document has its own slot, a slot has the answer to its own
  question only, no stopping server is forgotten.
- *Tabs and panes.* Identities stay valid under any sequence of operations.

## Modules

| Module | Models | State and actions |
| --- | --- | --- |
| `PresentationState` | `PresentationState` as a record with one operator per action: `CanX` is the guard, `X` the effect | no variables |
| `Presentation` | the state machine alone, under any caller | `p` is the struct, `evidence` counts terminal evidence per attempt; one action per `PresentationAction` |
| `FrameSlotRing` | `FrameSlotRing` as a record and operators | no variables |
| `FrameSlots` | the ring alone, under any caller | `ring`, and the leases handed out; its proofs are about this module, its properties are checked by `frame_rendering` too |
| `GlyphAtlas` | `GlyphAtlas`, its dirty rows, and `GlyphAtlasImage`, as records with an operator per method | no variables |
| `FrameRendering`, `MCFrameRendering` | the editor's scenes, `GlyphAtlasCache`, the presentation slots and signals, the GPU as a queue of committed commands that read the buffers when they run, and completion handlers between the GPU's end and their signal | `atlas`, `image`, `scene` of the editor; `cache`, `slots`, `encoded` (a slot's buffers and what its command reads), `backend` of the backend; `buffers`, `queue`, `handlers` outside; one action per call, command or handler |
| `PresentationDriver` | `PresentationDriver` with `PresentationState` and an instance of `FrameSlotRing`; the GPU, the presented handler, the display link, the timer and the main-queue confirmation are actors | one action per path through `metalDisplayLink:needsUpdate:`, `frame_progress_tick`, `request_frame`, configuration, `begin_native_close`, `drain_shutdown` and `drop` |
| `ExternalResults` | what the external queue promises: results come out in the order admitted, within the budget, none after the close | abstract |
| `Runtime` | producers, workers and the main thread with a program counter each, one step per atomic operation or channel call | implements `ExternalResults` |
| `Publication` | `publish_with_hook`, `rollback`, `recover_pending` and the clean-ups as a process over a disk | one action per file operation; `Crash` between any two |
| `Recovery` | `RecoveryCoordinator`, the writer thread, `FlushHandle` in the panic hook | one action per atomic access or critical section; `hook.unread` is a history: the last error was locked when the hook tried to read it, and was taken for none |
| `SettingsReload`, `FindRequests`, `QuickOpen`, `ProjectSearch`, `FileTree`, `WorkspaceEdits` | one requester each, as a record with one operator per method | no variables |
| `WorkerRequests`, `MCWorkerRequests` | the six requesters in `EditorApp`, with the events that make them ask, the submissions at the end of each event, and a pool that saturates, answers in any order and drops stale answers | `editor`, `jobs`; one action per event, `Deliver` and `Drop` per job |
| `LanguageProcess` | `LanguageProcess`, its supervisor, the reader and writer threads, and the server | `client` and `sup` with a place each; one action per channel call, atomic or system call |
| `LanguageSession` | a session and its client, with a server that reads, answers, publishes and exits when it likes, and a supervisor that starts it, rejects its input, keeps silent about a start, or returns | `session`, `control`, `events`, `server`; one action per event of the user, per wake and per step of the server and the supervisor. A turn is a record that the operators of the session pass on (`Turn`, `Finish`). A packet that breaks the protocol, or whose replies find no room, is polled by `PollBroken`, and a closed channel by `PollStopped`. Histories: `lost`, and `session.refused`, an error of which no restart came |
| `LanguagePool`, `MCLanguagePool` | `LanguageServices`, its discovery thread, and the supervisors of stopping servers | `pool`, `latch`, `thread`, and `editor` with how far a call is: sync and poll are an action per phase (joining stops, one answer each, the end of the channel, idle slots one by one, the slot of the file shown, its search or start, the sessions), because the other threads run in between |
| `PresentationDriverProofs`, `FrameRenderingProofs`, `RuntimeProofs`, `DiskProofs`, `LanguageProcessProofs`, `LanguagePoolProofs`, `LanguageSessionProofs`, `WorkerRequestsProofs` | theorems about the module each is named for; the first also about `Presentation`, the second about `FrameSlots`; `DiskProofs` about `Publication` and `Recovery` | |

Composition: `PresentationDriver` is built from the first two components;
`FrameRendering` from the slots and the glyph atlas;
`Runtime` implements `ExternalResults` by the refinement `KeepsPromise`, which
maps the queue to what is in the channel plus what a producer has admitted and
not sent; `WorkerRequests` is built from the six requesters and takes from
`Runtime` what an answer may meet: a saturated pool, any order, and a revision
that has moved. `LanguageSession` takes its channels from `LanguageProcess` with
the epochs folded away: a restart drops at once what belongs to the old server,
as the dropping of stale events justifies. What `ClientIsTold` excepts there is
a state of the supervisor here: `Silent` after a start that it could not announce,
`Returning` when it has stopped a server for a reason of its own and will read
nothing more, `Gone` when it has returned and the channels are closed. An event
beside those of the model (`InputWritten`, the error output) may fill the queue
at any time, so a rejection is announced or not, whatever room the model has.
`LanguagePool` sees of a session only whether it runs.

## Runs

| Run | Checks | Bounds |
| --- | --- | --- |
| `presentation` | the asserted invariant, one end per attempt, what clean means | 2 requests, 2 surface changes, 3 attempts: a completion stale by revision, epoch or visibility, and a token two attempts old |
| `frame_rendering` | pixels of every frame, slots against leases, signals and handlers, the ring | 2 slots, 2 leases, 1 saturation, 3 interchangeable glyphs in an atlas that grows from 1 row to 2, one glyph per scene and 8 changes of the atlas: it evicts, publishes two deltas on one base, skips images and starts a new base; 1 command that fails or loses the device, with its rows copied or not, and pressure at any time. A larger scene (two glyphs, 1.4 million states) gave the same answer in twice the time |
| `driver` | consistency of the composition, and its liveness | 2 revisions, 1 surface change, 2 attempts, 2 polls: a newer frame waits behind an active one, and the poll bound is reached |
| `runtime_external` | counts, budget and refinement | 2 producers, items 2, bytes 3 with sizes 1 and 2, 4 results, 1 worker with 1 job: each bound refuses first in some run, and the drain alternates |
| `runtime_workers` | jobs, wakes and shutdown | 2 workers, 3 jobs, request capacity 1, result capacity 2, 2 results per turn: workers block on both channels, a turn ends with work left, a result goes stale |
| `publication` | atomicity and truth of the answer | 3 files, 2 edits, 2 crashes, 2 failing operations, 1 failing sync: a crash in the recovery from a crash, and a rollback that fails |
| `publication_stuck` | *violation*: recovery is never refused | 2 files, 1 edit, 2 crashes, no other fault |
| `recovery` | order on disk, deduplication, truth of the crash log, nothing unwritten | 3 generations of 2 snapshots, 1 failed write, 1 panic on any thread |
| `worker_requests` | what panels show, who is waited for, nothing forgotten, every question ends | any 2 of the 6 requesters in one behaviour (`Together`), 4 events besides answers, 2 query texts and none, 2 batches per search, 3 directories of which one is inside another, 2 jobs at a time: the pool refuses, answers overtake each other and arrive for a closed panel, an edited document or another workspace |
| `language_process` | the child and its number, wakes, what the client is told, that it settles | every queue of capacity 1 but the event queue, 4 with 2 reserved; 2 epochs, 2 inputs, 2 outputs, 2 events per turn: the queue is full to its reserve, a turn ends with events left, a restart overtakes an exit |
| `language_session` | what is shown, the server's text, no stall but those named | 2 documents, 2 restarts, both channels of capacity 2, packets of 2 messages, 2 events of the user, 1 publication: a refused message, a switch there and back, a restart with a change waiting, a second one spent, a packet that breaks off after an answer, a restart sent to a supervisor that returns. 1.5 million states. With 3 events of the user, 1 restart and 1 place for events (5.5 million states, three times as long) everything holds too |
| `language_pool` | the shown document's slot, searches and their answers | 2 warm slots for 3 files of which 2 share a language (and are interchangeable) and 1 has a pinned server, 1 draining stop, 2 searches, 2 sessions: eviction of a searching slot, a second stop beyond the bound, a thread that dies with searches queued. 990 thousand states, with the discovery thread and the supervisors acting between the phases of a call |

The bounds are guards of the actions that would pass them (`MaxRevision` of presentation and of the atlas,
`MaxEpoch`, `MaxAttempt`, `MaxPolls` of the driver, `MaxSequence`,
`MaxSaturations`, `MaxGlyphs`, `MaxFailures` (of frames and of the journal's writes), `MaxJobs`, `MaxInputs`, `MaxOutputs`, `MaxEdits`, `MaxCrashes`,
`MaxFaults`, `MaxSyncFaults`, `MaxGeneration`, `MaxEvents`, `Together`,
`MaxTurns`, `MaxPublished`, `PacketSize`, `MaxSearches`, `MaxSessions`); a
behaviour at its bound stops, so deadlock is not checked where they apply.
Capacities, `MaxRestarts`, `MaxWarm`, `MaxDraining` and the `MaxPolls` of
`LanguageProcess` are limits of the code, made small.

Two further instances of `LanguageProcess` were looked at. With three epochs and
an event queue of three, everything still holds. With a reserve of one,
`ClientIsTold` fails: the end of a server can be refused. So the code's
`TERMINAL_EVENT_RESERVE` of 2 is exactly enough.

Each property of a passing run has a mutation of a mapped definition, next to it
in the module and named `Mutant...`, that breaks it. The type invariant of a
module is a conjunct of one of its properties.

### Disagreements found

`publication_stuck` is a run of its own: rollback is not idempotent
(`rust_workspace_publish.rs:499`), so that two crashes leave a journal that every later
start refuses. The others came up while the properties were stated; each is an
exception written into a property, named below, or follows from reading the
mapped code.

Presentation and runtime:

- A GPU failure in a callback pauses the link although a newer frame waits
  (`native.rs:1542`), against the comment at 1420; `PendingIsDrawn` promises the
  frame only while the link runs. `OnlyResumeIsRefused` pins down
  `native.rs:1465` as the only place where a transition that the driver relies on
  is refused.
- An external result can stay in the queue without a wake
  (`alpine-runtime/src/lib.rs:430`), because it is counted before it is sent.
- A stale answer is dropped without telling who asked
  (`alpine-runtime/src/lib.rs:1452`; `lost` in `EveryWaitIsServed`). Settings stay
  in flight, so later reloads wait for ever; a directory stays loading until the
  tree is hidden and shown; a publication stays "publishing" and takes every key,
  and closing answers "Wait for the pending workspace edit before closing."

Rendering, read while modelling and set aside or not reached by the program:

- The atlas cache records at commit what the command is to copy
  (`alpine-metal/src/native.rs:1526`). A frame committed behind one that then fails
  relies on rows that may never have been copied; `GlyphsAreRight` excepts it. The
  driver commits one frame at a time, so it does not arise there.
- A scene with more distinct glyphs than the atlas holds evicts glyphs it has
  already placed (`alpine-text-layout/src/lib.rs:1813`): they are drawn from
  another glyph's pixels. The assumption on `MaxGlyphs` keeps scenes within the
  atlas at every size at which it may stop growing. That is more than within the
  budget, as the proof showed: the size doubles, so an atlas of two rows with a
  budget of three never gets the third, and TLC finds a scene of three glyphs drawn
  wrong.
- Pressure on the atlas is put off while any frame is pending, so overlapping
  frames can put it off for ever. The program does not send it.

Panels:

- `open_workspace_root` (`lib.rs:7507`) does not advance the document revision and
  starts the file tree anew: a listing of the old workspace under way is admitted
  as the new one's root. Quick open and project search are not reset.
- Folding a directory while one inside it loads leaves its request pending, and no
  other directory is read until then (`file_tree.rs:597`). A failed inventory of quick
  open is not asked for again until the panel is reopened (`quick_open.rs:710`).

Files:

- A failed sync of the commit marker and a crash lose a file
  (`rust_workspace_publish.rs:228`; `doubtful` in `ReportsTruth`).
- A flush whose directory sync fails can be overwritten by an older snapshot
  (`recovery.rs:398`), against the comment at 148; `JournalMovesForward` excepts
  the writes after a failed flush.
- `flush` only tries the lock of the last error, and takes a busy lock for no error
  (`recovery.rs:372`). It then answers `Durable`, and the crash log says "already
  durable" (`crash.rs:184`), of a snapshot whose write failed, against the comment on
  `Durable`, "Everything published had already reached disk" (`recovery.rs:347`), and
  the note at 371. The lock is busy while the publisher reads the status (316) or the
  writer records the end of a write (475). TLC refutes `CrashLogIsTrue` without its
  exception (`hook.unread`): the first write fails, another thread panics, and the hook
  judges while the status is read.

Language servers:

- A start refused by a full queue kills the server without a word
  (`lsp_process.rs:1110`), and a restart accepted by a supervisor that is about to
  return is dropped; `silent` in `ClientIsTold` and `Settles`. The session
  then waits for ever without an error: `Silent` and `Gone` in `RestsOpen`.
- A restart that finds the channel full, or closed after a server was stopped for
  its output or the events overflowing (`lsp_process.rs:866`, 1053), leaves the
  session as it is with an error. A switch of documents before the document is open
  clears the error (`rust_diagnostics.rs:2692`, 3219), and restarts being counted per
  session, a spent one goes the same way: what is left is a dead session without an
  error (`refused` in `RestsOpen`).
- An error in a packet, or a server's request whose reply finds the control
  channel full (`lsp_client.rs:386`), throws away what the packet held before it
  (`rust_diagnostics.rs:1325`): the news that the server is ready, or an answer. The
  restart that follows makes up for it; if it is refused, a session stays
  initializing, or waits for an answer it has received (`refused` again).
- A change that was accepted and then rejected is not sent again, and the next one
  is computed from it (`rust_diagnostics.rs:2702`; `lost`). Versions start at 1
  again when a document is opened anew, so that delayed diagnostics of its last
  opening are admitted (2630; `opening`). A completion overtakes a change that
  waits for room (1485; `early`). Of two publications in one packet only the
  last is kept (1400), whichever document it is for.
- `needed_keys` (`language_services.rs:393`) computes a background tab's key from
  the registry's root and the shown tab's from its folder. Where they differ, the
  server of an open background tab counts as unattached: it is evicted first and
  reaped after a minute, against the comment above it. The comment on the search
  queue's bound is off by one, harmlessly. A session that is dropped where it is,
  by a failure or a stop, is waited for on the main thread.

## Fairness

- *Driver.* Metal completes every committed command buffer. An armed timer fires
  again and again, and when no update came since its last tick it takes the
  silent path; a running link delivers updates. Nothing is assumed of the user,
  of the surface or of the presented handler: a frame that is never reported as
  shown must end all the same.
- *Runtime.* Each worker is a thread and the main thread returns to its event
  loop, so their next steps are taken; a producer finishes a submission it has
  begun, and never has to begin one. Nothing is assumed of input. Closing the
  queue takes the submission lock, which producers only try.
- *Recovery.* The publishing thread, the writer and the hook are threads. A new
  publication, a shutdown or a panic need never come.
- *Worker requests.* A worker finishes each job it is given and its answer wakes
  the main thread; `runtime_workers` checks that those wakes are not lost. The user need
  never do anything.
- *Language process.* The supervisor's loop times out every two milliseconds, so
  it takes its next step; a latched wake brings a turn of the main thread, and a
  turn once begun ends. Nothing is assumed of the server or the user.
- *Publication*, *session* and *pool* have no fairness: what is checked of them is
  safety, and `RestsOpen` states of a session at rest what it must have reached.

## Proofs

`PresentationDriverProofs` begins with the state machine alone. It proves, for every value of `MaxRevision`, `MaxEpoch` and
`MaxAttempt`, that `StateInvariant` (which contains `TypeOK`), `AttemptsEndOnce` and
`CleanMeansSettled` are invariants of `Presentation`. The assumption is the
module's own, `SequencesAssumption`. The invariant the code asserts is inductive
with the type: `Sound(p)` splits it into `LinkPart`, `PhasePart` and `TokenPart`,
so that each handler's proof has one step per part, and `SoundIsInvariant` shows
the split loses nothing. It is too weak for the other two properties.
`AttemptsEndOnce` counts evidence for the token a terminal handler finds, which
is the newest attempt only because no other can be active. `IInv` is therefore
the conjunction of `TypeOK`, `Sound(p)`, `ActiveIsNewest` (an active token carries
the newest attempt number), `AttemptsEndOnce` and `CleanMeansSettled`. One lemma
per action shows that it preserves `Sound`, `NextMoves` classifies every step as
keeping, beginning or ending an attempt, and `NextSettled` treats the clean
surface.

`FrameRenderingProofs` begins with the ring alone. It proves, for any number of slots, any bound on lease sequences
and any tokens, that `RingStateInvariant` and `LeasesOutstanding` are invariants
of `FrameSlots`, from `RingAssumption`. The lemmas about the ring's operators come
first and hold of any caller that keeps to them: the search of `acquire` ends at a
free slot (by well-founded choice of the least), the number of occupied slots changes
by one with each admission and release, and a lease that does not match its slot
changes nothing. The ring's invariant alone does not say that a lease in a caller's
hands is old; `GrantedAreOld` adds that every lease granted carries a smaller sequence
than the next, so that a slot leased again never matches an old lease.

`PresentationDriverProofs` then proves, for any number of revisions, surface changes,
attempts, polls and slots, that `ActiveOwnsAttempt`, `PendingIsNewest` and `LinkAgrees`
are invariants of `PresentationDriver`, that every step satisfies
`OnlyResumeIsRefused`, and that the state machine, called by this driver, never leaves
what its `apply` asserts (`DriverKeepsMachineSound`). It assumes `DriverAssumption`
and the assumptions of the two parts. What one handler of the machine
keeps is cited from the lemmas about `Presentation` in the same module; what a lease goes
through in a ring that holds no other is proved there too. The
invariant ties the parts together: the attempt in the machine is the active frame's
(`OwnsAttempt`), the ring holds exactly its slot until the command has ended
(`HoldsSlot`), a close waits for the GPU and every active frame has its timer
(`Closes`), the newest scene is pending or in flight on an unchanged surface
(`Waiting`), and pacing runs while a demanded frame is in flight (`Paces`). It is an
invariant between callbacks: within one, the model applies the calls in order to the
record, and one lemma per call says what it does to the few fields the driver reads
(`SameAttempt`, `SameDemand`). `Tells` and `Agrees` relate a directive to the native
link, and carry it over a pause that is not obeyed at once.

`FrameRenderingProofs` then proves, for any number of slots, frames, glyphs, rows and
failures, that `FramesAreOwned`, the two ring properties and `GlyphsAreRight` are
invariants of `FrameRendering`, from `RingAssumption`, `AtlasAssumption` and
`FramesAssumption`. The pipeline takes a lease and marks or withdraws it within one
call, so its steps are not steps of `FrameSlots`; the lemmas on the ring's operators
are cited instead (`LeasedRing`, `WithdrawnKeeps`, `CommittedKeeps`).
`FramesAreOwned` needs one thing more to be inductive: frames may be polled in any
order, so that the next number is above all pending ones only because
`NumbersBounded` counts the frames polled and those pending together. That the queue
holds no slot twice follows from the numbers.

What a frame draws rests on the invariant `DInv`, in four steps. *Atlas*
(`AtlasSound`, `Follows`): every entry has a row of its own that shows its glyph, and
the dirty rows contain at least what changed since the image published last; one lemma
per operation keeps this. `Gathered` adds that the glyphs of a text are the entries used
last, so that none of them is evicted while the text is laid out, which is where the
bound on `MaxGlyphs` is needed. *Images* (`Older`): of two images on one base the older is
told from the newer by its revision, and what the newer one patches is all they
differ in, so that what `prepare` uploads is enough (`PatchesLead`, `PreparedServes`).
*Buffers* (`BuffersFit`): what the cache and the pending commands name is still held.
*Queue* (`Drawing`): `Will(c, f, b, k, r, v)` says that row `r` of buffer `b` will be
`v` once the first `k` commands have run. Each command's glyphs will be right when it
runs, and the cache's buffer will show the cache's image when the queue is done,
unless a frame they depend on has failed; `Trusted` and `Behind` say which those are. A
commit appends to the queue (`WillPut`, `WillStay`), the GPU takes from its head
(`WillShift`), and everything else leaves it alone (`QuietDraws`).

`RuntimeProofs` proves, for any finite number of workers, any producers, jobs, sizes
and capacities, that `CountsAreExact`, `ResultsAnnounced` and `EveryJobOnce` are
invariants of `Runtime` and that it implements `ExternalResults` (`RuntimeKeepsPromise`), from
`RuntimeAssumption`. The invariant has a part per shared object. `QueueInv`: the
counters of the external queue are the channel, plus what the producer holding the
lock has reserved, plus what the main thread took and has not subtracted. `MainInv`:
which steps of the main thread belong to a running and which to a stopping
application. `PoolInv`: the workers about to send are counted before they send, and a
completion found by nobody has a wake. `JobInv`: jobs leave the channel in the order
accepted, and those that left are divided among workers, results, the main thread and
those that ended. The bytes in the channel are a sum over a sequence, a recursive
function in `ExternalResults`; `Retained` of an appended and of a shortened sequence
is proved by induction over the set of lengths for which it holds (`SetInduction`).
The refinement then has one lemma per step: it maps to `Admit`, `Deliver` or `Close` of
the abstract queue, or to a stutter.

`DiskProofs` begins with publication. It proves, for any number of files, edits, crashes and failing
operations, that `NothingLost`, `RecoveredIsWhole` and `ReportsTruth` are invariants
of `Publication`, from `PublicationAssumption`. `Shape` says of each step of the
process what the journal reads, which files it has dealt with, and why it is there
(`publish`, `failure`, `commit` or `startup`); a crash keeps only what the journal
says. `Kept` is the reason nothing is lost: under a prepared journal a file's backup, or
else its target, is the content committed last, and under any other journal every
target is. `Bounded` keeps the edit being written apart from those before it.

`LanguageProcessProofs` proves, for any capacities and any number of restarts, that
`ChildIsOurs`, `EventsAreAnnounced` and `ClientIsTold` are invariants of
`LanguageProcess`, from `LanguageProcessAssumption`, the last also from
`ReserveAssumption`: the reserve is at least two, as in the code. None is inductive. For the
first, `Placed` says at which places of the supervisor there is a child,
`OncePerEpoch` that a reaped epoch is never the one about to start, and
`RestartsRise` that the restarts queued carry epochs newer than the supervisor's
and in rising order, which is why the epoch taken from the channel cannot be one
that was reaped. For the second, `Counted` says exactly what the counter beside
the channel counts (the channel, the event in the main thread's hand, and the one
about to be sent), and `FirstWakes` that an event sent while the main thread rests
with nothing latched is the first. The conjuncts that only the supervisor's own
steps touch are carried by `CoreKept` over all the others. For the third, `Pipe` is
everything on its way to the client: the event in its hand, the channel, the event
about to be sent. `Ordered` and `Bounded` say that news comes in the order of epochs and
that at most the ends of two children are still to be heard, which is why a reserve of
two always has room for the next (`ReserveIsEnough`); `Pictured` says what the client
will believe once it has heard all.

`DiskProofs` then proves, for any snapshots, any number of publications and failed
writes, that `DedupeIsSafe`, `CrashLogIsTrue` and `ShutdownDrains` are invariants of
`Recovery` and that every step satisfies `JournalMovesForward`, from
`RequestsAssumption` and `BoundsAssumption`. The invariant has a part for each
thing the three threads rely on: `Newest` (the editor's snapshot is the newest, and
no copy of one is later), `SnapshotKept` (what was stored stays until it is completed),
`Locked` (whoever holds the journal's lock writes something newer than what is
completed), `Written` (what is completed is on disk or its failure is recorded, and
the disk is ahead only under the lock or after a flush that failed), `Spared` (a
snapshot whose write failed is forgotten before a later one is completed),
`Flushed` (what the hook reports it wrote, and what is on disk when it reports that
nothing was to write: true unless it could not read the last error, which is the
exception `CrashLogIsTrue` names) and `Awake` (the writer rests only when
nothing is left to write or a signal is waiting). A first lemma per step says what
it does field by field (`CountDoes` and its like); each part then has one lemma,
with a step per action, that names only the parts it needs.

`LanguagePoolProofs` proves, for any files, keys, bounds and numbers of searches and
sessions, that `ShownIsServed` and `SearchesAreServed` are invariants of
`LanguagePool`, from `LanguagePoolAssumption`. The invariant is `Sound`, `Typed`,
`Following` and `Woken`. `Sound` is what every method keeps and every phase of a call
may rely on: `Slotted` (slots have distinct keys and the order of use names each
once), `Stopping` (a numbered stop is waited for or was detached), `AllHonest` (only
the answer to its own question gives a slot a server), and `Searching`, the reason
no answer goes to another slot: `Numbered` says that the two channels and the
thread's hand hold distinct numbers that were given out, `Expecting` that each waiting
slot's search is among them, not cancelled, and of the slot's key. `Following`
relates the pool to the editor between the phases of a call: the active slot is the
shown file's, it is attached, and its search or session is on that file, except
between the phase that makes the slot and the one that asks. `Woken` says that an
answer nobody admits yet has a latched wake, or the discovery thread is about to give
it one. The slot
evicted is the one used least recently; that there is one is well-foundedness of the
numbers.

`WorkerRequestsProofs` proves, for any files, queries, directories, capacities and
numbers of events, that `PanelsShowQuery`, `EveryWaitIsServed` and `NothingForgotten`
are invariants of `WorkerRequests`, from `WorkerRequestsAssumption`. `Sound(e, jobs,
lost)` has a part per requester that relates what it waits for and what it shows to
the jobs under way: `FindSound`, `QuickSound` and `SearchSound` to the jobs in the pool
and the present revision, because what moves the revision closes these panels or has
them ask again; `TreeSound`,
`SettingsSound` and `EditsSound` to the jobs in the pool or lost.
Each requester has a lemma per operator, which says that the operator keeps its part
whatever the other requesters do; `FinishKeeps` treats the submissions at the end of an
event, where one requester's job may be refused after another's was taken.

`LanguageSessionProofs` proves, for any documents, capacities, sizes of packets and
numbers of restarts, events and diagnostics, that `AnalysisIsCurrent`, `ServerInStep` and
`RestsOpen` are invariants of `LanguageSession`, from `LanguageSessionAssumption`. A turn
of the main thread changes session and messages many times, so the invariant `Sound(t, e,
v)` speaks of a turn `t` under way, with the events `e` it has yet to poll and the server
`v`, and every operator of the session keeps it. `Staged` says where a session that
starts or runs has its child: the start is to be read, was announced, or was kept
silent or given to a supervisor that returned; the end is announced when the server is
down, and only rejections follow it.
`Unopened` and `Numbered` keep documents and questions to an open session and their
numbers to those given out. `Follows` is the reason the server has the right text: the
messages under way lead, one by one (`IsPath`), from the documents the server has to the
one on screen, every document passed on the way is at a text that its opening and version
name truthfully, and where the present question stands the text is the one it was asked
about. `Truthful` says the same of the answers and diagnostics that come back, `Shown` of
what was admitted, and `Moving` names, for each state a session may not stay in, what is
under way to end it, or which of the stalls named in `RestsOpen` it is in. Replies that fill
the channel are appended by induction on their number (`RepliesGrow`); they change no
document. A message appended, read or dropped lengthens or shortens the path at
one end; a restart begins it anew. The proof also found that two arms of a `CASE`
overlapped in the server's reading of a request, which left TLC's answer to its choice of
the first; they are disjoint now.

Only model-checked: all liveness, `PublishedIsCompleted` included
(fairness and `ENABLED` are out of the prover's reach). Where a model computes by
recursion, in the bytes of a queue and in the layout of a text, it does so with recursive
functions on numbers, and induction is over the set of numbers for which a statement holds.

## Not modelled

- *Driver*: CoreAnimation may undo a pause asked for inside its own callback
  (`AfterCallback`), which is what the code's confirmation from a later turn is
  for; anything else the display link does is to deliver updates while it runs
  and one that was queued before a pause. Left out are a failed borrow of the driver cell by a nested callback, a change of
  the window's lifecycle in the middle of one callback, a submission that Metal
  commits and rejects, and the Metal and AppKit objects.
- *Runtime*: scenes, viewport, counters that only a snapshot reads, worker spawn
  failure, poisoned locks, and dispatch while the application is borrowed (the
  event is then dropped). Items and bytes are counted in one step, and the
  document and workspace revisions are one.
- *Publication*: power failure (a file operation that returned is on disk), other
  programs writing the same files, the codec, leftover temporaries. A file
  needs one stage and one backup name, because `RecoveredIsWhole` shows that none
  is left when the next edit begins.
- *Recovery*: loading at startup, the codec, poisoned locks. A panic on the
  writer happens while it encodes and on the main thread between its steps; a
  panic inside a lock makes the flush time out, which `GiveUp` allows always.
- *Panels and settings*: carets, selections, scrolling, ranking, limits of memory
  and entries, the merge of settings layers, session restore. An overlay that
  only takes keys is closed within the step that opens it. A publication that edits
  the active file moves its buffer's revision (`lib.rs:7832`); the model's stays, and
  no property depends on it, since the panels are closed while an edit is open.
- *Language process*: byte budgets, helper threads that panic, a wait that fails
  because another reaped the child, the sampling of processes, and the timing of
  the escalation from a request to a kill, which is one step.
- *Language session*: framing and JSON, which are byte parsers; the mapping of
  edits to positions; navigation, symbols and workspace edits, which complete the
  way completion does. A text is the number of the edit that made it. The server's
  own requests appear where the replies to them find no room, and the events
  `InputWritten` and error output only as what may fill the queue.
- *Language pool*: the registry's table, discovery switched off, failed
  allocations. Idle time is a choice.
- *Rendering*: every glyph takes one row and a row is a cell, so packing, partial
  rows and glyphs without pixels are left out; how many patches a set of rows makes is a choice
  (`MaxPatches` are sure to fit). No new scene is made once none can be submitted
  (`MayBeDrawn`). Left out: initialization, pipelines, primitives and their
  validation, offscreen rendering and readback, byte counts and trims for underuse, recovery of
  a lost device, failures of accounting, and `with_row_patches`, which the program does not call.
- *Documents, tabs and panes*: one thread, one call at a time, and a test per
  operation; they are next in the plan. *Stall watchdog*: one
  atomic word and a sampling thread that only reports. *Text buffer, text layout but for its atlas, renderer,
  accessibility, tools*: values and codecs whose inputs a checker cannot
  enumerate usefully, or AppKit objects.
- The reasons per component are in `PROJECT.json`.

## Plan

1. *Done:* presentation state machine, slots, driver, runtime, publication,
   recovery journal; the rendering of frames; settings and panels composed with the worker pool; language
   process, session and pool; proofs of every safety property of all of these,
   and of the refinement of `ExternalResults`.
2. `Tabs` and `PaneTree` under arbitrary operation sequences, with reference
   definitions.
3. The backend that is lost and recreated, and its accounts.
