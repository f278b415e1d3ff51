----------------------------- MODULE FrameRendering -----------------------------
(***************************************************************************)
(* Frames on their way to the screen: the editor lays out a scene and      *)
(* publishes the glyph atlas (GlyphAtlas), the driver leases a frame slot  *)
(* (FrameSlots), the Metal backend uploads what its atlas buffer lacks,    *)
(* commits a command, and learns of its end from a completion handler that *)
(* runs on another thread (crates/alpine-metal/src/native.rs and           *)
(* platform_spi.rs).                                                       *)
(*                                                                         *)
(* Actors: the main thread (scenes, submission, polling, pressure), the    *)
(* GPU, which executes commands in the order of their commits and reads    *)
(* the buffers then, and the completion handlers.  The backend takes any   *)
(* number of frames up to its slots, although the driver commits one.      *)
(* Bytes, textures, pipelines and accounting of resources are left out.    *)
(***************************************************************************)
EXTENDS FrameSlots, GlyphAtlas

CONSTANTS
    MaxGlyphs,      \* glyphs of one scene
    MaxRevision,    \* bound on changes of the atlas
    MaxFailures,    \* bound on commands the GPU fails
    Nothing         \* no scene, command, buffer or terminal

(* PendingDrawable: the lease it was given, its number within the slot and *)
(* among all frames.                                                       *)
Command == [lease : Lease, sequence : Nat, number : Nat]

End == {"Completed", "Failed", "Lost"}

(* The second conjunct: an atlas that may grow no further holds a scene.   *)
ASSUME FramesAssumption ==
    /\ MaxGlyphs \in Nat \ {0} /\ MaxRevision \in Nat /\ MaxFailures \in Nat
    /\ \A n \in 1..MaxRows : 2 * n > MaxRows => MaxGlyphs <= n
    /\ 1 \in Generations
    /\ Nothing \notin Command /\ Nothing \notin End /\ Nothing \notin Nat

VARIABLES
    atlas,      \* the editor's GlyphAtlas
    image,      \* published_atlas
    scene,      \* the newest scene offered: its glyphs and its image
    cache,      \* GlyphAtlasCache: the image its buffer will hold, and the buffer
    slots,      \* PresentationSlots: command, its number, signal, pressure
    encoded,    \* by slot, its upload and staging buffers, and the buffer, the
                \* rows and the glyphs of its command
    backend,    \* BackendState, submitted_frames and atlas_pressure_pending
    buffers,    \* contents of the GPU's atlas buffers
    queue,      \* slots of the commands committed and not executed, in order
    handlers,   \* completion handlers the GPU has called and that have not run
    failed,     \* numbers of the frames the GPU failed (history)
    wrong       \* for each frame that completed and was drawn wrong, the frames
                \* that were pending at its commit (history)

editor == <<atlas, image, scene>>
gpu == <<buffers, queue, handlers, failed, wrong>>
leases == <<ring, granted, closed>>
presentation == <<slots, encoded>>
frameVars == <<editor, leases, cache, presentation, backend, gpu>>

NewSlot ==
    [pending |-> Nothing, sequence |-> 0, signal |-> [sequence |-> 0, terminal |-> Nothing],
     pressed |-> FALSE]

NothingEncoded ==
    [upload |-> {}, staging |-> <<>>, buffer |-> Nothing, rows |-> <<>>, wanted |-> {},
     after |-> {}]

Empty == [image |-> NoImage, buffer |-> Nothing]

FramesInit ==
    /\ Init
    /\ atlas = NewAtlas /\ image = NoImage /\ scene = Nothing
    /\ cache = Empty
    /\ slots = [i \in Slots |-> NewSlot]
    /\ encoded = [i \in Slots |-> NothingEncoded]
    /\ backend = [state |-> "Ready", submitted |-> 0, pressure |-> FALSE]
    /\ buffers = <<>> /\ queue = <<>> /\ handlers = {} /\ failed = {} /\ wrong = {}

Pending(s) == {i \in Slots : s[i].pending # Nothing}

(* A new buffer. *)
Allocated(b, k, rows) == [j \in DOMAIN b \union {k} |-> IF j = k THEN rows ELSE b[j]]

(* The buffers something still holds. *)
Held(b, c, e) ==
    [k \in DOMAIN b \intersect ({c.buffer} \union {e[i].buffer : i \in Slots}) |-> b[k]]

Texts == UNION {{t \in [1..n -> Glyphs] : IsInjective(t)} : n \in 0..MaxGlyphs}

---------------------------------------------------------------------------
(* The editor. *)

(* Bound: no scene is made that cannot be submitted any more. *)
MayBeDrawn == backend.state = "Ready" /\ ring.sequence < MaxSequence

(* try_scene: lay the text out, publish the atlas, offer the scene.  A     *)
(* scene without glyphs carries no image.  Laying out may fail, leaving    *)
(* the atlas changed and unpublished; so may building the scene, leaving   *)
(* the atlas published.                                                    *)
MakeScene(text) ==
    LET c == Collect(atlas, text)
    IN  /\ MayBeDrawn /\ text # <<>> /\ c.atlas.revision <= MaxRevision
        /\ atlas' = Acknowledged(c.atlas, image)
        /\ image' \in Published(c.atlas, image)
        /\ scene' \in {scene, [placed |-> c.placed, image |-> image']}
        /\ UNCHANGED <<leases, cache, presentation, backend, gpu>>

MakeSceneWithoutGlyphs ==
    /\ MayBeDrawn
    /\ scene' = [placed |-> {}, image |-> NoImage]
    /\ UNCHANGED <<atlas, image, leases, cache, presentation, backend, gpu>>

SceneFails(text) ==
    /\ MayBeDrawn
    /\ atlas' = Collect(atlas, text).atlas
    /\ atlas'.revision <= MaxRevision
    /\ UNCHANGED <<image, scene, leases, cache, presentation, backend, gpu>>

---------------------------------------------------------------------------
(* GlyphAtlasCache::prepare. *)

(* Rows to copy, each once, and their bytes in the staging buffer.  Their  *)
(* order there does not matter.                                            *)
Rows(f) ==
    LET rows == SetToSeq(DOMAIN f)
    IN  [rows |-> rows, data |-> [i \in DOMAIN rows |-> f[rows[i]]]]

Nowhere == Rows(<<>>)

Reusable(img) ==
    cache.image # NoImage /\ cache.image.revision = img.revision
      /\ cache.image.base = img.base

Patchable(img) ==
    /\ cache.image # NoImage
    /\ cache.image.base = img.base
    /\ cache.image.revision < img.revision
    /\ Len(cache.image.pixels) = Len(img.pixels)
    /\ img.patches # <<>>

(* The last delta when the buffer holds the image it starts from, else all *)
(* that has changed since the base.                                        *)
Patches(img) == IF cache.image.revision = img.source THEN img.delta ELSE img.patches

(* The buffer a command reads, the upload it starts with, and the cache to *)
(* commit with it; `fresh' names a buffer that would be allocated.         *)
Prepared(img, fresh) ==
    CASE img = NoImage /\ cache.buffer # Nothing ->
            [buffer |-> cache.buffer, upload |-> Nowhere, cache |-> cache]
      [] img = NoImage /\ cache.buffer = Nothing ->
            [buffer |-> fresh, upload |-> Nowhere,
             cache |-> [image |-> NoImage, buffer |-> fresh]]
      [] img # NoImage /\ Reusable(img) ->
            [buffer |-> cache.buffer, upload |-> Nowhere, cache |-> cache]
      [] img # NoImage /\ ~Reusable(img) /\ Patchable(img) ->
            [buffer |-> cache.buffer, upload |-> Rows(Patches(img)),
             cache |-> [cache EXCEPT !.image = img]]
      [] OTHER ->
            [buffer |-> fresh, upload |-> Rows(Content(img)),
             cache |-> [image |-> img, buffer |-> fresh]]

---------------------------------------------------------------------------
(* submit_pending and submit_callback_drawable. *)

(* Every attempt has a token of its own. *)
Fresh(t) == t = Cardinality(granted) + 1

(* All slots leased: the driver counts it and draws nothing. *)
Saturated(t) ==
    /\ scene # Nothing /\ CanAcquire(ring, t) /\ IsSaturated(ring)
    /\ ring.saturations < MaxSaturations
    /\ ring' = Acquire(ring, t, 1)
    /\ UNCHANGED <<granted, closed, editor, cache, presentation, backend, gpu>>

Leased(t, l) ==
    /\ scene # Nothing /\ CanAcquire(ring, t) /\ ~IsSaturated(ring)
    /\ l = NextLease(ring, t, 1)
    /\ granted' = granted \union {l}

Withdrawn(t, l) ==
    /\ ring' = CancelEncoding(Acquire(ring, t, 1), l)
    /\ closed' = closed \union {l}

(* Refused before anything was prepared: the backend is not ready, or the  *)
(* drawable does not fit the frame.                                        *)
RefusedEarly(t) ==
    \E l \in Lease :
        /\ Leased(t, l)
        /\ Withdrawn(t, l)
        /\ UNCHANGED <<editor, cache, presentation, backend, gpu>>

(* The slot's buffers as written for a command: the staged rows, if any,   *)
(* and the instances.                                                      *)
Written(e, upload) ==
    [e EXCEPT !.staging = IF upload.data = <<>> THEN @ ELSE upload.data,
              !.upload = scene.placed]

(* Refused after preparation: the slot's buffers are written, and nothing  *)
(* else is left behind but the binding that a scene without glyphs         *)
(* allocates.                                                              *)
RefusedLate(t) ==
    \E l \in Lease :
        /\ Leased(t, l)
        /\ Withdrawn(t, l)
        /\ backend.state = "Ready"
        /\ slots[l.slot].pending = Nothing
        /\ LET p == Prepared(scene.image, l.sequence)
           IN  /\ encoded' = [encoded EXCEPT ![l.slot] = Written(@, p.upload)]
               /\ cache' = IF scene.image = NoImage THEN p.cache ELSE cache
               /\ buffers' = IF cache' # cache THEN Allocated(buffers, l.sequence, <<>>) ELSE buffers
        /\ UNCHANGED <<editor, slots, backend, queue, handlers, failed, wrong>>

(* Mutant: the number of a frame leaves out the frames in flight. *)
MutantNumber == backend.submitted + 1

Number == backend.submitted + Cardinality(Pending(slots)) + 1

(* What the command in a slot reads and is to draw, and (history) the      *)
(* frames that were pending before it.                                     *)
Encode(i, p) ==
    [encoded EXCEPT ![i] =
        [Written(@, p.upload) EXCEPT
            !.buffer = p.buffer, !.rows = p.upload.rows,
            !.wanted = {e.glyph : e \in scene.placed},
            !.after = {slots[j].pending.number : j \in Pending(slots)}]]

(* The command takes the slot's next number, and the signal waits for it.  *)
Admitted(slot, l) ==
    [slot EXCEPT !.pending = [lease |-> l, sequence |-> slot.sequence + 1, number |-> Number],
                 !.sequence = @ + 1,
                 !.signal.sequence = slot.sequence + 1]

Commits(t) ==
    \E l \in Lease :
        /\ Leased(t, l)
        /\ ring' = MarkSubmitted(Acquire(ring, t, 1), l)
        /\ backend.state = "Ready"
        /\ slots[l.slot].pending = Nothing /\ slots[l.slot].signal.terminal = Nothing
        /\ slots' = [slots EXCEPT ![l.slot] = Admitted(@, l)]
        /\ queue' = Append(queue, l.slot)
        /\ LET p == Prepared(scene.image, l.sequence)
               all == IF p.buffer \in DOMAIN buffers THEN buffers
                      ELSE Allocated(buffers, p.buffer, [r \in 1..Len(p.upload.rows) |-> Blank])
           IN  /\ encoded' = Encode(l.slot, p)
               /\ cache' = p.cache
               /\ buffers' = Held(all, cache', encoded')
        /\ UNCHANGED <<closed, editor, backend, handlers, failed, wrong>>

---------------------------------------------------------------------------
(* The GPU and the completion handlers. *)

(* The buffer after the rows staged for the command in slot i are copied.  *)
Copied(i) ==
    LET e == encoded[i]
        b == buffers[e.buffer]
    IN  [r \in DOMAIN b |->
            IF \E k \in DOMAIN e.rows : e.rows[k] = r
            THEN e.staging[CHOOSE k \in DOMAIN e.rows : e.rows[k] = r]
            ELSE b[r]]

Drawn(i) == {<<e.glyph, Copied(i)[e.row]>> : e \in encoded[i].upload}

Finishes(i, end) ==
    /\ queue # <<>> /\ i = Head(queue)
    /\ queue' = Tail(queue)
    /\ handlers' = handlers \union
                     {[slot |-> i, sequence |-> slots[i].pending.sequence, end |-> end]}
    /\ UNCHANGED <<editor, leases, cache, presentation, backend>>

Completes(i) ==
    /\ Finishes(i, "Completed")
    /\ buffers' = [buffers EXCEPT ![encoded[i].buffer] = Copied(i)]
    /\ wrong' = IF Drawn(i) = {<<g, g>> : g \in encoded[i].wanted} THEN wrong
                ELSE wrong \union {encoded[i].after}
    /\ UNCHANGED failed

(* A command that fails may or may not have copied its rows. *)
Fails(i) ==
    /\ Cardinality(failed) < MaxFailures
    /\ \E end \in {"Failed", "Lost"} : Finishes(i, end)
    /\ buffers' \in {buffers, [buffers EXCEPT ![encoded[i].buffer] = Copied(i)]}
    /\ failed' = failed \union {slots[i].pending.number}
    /\ UNCHANGED wrong

(* CompletionSignal::publish. *)
Publishes(h) ==
    /\ handlers' = handlers \ {h}
    /\ slots' = IF /\ slots[h.slot].signal.sequence = h.sequence
                   /\ slots[h.slot].signal.terminal = Nothing
                THEN [slots EXCEPT ![h.slot].signal.terminal = h.end]
                ELSE slots
    /\ UNCHANGED <<editor, leases, cache, encoded, backend, buffers, queue, failed, wrong>>

---------------------------------------------------------------------------
(* poll_active_command and poll_drawable. *)

Trimmed(e) == [e EXCEPT !.upload = {}, !.staging = <<>>]

(* Mutant: a failed command leaves the cache as its commit made it. *)
MutantAfterEnd(end, s) ==
    IF backend.pressure /\ Pending(s) = {} THEN Empty ELSE cache

(* The cache after a command has ended: a failed one may not have copied   *)
(* the rows its commit recorded, and pressure was put off until now.       *)
AfterEnd(end, s) ==
    IF end # "Completed" \/ (backend.pressure /\ Pending(s) = {}) THEN Empty ELSE cache

(* The slot once its command has been taken. *)
Emptied(slot) ==
    [slot EXCEPT !.pending = Nothing, !.signal.terminal = Nothing, !.pressed = FALSE]

(* observe_terminal: a slot under pressure frees its buffers; the command  *)
(* releases what it read.                                                  *)
Observed(e, pressed) ==
    LET done == [e EXCEPT !.buffer = Nothing, !.rows = <<>>, !.wanted = {}, !.after = {}]
    IN  IF pressed THEN Trimmed(done) ELSE done

Polls(l) ==
    LET i == l.slot
        end == slots[i].signal.terminal
    IN  /\ slots[i].pending # Nothing /\ slots[i].pending.lease = l
        /\ slots[i].signal.sequence = slots[i].pending.sequence /\ end # Nothing
        /\ slots' = [slots EXCEPT ![i] = Emptied(@)]
        /\ encoded' = [encoded EXCEPT ![i] = Observed(@, slots[i].pressed)]
        /\ cache' = AfterEnd(end, slots')
        /\ backend' =
               [state |-> IF end = "Lost" THEN "DeviceLost" ELSE backend.state,
                submitted |-> backend.submitted + 1,
                pressure |-> backend.pressure /\ Pending(slots') # {}]
        /\ CanComplete(ring, l)
        /\ ring' = Complete(ring, l, IF end = "Completed" THEN "Completed" ELSE "Failed")
        /\ closed' = closed \union {l}
        /\ buffers' = Held(buffers, cache', encoded')
        /\ UNCHANGED <<granted, editor, queue, handlers, failed, wrong>>

(* A submission that has ended is polled again: the backend answers with   *)
(* an error, which poll_active_command takes for a failed command.         *)
PollsAgain(l) ==
    /\ ~(slots[l.slot].pending # Nothing /\ slots[l.slot].pending.lease = l)
    /\ ring' = IF CanComplete(ring, l) THEN Complete(ring, l, "Failed") ELSE ring
    /\ UNCHANGED <<granted, closed, editor, cache, presentation, backend, gpu>>

(* release_presentation_uploads_on_pressure: buffers a command reads stay  *)
(* until it has ended.                                                     *)
Pressure ==
    /\ slots' = [i \in Slots |-> [slots[i] EXCEPT !.pressed = slots[i].pending # Nothing]]
    /\ encoded' = [i \in Slots |-> IF slots[i].pending = Nothing THEN Trimmed(encoded[i])
                                   ELSE encoded[i]]
    /\ IF Pending(slots) = {}
       THEN cache' = Empty /\ UNCHANGED backend
       ELSE backend' = [backend EXCEPT !.pressure = TRUE] /\ UNCHANGED cache
    /\ buffers' = Held(buffers, cache', encoded')
    /\ UNCHANGED <<leases, editor, queue, handlers, failed, wrong>>

(* MetalBackend::shutdown, once drained. *)
Shutdown ==
    /\ Pending(slots) = {} /\ backend.state # "Stopped"
    /\ backend' = [backend EXCEPT !.state = "Stopped"]
    /\ UNCHANGED <<leases, editor, cache, presentation, gpu>>

FramesNext ==
    \/ \E text \in Texts : MakeScene(text) \/ SceneFails(text)
    \/ MakeSceneWithoutGlyphs
    \/ \E t \in Tokens : Fresh(t) /\ (Saturated(t) \/ RefusedEarly(t) \/ RefusedLate(t) \/ Commits(t))
    \/ \E i \in Slots : Completes(i) \/ Fails(i)
    \/ \E h \in handlers : Publishes(h)
    \/ \E l \in granted : Polls(l)
    \/ \E l \in closed : PollsAgain(l)
    \/ Pressure
    \/ Shutdown

FramesSpec == FramesInit /\ [][FramesNext]_frameVars

---------------------------------------------------------------------------
(* Every command that completed drew each glyph of its scene, and nothing  *)
(* else, from that glyph's pixels.  The cache records at commit what the   *)
(* command is to copy, so a frame committed behind one that then fails may *)
(* reuse rows never copied: only such a frame is excused.                  *)
GlyphsAreRight == \A after \in wrong : after \intersect failed # {}

(* A slot holds a command exactly while its lease is submitted, and it is  *)
(* the command of that lease.                                              *)
SlotsFollowLeases ==
    \A i \in Slots :
        /\ (slots[i].pending # Nothing) <=> (ring.phase[i] = "Submitted")
        /\ slots[i].pending # Nothing => slots[i].pending.lease = ring.lease[i]

Queued(i) == \E k \in DOMAIN queue : queue[k] = i
Handled(i) == \E h \in handlers : h.slot = i
Signalled(i) == slots[i].signal.terminal # Nothing

(* The end of a pending command is in exactly one place: to come from the  *)
(* GPU, with a handler, or in the slot's signal.  No other frame's is.     *)
OneEndEach ==
    /\ \A i \in Slots :
           /\ slots[i].pending # Nothing <=> (Queued(i) \/ Handled(i) \/ Signalled(i))
           /\ ~(Queued(i) /\ Handled(i)) /\ ~(Queued(i) /\ Signalled(i))
           /\ ~(Handled(i) /\ Signalled(i))
           /\ slots[i].pending # Nothing =>
                  slots[i].signal.sequence = slots[i].pending.sequence
    /\ \A h \in handlers : h.sequence = slots[h.slot].signal.sequence
    /\ \A g, h \in handlers : g.slot = h.slot => g = h

(* Frames are numbered in the order of their commits. *)
NumbersAscend ==
    \A j, k \in DOMAIN queue :
        j < k => slots[queue[j]].pending.number < slots[queue[k]].pending.number

(* Pressure is put off only while a frame is pending. *)
PressureHasCause ==
    /\ \A i \in Slots : slots[i].pressed => slots[i].pending # Nothing
    /\ backend.pressure => Pending(slots) # {}

(* Slots, leases, signals and handlers speak of the same frames, whatever  *)
(* order the handlers, the polls and the commits of other frames come in.  *)
FramesAreOwned ==
    SlotsFollowLeases /\ OneEndEach /\ NumbersAscend /\ PressureHasCause
===============================================================================
