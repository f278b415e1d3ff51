------------------------------- MODULE Recovery -------------------------------
(* The dirty-buffer journal (apps/alpine-editor/src/recovery.rs) and the panic *)
(* hook that flushes it (crash.rs): the main thread publishes snapshots, a     *)
(* writer thread puts the newest on disk, and after a panic the hook, on the   *)
(* thread that panicked, writes the newest snapshot itself before the process  *)
(* aborts.  Each atomic load or store and each critical section is one step.   *)
(*                                                                             *)
(* A snapshot is a member of Requests and the journal file always holds a      *)
(* whole one, because it is replaced by a rename.  Generations, failed writes  *)
(* and snapshots are bounded by MaxGeneration, MaxFailures and Requests.       *)
EXTENDS Integers
CONSTANTS Requests, MaxGeneration, MaxFailures, None

ASSUME RequestsAssumption == None \notin Requests
ASSUME BoundsAssumption == MaxGeneration \in Nat /\ MaxFailures \in Nat

VARIABLES
    shared,   \* Shared: identity, latest, last_error and the two generations
    signal,   \* the one-token channel to the writer, and whether it is open
    main,     \* the publishing thread: where it is, what it publishes, what returned
    writer,   \* the writer thread and the snapshot it took
    hook,     \* the panic hook: who panicked, its flush and the answer; unread is
              \* a history: the answer did not read the error of the last write
    lock,     \* who holds Shared::write
    saved,     \* the journal file
    failures
journalVars == <<shared, signal, main, writer, hook, lock, saved, failures>>

Snapshots == [generation : 1..MaxGeneration, request : Requests]
Empty == [generation |-> 0, request |-> None]
Threads == {"main", "writer", "other"}

JournalInit ==
    /\ shared = [identity |-> None, latest |-> Empty, failed |-> FALSE,
                 published |-> 0, completed |-> 0]
    /\ signal = [full |-> FALSE, open |-> TRUE]
    /\ main = [pc |-> "idle", snapshot |-> Empty, acknowledged |-> 0]
    /\ writer = [pc |-> "waiting", snapshot |-> Empty, failed |-> FALSE]
    /\ hook = [pc |-> "armed", panicked |-> None, snapshot |-> Empty,
               published |-> 0, acknowledged |-> 0, answer |-> "none",
               unread |-> FALSE]
    /\ lock = "free"
    /\ saved = Empty
    /\ failures = 0

\* The hook runs on the thread that panicked, which does nothing else again.
Runs(thread) == hook.panicked # thread

(***************************************************************************)
(* The main thread                                                         *)
(***************************************************************************)

MainAt(pc) == Runs("main") /\ main.pc = pc
Publishing == main.pc \in {"counting", "storing", "signalling"}

\* publish: a snapshot equal to the last one published is answered at once.
Deduplicate(request) ==
    /\ MainAt("idle") /\ shared.identity = request
    /\ main' = [main EXCEPT !.pc = "status", !.acknowledged = shared.published]
    /\ UNCHANGED <<shared, signal, writer, hook, lock, saved, failures>>

Identify(request) ==
    /\ MainAt("idle") /\ shared.identity # request /\ shared.published < MaxGeneration
    /\ shared' = [shared EXCEPT !.identity = request]
    /\ main' = [main EXCEPT !.pc = "counting", !.snapshot.request = request]
    /\ UNCHANGED <<signal, writer, hook, lock, saved, failures>>

Count ==
    /\ MainAt("counting")
    /\ shared' = [shared EXCEPT !.published = @ + 1]
    /\ main' = [main EXCEPT !.pc = "storing", !.snapshot.generation = shared.published + 1]
    /\ UNCHANGED <<signal, writer, hook, lock, saved, failures>>

Store ==
    /\ MainAt("storing")
    /\ shared' = [shared EXCEPT !.latest = main.snapshot]
    /\ main' = [main EXCEPT !.pc = "signalling"]
    /\ UNCHANGED <<signal, writer, hook, lock, saved, failures>>

\* try_send: a token that is still in the channel serves this snapshot too.
SignalWriter ==
    /\ MainAt("signalling")
    /\ signal' = [signal EXCEPT !.full = TRUE]
    /\ main' = [main EXCEPT !.pc = "status", !.acknowledged = main.snapshot.generation]
    /\ UNCHANGED <<shared, writer, hook, lock, saved, failures>>

\* publish_recovery reads the status, and so holds last_error for a moment.
ReadStatus ==
    /\ MainAt("status")
    /\ main' = [main EXCEPT !.pc = "idle"]
    /\ UNCHANGED <<shared, signal, writer, hook, lock, saved, failures>>

BeginShutdown ==
    /\ MainAt("idle")
    /\ signal' = [signal EXCEPT !.open = FALSE]
    /\ main' = [main EXCEPT !.pc = "joining"]
    /\ UNCHANGED <<shared, writer, hook, lock, saved, failures>>

JoinWriter ==
    /\ MainAt("joining") /\ writer.pc = "ended"
    /\ main' = [main EXCEPT !.pc = "stopped"]
    /\ UNCHANGED <<shared, signal, writer, hook, lock, saved, failures>>

(***************************************************************************)
(* The journal file                                                        *)
(***************************************************************************)

Newer(snapshot) == snapshot.generation > shared.completed

\* encode and write_journal: the file is replaced whole or not at all, and a
\* failure to sync the directory is reported after the replacement.
WriteJournal(snapshot, failed) ==
    /\ failed => failures < MaxFailures
    /\ failures' = IF failed THEN failures + 1 ELSE failures
    /\ saved' \in IF failed THEN {saved, snapshot} ELSE {snapshot}

Completed(generation) == IF generation > shared.completed THEN generation ELSE shared.completed

(***************************************************************************)
(* The writer thread                                                       *)
(***************************************************************************)

WriterAt(pc) == Runs("writer") /\ writer.pc = pc

Receive ==
    /\ WriterAt("waiting") /\ signal.full
    /\ signal' = [signal EXCEPT !.full = FALSE]
    /\ writer' = [writer EXCEPT !.pc = "reading"]
    /\ UNCHANGED <<shared, main, hook, lock, saved, failures>>

\* Mutant: the writer stops at the close and leaves the last token.
MutantEndsAtClose == ~signal.open

\* recv fails once the channel is closed and its token has been taken.
EndsReceiving == ~signal.open /\ ~signal.full

EndWriter ==
    /\ WriterAt("waiting") /\ EndsReceiving
    /\ writer' = [writer EXCEPT !.pc = "ended"]
    /\ UNCHANGED <<shared, signal, main, hook, lock, saved, failures>>

ReadLatest ==
    /\ WriterAt("reading")
    /\ writer' = IF Newer(shared.latest)
                 THEN [pc |-> "encoding", snapshot |-> shared.latest, failed |-> FALSE]
                 ELSE [pc |-> "waiting", snapshot |-> Empty, failed |-> FALSE]
    /\ UNCHANGED <<shared, signal, main, hook, lock, saved, failures>>

\* Mutant: the writer does not look again after it has the lock.
MutantWritesAnyway(snapshot) == snapshot.generation > 0

\* "A flush may have written this generation, or a newer one, meanwhile."
StillUnwritten(snapshot) == Newer(snapshot)

LockJournal ==
    /\ WriterAt("encoding") /\ lock = "free"
    /\ lock' = "writer"
    /\ writer' = [writer EXCEPT
            !.pc = IF StillUnwritten(writer.snapshot) THEN "writing" ELSE "clearing"]
    /\ UNCHANGED <<shared, signal, main, hook, saved, failures>>

Write(failed) ==
    /\ WriterAt("writing")
    /\ WriteJournal(writer.snapshot, failed)
    /\ writer' = [writer EXCEPT !.pc = "recording", !.failed = failed]
    /\ UNCHANGED <<shared, signal, main, hook, lock>>

RecordError ==
    /\ WriterAt("recording")
    /\ shared' = [shared EXCEPT !.failed = writer.failed]
    /\ writer' = [writer EXCEPT !.pc = IF writer.failed THEN "forgetting" ELSE "completing"]
    /\ UNCHANGED <<signal, main, hook, lock, saved, failures>>

\* Mutant: the identity survives the failure.
MutantRemembers == shared.identity

\* A failed snapshot may be published again: its identity is forgotten.
AfterFailure == None

Forget ==
    /\ WriterAt("forgetting")
    /\ shared' = [shared EXCEPT !.identity = AfterFailure]
    /\ writer' = [writer EXCEPT !.pc = "completing"]
    /\ UNCHANGED <<signal, main, hook, lock, saved, failures>>

Complete ==
    /\ WriterAt("completing")
    /\ shared' = [shared EXCEPT !.completed = Completed(writer.snapshot.generation)]
    /\ writer' = [writer EXCEPT !.pc = "clearing"]
    /\ UNCHANGED <<signal, main, hook, lock, saved, failures>>

\* Mutant: whatever is stored is dropped, also what came meanwhile.
MutantDropsAll(generation) == generation > 0

\* The snapshot is dropped unless a newer one has taken its place.
Superseded(generation) == shared.latest.generation <= generation

Clear ==
    /\ WriterAt("clearing")
    /\ shared' = [shared EXCEPT
            !.latest = IF Superseded(writer.snapshot.generation) THEN Empty ELSE @]
    /\ lock' = "free"
    /\ writer' = [writer EXCEPT !.pc = "reading"]
    /\ UNCHANGED <<signal, main, hook, saved, failures>>

(***************************************************************************)
(* The panic hook                                                          *)
(***************************************************************************)

HookAt(pc) == hook.pc = pc
Answered(answer) == [hook EXCEPT !.pc = "answered", !.answer = answer]

\* The writer panics while it encodes, the main thread between its steps.
Panic(thread) ==
    /\ HookAt("armed") /\ main.pc # "stopped"
    /\ thread = "writer" => writer.pc = "encoding"
    /\ hook' = [hook EXCEPT !.pc = "loading", !.panicked = thread]
    /\ UNCHANGED <<shared, signal, main, writer, lock, saved, failures>>

LoadPublished ==
    /\ HookAt("loading")
    /\ hook' = [hook EXCEPT !.pc = "comparing", !.published = shared.published,
                            !.acknowledged = main.acknowledged]
    /\ UNCHANGED <<shared, signal, main, writer, lock, saved, failures>>

CompareCompleted ==
    /\ HookAt("comparing")
    /\ hook' = [hook EXCEPT
            !.pc = IF shared.completed >= hook.published THEN "judging" ELSE "trying"]
    /\ UNCHANGED <<shared, signal, main, writer, lock, saved, failures>>

\* Mutant: a completed generation is taken for a durable one.
MutantTrustsCompletion == "durable"

\* "A failed write completes its generation too."
Judgement == IF shared.failed THEN "failed" ELSE "durable"

\* Who holds last_error: a reader of the status, at a publication or at the end
\* of shutdown, and the writer that records how its write went.
ErrorBusy == MainAt("status") \/ MainAt("stopped") \/ WriterAt("recording")

\* The error is not waited for: when its lock is busy it counts as none.
Judge ==
    /\ HookAt("judging")
    /\ \/ hook' = Answered(Judgement)
       \/ ErrorBusy /\ hook' = [Answered("durable") EXCEPT !.unread = TRUE]
    /\ UNCHANGED <<shared, signal, main, writer, lock, saved, failures>>

TakeLatest ==
    /\ HookAt("trying")
    /\ IF lock = "free" /\ Newer(shared.latest)
       THEN /\ lock' = "hook"
            /\ hook' = [hook EXCEPT !.pc = "writing", !.snapshot = shared.latest]
       ELSE /\ hook' = [hook EXCEPT !.pc = "loading"]
            /\ UNCHANGED lock
    /\ UNCHANGED <<shared, signal, main, writer, saved, failures>>

\* A lock stayed busy, or the snapshot was counted and not stored, for the bound.
GiveUp ==
    /\ HookAt("trying")
    /\ hook' = Answered("timed out")
    /\ UNCHANGED <<shared, signal, main, writer, lock, saved, failures>>

FlushWrite(failed) ==
    /\ HookAt("writing")
    /\ WriteJournal(hook.snapshot, failed)
    /\ IF failed
       THEN lock' = "free" /\ hook' = Answered("failed")
       ELSE UNCHANGED lock /\ hook' = [hook EXCEPT !.pc = "completing"]
    /\ UNCHANGED <<shared, signal, main, writer>>

FlushComplete ==
    /\ HookAt("completing")
    /\ shared' = [shared EXCEPT !.completed = Completed(hook.snapshot.generation)]
    /\ lock' = "free"
    /\ hook' = Answered("written")
    /\ UNCHANGED <<signal, main, writer, saved, failures>>

(***************************************************************************)
(* The specification                                                       *)
(***************************************************************************)

Publish == Count \/ Store \/ SignalWriter \/ ReadStatus \/ JoinWriter
Journal ==
    \/ Receive \/ EndWriter \/ ReadLatest \/ LockJournal
    \/ \E failed \in BOOLEAN : Write(failed)
    \/ RecordError \/ Forget \/ Complete \/ Clear
Flush ==
    \/ LoadPublished \/ CompareCompleted \/ Judge \/ TakeLatest \/ GiveUp
    \/ \E failed \in BOOLEAN : FlushWrite(failed)
    \/ FlushComplete

JournalNext ==
    \/ \E request \in Requests : Deduplicate(request) \/ Identify(request)
    \/ BeginShutdown \/ Publish \/ Journal \/ Flush
    \/ \E thread \in Threads : Panic(thread)

JournalSpec == JournalInit /\ [][JournalNext]_journalVars

\* A publication in progress, the writer and the hook are running threads.
FairJournalSpec == JournalSpec /\ WF_journalVars(Publish) /\ WF_journalVars(Journal) /\ WF_journalVars(Flush)

(***************************************************************************)
(* Properties                                                              *)
(***************************************************************************)

\* The state has its type.
JournalTypeOK ==
    /\ shared \in [identity : Requests \cup {None}, latest : Snapshots \cup {Empty},
                   failed : BOOLEAN, published : 0..MaxGeneration,
                   completed : 0..MaxGeneration]
    /\ signal \in [full : BOOLEAN, open : BOOLEAN]
    /\ main.acknowledged \in 0..shared.published
    /\ main.pc \in {"idle", "counting", "storing", "signalling", "status", "joining", "stopped"}
    /\ writer.snapshot \in Snapshots \cup {Empty}
    /\ writer.pc \in {"waiting", "reading", "encoding", "writing", "recording",
                      "forgetting", "completing", "clearing", "ended"}
    /\ hook.panicked \in Threads \cup {None}
    /\ hook.snapshot \in Snapshots \cup {Empty} /\ hook.unread \in BOOLEAN
    /\ lock = "writer" <=> writer.pc \in {"writing", "recording", "forgetting",
                                          "completing", "clearing"}
    /\ lock = "hook" <=> hook.pc \in {"writing", "completing"}
    /\ saved \in Snapshots \cup {Empty}

\* Whoever writes, the journal on disk only moves forward, although the writer
\* took its snapshot before the hook wrote a later one; a flush that failed is
\* the exception: its snapshot may be in place without being counted.
JournalMovesForward == [][saved'.generation >= saved.generation \/ hook.answer = "failed"]_journalVars

\* A deduplicated publication loses nothing: while the main thread is at rest,
\* the snapshot it would be spared from storing is on disk or still pending.
DedupeIsSafe ==
    /\ JournalTypeOK
    /\ main.pc = "idle" /\ shared.identity # None =>
        \/ saved = [generation |-> shared.published, request |-> shared.identity]
        \/ /\ shared.latest = [generation |-> shared.published, request |-> shared.identity]
           /\ Newer(shared.latest)

\* What the crash log says of the journal is so: after "already durable" or
\* "flushed" every snapshot whose publication had returned before the flush
\* looked is on disk, or a newer one is.  The exception: the lock of the last
\* error was busy, so that "already durable" was said without reading it.  The
\* comment on FlushOutcome::Durable, "Everything published had already reached
\* disk", makes no such exception, and may then be false of a failed write.
CrashLogIsTrue ==
    hook.answer \in {"durable", "written"} => saved.generation >= hook.acknowledged \/ hook.unread

\* Shutdown writes what was published: once the writer has been joined, the
\* newest snapshot is on disk or the failure to write it has been recorded.
ShutdownDrains ==
    main.pc = "stopped" =>
        /\ shared.completed = shared.published
        /\ saved.generation = shared.published \/ shared.failed

\* No wake of the writer is lost: every published generation is completed unless
\* a panic intervenes.
PublishedIsCompleted ==
    \A g \in 1..MaxGeneration :
        main.acknowledged = g ~> (shared.completed >= g \/ hook.panicked # None)

===============================================================================
