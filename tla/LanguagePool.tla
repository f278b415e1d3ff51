----------------------------- MODULE LanguagePool -----------------------------
(* The pool of language servers (apps/alpine-editor/src/language_services.rs): *)
(* a slot per workspace root and server, the thread that searches for          *)
(* executables, the eviction of the oldest slot, the idle slots that are       *)
(* reaped and the stops that drain.  The main thread syncs the pool after      *)
(* each event and polls it on a wake; the discovery thread and the supervisors *)
(* of stopping servers run beside it.                                          *)
(*                                                                             *)
(* A slot's session is only running or not (LanguageSession and                *)
(* LanguageProcess model it).  Idle time is a choice: an idle slot has or has  *)
(* not been idle for IDLE_TTL.  Discovery switched off, the fallback model     *)
(* that only tests give a server, and allocations that fail are left out.      *)
EXTENDS Integers, SequencesExt

CONSTANTS Paths,       \* files with a language that can be opened in tabs
          Server,      \* the server of each file's language
          Pinned,      \* servers whose path the environment pins
          MaxWarm,     \* MAX_WARM_SERVERS
          MaxDraining, \* MAX_DRAINING
          MaxSearches, \* bound: searches queued
          MaxSessions  \* bound: sessions started

\* Five warm servers: one that is not the shown document's can be evicted.
ASSUME LanguagePoolAssumption ==
    /\ MaxWarm \in Nat \ {0, 1} /\ MaxDraining \in Nat \ {0}
    /\ {MaxSearches, MaxSessions} \subseteq Nat /\ DOMAIN Server = Paths

VARIABLES
    pool,    \* LanguageServices, both channels, and the supervisors it stops
    thread,  \* the discovery thread
    latch,   \* LanguageWakeLatch
    editor   \* the file shown, whether a folder is open, and how far a call is
vars == <<pool, thread, latch, editor>>

NoFile == "none"
NoKey == <<>>

\* DISCOVERY_QUEUE, and the capacity of the results.
Queue == MaxWarm
Results == Queue + 1

\* The registry's root of the file and its server; the document that is shown
\* takes the open folder instead.
OwnKey(path) == <<path, Server[path]>>
ShownKey(path) == IF editor.folder THEN <<"folder", Server[path]>> ELSE OwnKey(path)

Needed == [at |-> "needed", token |-> 0, input |-> NoFile]
Pending(token, input) == [at |-> "pending", token |-> token, input |-> input]
Done == [at |-> "done", token |-> 0, input |-> NoFile]
NewSlot(key) == [key |-> key, attached |-> TRUE, discovery |-> Needed, own |-> TRUE,
                 found |-> FALSE, session |-> FALSE, target |-> NoFile]
Idle == [at |-> "idle", token |-> 0, key |-> NoKey]
Nobody == [Idle EXCEPT !.at = "none"]

Init ==
    /\ pool = [slots |-> <<>>, active |-> 0, used |-> <<>>, draining |-> {}, stops |-> 0,
               ending |-> {}, detached |-> {}, sessions |-> 0, token |-> 0, jobs |-> <<>>,
               results |-> <<>>]
    /\ thread = Nobody /\ latch = FALSE
    /\ editor \in [shown : {NoFile}, folder : BOOLEAN, turn : {"idle"}, start : {NoFile}, from : {1}]

Keys(p) == {slot.key : slot \in Range(p.slots)}
Find(p, key) == CHOOSE i \in DOMAIN p.slots : p.slots[i].key = key
Without(used, key) == RemoveAt(used, CHOOSE i \in DOMAIN used : used[i] = key)

(***************************************************************************)
(* Slots and stops                                                         *)
(***************************************************************************)

\* reap_draining: joins every stop that has finished.  Stops are numbered as
\* they begin, so the least is the oldest.
ReapDraining(p) == [p EXCEPT !.draining = @ \cap p.ending]

\* begin_stop and push_draining: beyond the bound the oldest stop is detached.
PushDraining(p) ==
    LET stop == p.stops + 1
        running == p.draining \cap p.ending
        oldest == IF Cardinality(running) >= MaxDraining THEN {Min(running)} ELSE {}
    IN [p EXCEPT !.stops = stop, !.ending = @ \cup {stop}, !.detached = @ \cup oldest,
                 !.draining = (running \ oldest) \cup {stop}]

\* cancel_discovery: the thread skips the slot's job if it has not begun it.
Waits(slot) == slot.discovery.at = "pending"
Cancelled(job, slot) ==
    [job EXCEPT !.cancel = @ \/ (Waits(slot) /\ slot.discovery.token = job.token)]
Cancel(p, slot) == [p EXCEPT !.jobs = [i \in DOMAIN @ |-> Cancelled(@[i], slot)]]

\* The slot leaves, its server's stop drains, and the active index follows.
Retire(p, i) ==
    LET slot == p.slots[i]
        q == [Cancel(p, slot) EXCEPT
                !.slots = RemoveAt(@, i), !.used = Without(@, slot.key),
                !.active = IF @ = i THEN 0 ELSE IF @ > i THEN @ - 1 ELSE @]
    IN IF slot.session THEN PushDraining(q) ELSE q

\* detach_unneeded: a slot is attached when a tab or the shown file needs it.
Kept(slot, needed) == [slot EXCEPT !.attached = slot.key \in needed]
Attach(p, needed) == [p EXCEPT !.slots = [i \in DOMAIN @ |-> Kept(@[i], needed)]]

\* evict_one: an unattached slot first, else the least recently used, and never
\* the shown document's.
Evictable(p) == {i \in DOMAIN p.slots : ~(p.slots[i].attached /\ p.active = i)}
Oldest(p) ==
    LET unattached == {i \in Evictable(p) : ~p.slots[i].attached}
        candidates == IF unattached # {} THEN unattached ELSE Evictable(p)
    IN CHOOSE i \in candidates :
          \E n \in DOMAIN p.used : /\ p.used[n] = p.slots[i].key
                                   /\ \A m \in 1 .. n - 1, j \in candidates : p.used[m] # p.slots[j].key

EnsureSlot(p, key) ==
    IF key \in Keys(p) THEN p
    ELSE LET q == IF Len(p.slots) = MaxWarm THEN Retire(p, Oldest(p)) ELSE p
         IN [q EXCEPT !.slots = Append(@, NewSlot(key))]

\* prepare_slot, and the slot becomes the shown document's.
Prepare(p, key) ==
    LET i == Find(p, key)
    IN [p EXCEPT !.active = i, !.slots[i].attached = TRUE, 
                 !.used = Append(IF key \in Range(@) THEN Without(@, key) ELSE @, key)]

(***************************************************************************)
(* Discovery                                                               *)
(***************************************************************************)

\* Mutant: an answer is given to the slot of its root and server, whoever asked.
MutantAsked(slot, result) == slot.key = result.key /\ Waits(slot)

Asked(slot, result) ==
    slot.key = result.key /\ Waits(slot) /\ slot.discovery.token = result.token

\* One answer, bound to the slot that asked for it or dropped.
Bound(slot, result) ==
    IF Asked(slot, result)
    THEN [slot EXCEPT !.discovery = Done, !.found = @ \/ result.found,
                      !.own = result.token = slot.discovery.token]
    ELSE slot
Bind(p, result) == [p EXCEPT !.slots = [i \in DOMAIN @ |-> Bound(@[i], result)]]

\* replace_discovery_worker: the slots whose search died with the thread ask again.
Asking(slot) == IF Waits(slot) THEN [slot EXCEPT !.discovery = Needed] ELSE slot
Replace(p) ==
    [p EXCEPT !.jobs = <<>>, !.results = <<>>, !.slots = [i \in DOMAIN @ |-> Asking(@[i])]]

\* The model's own sync: a session that runs takes the file; otherwise one is
\* started if there is a server, and may fail to start.
Synced(p, i, input) ==
    LET slot == p.slots[i]
        kept == [p EXCEPT !.slots[i].target = input]
        started == [kept EXCEPT !.slots[i].session = TRUE, !.sessions = @ + 1]
    IN {kept} \cup (IF slot.found /\ ~slot.session /\ p.sessions < MaxSessions
                    THEN {started} ELSE {})

(***************************************************************************)
(* The main thread                                                         *)
(***************************************************************************)

Free == editor.turn = "idle"

\* needed_keys: of every tab its own root, of the shown file the folder's.
NeededKeys(tabs, shown) ==
    {OwnKey(path) : path \in tabs \ {shown}} \cup (IF shown = NoFile THEN {} ELSE {ShownKey(shown)})

\* sync, after an event that may have changed the tabs or the file shown.  It
\* and poll begin alike; the discovery thread and the supervisors run between
\* their steps.
Sync ==
    /\ Free
    /\ pool' = ReapDraining(pool) /\ editor' = [editor EXCEPT !.turn = "sync"]
    /\ UNCHANGED <<thread, latch>>

\* poll, on a wake of the discovery thread's or of a session's.
Poll ==
    /\ Free /\ (latch \/ \E slot \in Range(pool.slots) : slot.session)
    /\ pool' = ReapDraining(pool) /\ editor' = [editor EXCEPT !.turn = "poll"]
    /\ latch' = FALSE
    /\ UNCHANGED thread

\* admit_discoveries, of one answer; poll remembers the file for which the
\* shown document's slot was waiting.
Admitting == editor.turn \in {"sync", "poll"}
Answers(result) == editor.turn = "poll" /\ pool.active # 0 /\ Asked(pool.slots[pool.active], result)
Admit ==
    /\ Admitting /\ pool.results # <<>>
    /\ LET result == Head(pool.results)
       IN /\ pool' = Bind([pool EXCEPT !.results = Tail(@)], result)
          /\ editor' = [editor EXCEPT !.start = IF Answers(result)
                            THEN pool.slots[pool.active].discovery.input ELSE @]
    /\ UNCHANGED <<thread, latch>>

\* No more answers, and perhaps the end of the channel.
Admitted ==
    /\ Admitting /\ pool.results = <<>>
    /\ pool' = IF thread.at = "dead" THEN Replace(pool) ELSE pool
    /\ thread' = IF thread.at = "dead" THEN Nobody ELSE thread
    /\ editor' = [editor EXCEPT !.turn = IF @ = "sync" THEN "expire" ELSE "start"]
    /\ UNCHANGED latch

\* reap_idle goes through the slots once; each detached one may have been idle
\* for long enough.
Reap ==
    /\ editor.turn \in {"expire", "reap"}
    /\ \E i \in editor.from .. Len(pool.slots) :
          /\ ~pool.slots[i].attached
          /\ pool' = Retire(pool, i) /\ editor' = [editor EXCEPT !.from = i]
    /\ UNCHANGED <<thread, latch>>

\* The rest of sync: the slot's search is asked for next.
Show ==
    /\ editor.turn = "expire"
    /\ \E shown \in Paths \cup {NoFile}, tabs \in SUBSET Paths :
          LET attached == Attach(pool, NeededKeys(tabs, shown))
          IN /\ pool' = IF shown = NoFile THEN [attached EXCEPT !.active = 0]
                        ELSE Prepare(EnsureSlot(attached, ShownKey(shown)), ShownKey(shown))
             /\ editor' = [editor EXCEPT !.shown = shown, !.from = 1,
                              !.turn = IF shown = NoFile THEN "idle" ELSE "discover"]
    /\ UNCHANGED <<thread, latch>>

Shown == pool.slots[pool.active]
EndSync == editor' = [editor EXCEPT !.turn = "idle"]

\* discover, of a slot that has its answer or whose server is pinned.
Start ==
    /\ editor.turn = "discover"
    /\ \/ Shown.discovery.at = "done" /\ pool' \in Synced(pool, pool.active, editor.shown)
       \/ /\ Shown.discovery.at = "needed" /\ Server[editor.shown] \in Pinned
          /\ pool' \in Synced([pool EXCEPT !.slots[pool.active] =
                                  [@ EXCEPT !.discovery = Done, !.found = TRUE]],
                              pool.active, editor.shown)
    /\ EndSync /\ UNCHANGED <<thread, latch>>

\* Mutant: a search under way keeps the file it was asked for.
MutantNewest(p) == p

\* A search under way takes the newest file.
Newest(p) == [p EXCEPT !.slots[p.active].discovery.input = editor.shown]

Wait ==
    /\ editor.turn = "discover" /\ Waits(Shown)
    /\ pool' = Newest(pool)
    /\ EndSync /\ UNCHANGED <<thread, latch>>

\* A search is queued, on a thread that is spawned if there is none.  A full
\* queue and a thread that cannot be spawned leave it to a later sync; a thread
\* found dead is replaced by that sync.
Ask ==
    /\ editor.turn = "discover" /\ Shown.discovery.at = "needed"
    /\ Server[editor.shown] \notin Pinned
    /\ LET token == pool.token + 1
           job == [token |-> token, key |-> Shown.key, cancel |-> FALSE]
       IN \/ /\ thread.at = "none"
             /\ UNCHANGED <<pool, thread>>
          \/ /\ thread.at = "dead"
             /\ pool' = Replace(pool) /\ thread' = Nobody
          \/ /\ thread.at # "dead" /\ Len(pool.jobs) = Queue
             /\ UNCHANGED <<pool, thread>>
          \/ /\ thread.at # "dead" /\ Len(pool.jobs) < Queue /\ token <= MaxSearches
             /\ pool' = [pool EXCEPT !.token = token, !.jobs = Append(@, job),
                            !.slots[pool.active].discovery = Pending(token, editor.shown)]
             /\ thread' = IF thread.at = "none" THEN Idle ELSE thread
    /\ EndSync /\ UNCHANGED latch

\* The rest of poll: the answered slot's server is started and every session
\* polled; some end for good.
PollSessions ==
    /\ editor.turn = "start"
    /\ \E started \in IF editor.start = NoFile THEN {pool} ELSE Synced(pool, pool.active, editor.start) :
       \E over \in SUBSET {i \in DOMAIN started.slots : started.slots[i].session} :
          pool' = [started EXCEPT !.slots = [i \in DOMAIN @ |->
                      IF i \in over THEN [@[i] EXCEPT !.session = FALSE] ELSE @[i]]]
    /\ editor' = [editor EXCEPT !.turn = "reap", !.start = NoFile]
    /\ UNCHANGED <<thread, latch>>

EndPoll ==
    /\ editor.turn = "reap"
    /\ editor' = [editor EXCEPT !.turn = "idle", !.from = 1]
    /\ UNCHANGED <<pool, thread, latch>>

\* shutdown: every stop is begun, all are waited for under one deadline, and
\* those that still run are detached.
Quit ==
    /\ Free
    /\ LET sessions == Cardinality({i \in DOMAIN pool.slots : pool.slots[i].session})
           begun == pool.stops + 1 .. pool.stops + sessions
           stops == pool.draining \cup begun
       IN \E late \in SUBSET (stops \cap (pool.ending \cup begun)) :
            pool' = [pool EXCEPT !.slots = <<>>, !.active = 0, !.used = <<>>, !.draining = {},
                        !.stops = @ + sessions, !.jobs = <<>>, !.results = <<>>,
                        !.ending = (@ \ stops) \cup late, !.detached = @ \cup late]
    /\ editor' = [editor EXCEPT !.turn = "quit"]
    /\ thread' = Nobody
    /\ UNCHANGED latch

(***************************************************************************)
(* The other threads                                                       *)
(***************************************************************************)

ThreadStep == UNCHANGED editor

TakeJob ==
    /\ thread.at = "idle" /\ pool.jobs # <<>>
    /\ pool' = [pool EXCEPT !.jobs = Tail(@)]
    /\ LET job == Head(pool.jobs)
       IN thread' = IF job.cancel THEN thread
                    ELSE [at |-> "probe", token |-> job.token, key |-> job.key]
    /\ ThreadStep /\ UNCHANGED latch

\* The search, and its answer sent; the send waits while the channel is full.
Probe ==
    /\ thread.at = "probe" /\ Len(pool.results) < Results
    /\ \E found \in BOOLEAN : pool' = [pool EXCEPT !.results = Append(@,
                   [token |-> thread.token, key |-> thread.key, found |-> found])]
    /\ thread' = [Idle EXCEPT !.at = "wake"]
    /\ ThreadStep /\ UNCHANGED latch

\* A probe that panics ends the thread and what was queued on it.
Die ==
    /\ thread.at = "probe"
    /\ thread' = [Idle EXCEPT !.at = "dead"] /\ pool' = [pool EXCEPT !.jobs = <<>>]
    /\ ThreadStep /\ UNCHANGED latch

Wake ==
    /\ thread.at = "wake"
    /\ thread' = Idle /\ latch' = TRUE
    /\ ThreadStep /\ UNCHANGED pool

SupervisorEnds ==
    /\ \E stop \in pool.ending : pool' = [pool EXCEPT !.ending = @ \ {stop}]
    /\ ThreadStep /\ UNCHANGED <<thread, latch>>

Next ==
    \/ Sync \/ Poll \/ Admit \/ Admitted \/ Reap \/ Show \/ PollSessions \/ EndPoll
    \/ Start \/ Wait \/ Ask \/ Quit
    \/ TakeJob \/ Probe \/ Die \/ Wake \/ SupervisorEnds

Spec == Init /\ [][Next]_vars

(***************************************************************************)
(* Properties                                                              *)
(***************************************************************************)

TypeOK ==
    /\ Len(pool.slots) <= MaxWarm /\ pool.active \in 0 .. Len(pool.slots)
    /\ IsInjective(pool.used) /\ Range(pool.used) = Keys(pool)
    /\ Cardinality(pool.draining) <= MaxDraining
    /\ Len(pool.jobs) <= Queue /\ Len(pool.results) <= Results
    /\ thread.at \in {"none", "idle", "probe", "wake", "dead"}
    /\ editor.turn \in {"idle", "sync", "poll", "expire", "start", "reap", "discover", "quit"}
    /\ editor.shown \in Paths \cup {NoFile}

\* The slot the pool calls active is the one of the file that is shown, however
\* many slots before it were evicted or reaped since; its session is on that
\* file also when an answer started it after the file had changed; and no
\* server that still runs after its stop began has been forgotten.
ShownIsServed ==
    /\ TypeOK
    /\ editor.turn # "quit" /\ editor.shown # NoFile =>
          /\ pool.active # 0 /\ Shown.key = ShownKey(editor.shown)
          /\ Shown.session /\ Free => Shown.target = editor.shown
    /\ pool.ending \subseteq pool.draining \cup pool.detached

SearchOf(token) ==
    Cardinality({i \in DOMAIN pool.jobs : pool.jobs[i].token = token /\ ~pool.jobs[i].cancel})
    + Cardinality({i \in DOMAIN pool.results : pool.results[i].token = token})
    + (IF thread.at = "probe" /\ thread.token = token THEN 1 ELSE 0)

\* A slot that waits for an answer has exactly one search under way, or the
\* thread has died and the next sync or poll finds out; a slot has the answer
\* to its own last question only, never one asked by a slot that was retired
\* or on a thread that was replaced; and no answer waits without a wake.
SearchesAreServed ==
    /\ \A slot \in Range(pool.slots) :
        /\ Waits(slot) =>
              \/ SearchOf(slot.discovery.token) = 1
              \/ thread.at = "dead" /\ SearchOf(slot.discovery.token) = 0
        /\ slot.discovery.at = "done" => slot.own
    /\ pool.results # <<>> => latch \/ Admitting \/ thread.at \in {"wake", "dead"}
===============================================================================
