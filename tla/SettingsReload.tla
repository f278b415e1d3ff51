---------------------------- MODULE SettingsReload ----------------------------
(* SettingsReload of apps/alpine-editor/src/settings/loader.rs as operators on *)
(* its fields: at most one load is in flight, a request made meanwhile waits,  *)
(* and a load that is not the newest requested one is not admitted.  Counters   *)
(* and announcements are left out; the merge of the layers is one value.       *)
EXTENDS Integers

\* `layers` stands for SettingsState: the load in force, by its generation and
\* the workspace whose layers it merged (0: the compiled defaults); `reported`
\* is the newest load whose outcome, good or bad, was told to the user.
Initial == [requested |-> 1, submitted |-> 0, pending |-> TRUE, inFlight |-> FALSE,
            reported |-> 0, layers |-> [generation |-> 0, root |-> 0]]

\* request, and replace_project for a workspace with another path.
Requested(s) == [s EXCEPT !.requested = @ + 1, !.pending = TRUE]

Wants(s) == s.pending /\ ~s.inFlight

Request(s) == [generation |-> s.requested]

Taken(s) == [s EXCEPT !.pending = FALSE, !.inFlight = TRUE, !.submitted = s.requested]

\* A refusal by the pool that forgets what was refused.
MutantDeferred(s) == [Taken(s) EXCEPT !.inFlight = FALSE]

\* take_request undone by defer_submission: the pool is saturated.
Deferred(s) == [Taken(s) EXCEPT !.pending = TRUE, !.inFlight = FALSE]

\* The identities of the answers waited for.
Pending(s) == IF s.inFlight THEN {[generation |-> s.submitted]} ELSE {}

\* completion_is_current
Current(s, id) == id \in Pending(s) /\ id.generation = s.requested

\* Mutant: an answer that is no longer current is ignored altogether.
MutantAdmit(s, id, root, loaded) ==
    IF ~Current(s, id) THEN s
    ELSE [s EXCEPT !.inFlight = FALSE, !.reported = id.generation,
                   !.layers = IF loaded THEN [generation |-> id.generation, root |-> root] ELSE @]

Admit(s, id, root, loaded) ==
    IF id \notin Pending(s) THEN s
    ELSE [s EXCEPT !.inFlight = FALSE,
                   !.reported = IF Current(s, id) THEN id.generation ELSE @,
                   !.layers = IF Current(s, id) /\ loaded
                              THEN [generation |-> id.generation, root |-> root] ELSE @]

\* The settings once the load of the start has been admitted.
Loaded(root) == Admit(Taken(Initial), [generation |-> 1], root, TRUE)

===============================================================================
