---------------------------- MODULE ProjectSearch ----------------------------
(* ProjectSearchState of apps/alpine-editor/src/project_search.rs: an          *)
(* inventory of the workspace taken when the panel is first used, then one     *)
(* batch of files after the other until the scan is terminal.  The worker      *)
(* looks at the shared `cancellation` word and stops when it no longer names   *)
(* its query.  The workspace number of the identities, always 1, the caret,    *)
(* the selected match, the truncation at a result limit and the counters are   *)
(* left out.                                                                   *)
EXTENDS Integers, Sequences

CONSTANT Batches   \* batches that scanning one inventory takes

NoText == ""
NoInventory == [generation |-> 0, root |-> 0]
NoSearch == [inventory |-> 0, query |-> 0, request |-> 0]
Cancelled == -1    \* u64::MAX: no query has this generation

Initial == [open |-> FALSE, query |-> NoText, inventoryGeneration |-> 0, queryGeneration |-> 0,
            requestGeneration |-> 0, inventory |-> NoInventory,
            needsInventory |-> FALSE, needsSearch |-> FALSE,
            pendingInventory |-> 0, pendingSearch |-> NoSearch,
            cursor |-> 0, terminal |-> FALSE, results |-> <<>>, cancellation |-> 0]

\* release_dynamic: everything but the generations.
Released(s) ==
    [Initial EXCEPT !.inventoryGeneration = s.inventoryGeneration,
                    !.queryGeneration = s.queryGeneration,
                    !.requestGeneration = s.requestGeneration, !.cancellation = Cancelled]

\* open, of a closed panel, and close
Open(s) == [Released(s) EXCEPT !.open = TRUE]
Close(s) == IF s.open THEN Released(s) ELSE s

\* replace_query
NeedsInventory(s, text) == s.inventory = NoInventory /\ text # NoText /\ s.pendingInventory = 0

Type(s, text) ==
    IF text = s.query THEN s
    ELSE LET generation == s.queryGeneration + 1
             asks == NeedsInventory(s, text)
         IN [s EXCEPT !.query = text, !.queryGeneration = generation,
                      !.cancellation = generation, !.pendingSearch = NoSearch,
                      !.cursor = 0, !.results = <<>>, !.terminal = (text = NoText),
                      !.needsSearch = s.inventory # NoInventory /\ text # NoText,
                      !.inventoryGeneration = IF asks THEN @ + 1 ELSE @,
                      !.needsInventory = @ \/ asks]

Wants(s) == s.open /\ s.query # NoText /\ (s.needsInventory \/ s.needsSearch)

Request(s) ==
    IF s.needsInventory THEN [inventory |-> s.inventoryGeneration]
    ELSE [inventory |-> s.inventory.generation, query |-> s.queryGeneration,
          request |-> s.requestGeneration + 1]

Taken(s) ==
    IF s.needsInventory
    THEN [s EXCEPT !.needsInventory = FALSE, !.pendingInventory = s.inventoryGeneration]
    ELSE [s EXCEPT !.needsSearch = FALSE, !.pendingSearch = Request(s),
                   !.requestGeneration = @ + 1, !.cursor = 0]

\* take_request, then reject_submission: a refused inventory is asked again, a
\* refused batch ends the search.
Rejected(s) ==
    IF s.needsInventory THEN [s EXCEPT !.pendingInventory = 0]
    ELSE [Taken(s) EXCEPT !.pendingSearch = NoSearch, !.terminal = TRUE]

OfInventory(id) == DOMAIN id = {"inventory"}

\* The identities of the answers waited for.
Pending(s) == ({s.pendingSearch} \ {NoSearch})
              \union {[inventory |-> n] : n \in {s.pendingInventory} \ {0}}

Admissible(s, id) ==
    /\ s.open /\ id \in Pending(s)
    /\ IF OfInventory(id) THEN id.inventory = s.inventoryGeneration
       ELSE id.inventory = s.inventory.generation /\ id.query = s.queryGeneration

\* What the worker can find in the shared word: a scan that saw it change is
\* cancelled, one that was over before it changed is not.
CanCancel(s, id) == ~OfInventory(id) /\ s.cancellation # id.query

AdmitInventory(s, id, root, listed) ==
    IF listed THEN [s EXCEPT !.pendingInventory = 0, !.needsSearch = s.query # NoText,
                             !.cursor = 0,
                             !.inventory = [generation |-> id.inventory, root |-> root]]
    ELSE [s EXCEPT !.pendingInventory = 0, !.terminal = TRUE]

\* append_batch and the cursor of the next one
AdmitBatch(s, batch) ==
    LET last == batch.number = Batches
    IN [s EXCEPT !.pendingSearch = NoSearch, !.results = Append(@, batch), !.terminal = last,
                 !.cursor = IF last THEN 0 ELSE batch.number, !.needsSearch = ~last]

\* outcome is "done", "failed" or "cancelled".
Admit(s, id, batch, outcome) ==
    IF ~Admissible(s, id) THEN s
    ELSE IF OfInventory(id) THEN AdmitInventory(s, id, batch.root, outcome = "done")
    ELSE CASE outcome = "done" -> AdmitBatch(s, batch)
           [] outcome = "failed" -> [s EXCEPT !.pendingSearch = NoSearch, !.terminal = TRUE]
           [] outcome = "cancelled" -> [s EXCEPT !.pendingSearch = NoSearch]
=============================================================================
