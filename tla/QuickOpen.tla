------------------------------ MODULE QuickOpen ------------------------------
(* QuickOpenState of apps/alpine-editor/src/quick_open.rs: an inventory of the *)
(* workspace's files, kept while the panel is closed, and the answer to the    *)
(* query over it.  The editor gives every workspace the number 1, so that part *)
(* of an identity never differs and is left out, as are the caret, the         *)
(* selection; `failed` is the error an answer or a refusal leaves.              *)
EXTENDS Integers

NoText == ""
NoInventory == [generation |-> 0, root |-> 0]
NoQuery == [inventory |-> 0, query |-> 0]
NoResult == [id |-> NoQuery, root |-> 0, text |-> NoText]

Initial == [open |-> FALSE, query |-> NoText, inventoryGeneration |-> 0, queryGeneration |-> 0,
            inventory |-> NoInventory, result |-> NoResult,
            needsInventory |-> FALSE, needsQuery |-> FALSE,
            pendingInventory |-> 0, pendingQuery |-> NoQuery, failed |-> FALSE]

HasInventory(s) == s.inventory # NoInventory

BumpQuery(s) == [s EXCEPT !.queryGeneration = @ + 1, !.pendingQuery = NoQuery]

\* open, of a closed panel
Open(s) ==
    IF HasInventory(s) THEN [BumpQuery(s) EXCEPT !.open = TRUE, !.failed = FALSE, !.needsQuery = TRUE]
    ELSE [s EXCEPT !.open = TRUE, !.failed = FALSE, !.inventoryGeneration = @ + 1,
                   !.pendingInventory = 0, !.needsInventory = TRUE]

Close(s) ==
    IF s.open THEN [s EXCEPT !.open = FALSE, !.pendingInventory = 0, !.pendingQuery = NoQuery]
    ELSE s

\* apply_edit and query_changed
Type(s, text) ==
    IF text = s.query THEN s
    ELSE [BumpQuery(s) EXCEPT !.query = text, !.needsQuery = HasInventory(s),
                             !.result = NoResult, !.failed = FALSE]

Wants(s) == s.open /\ (s.needsInventory \/ (s.needsQuery /\ HasInventory(s)))

Request(s) ==
    IF s.needsInventory THEN [inventory |-> s.inventoryGeneration]
    ELSE [inventory |-> s.inventory.generation, query |-> s.queryGeneration]

Taken(s) ==
    IF s.needsInventory
    THEN [s EXCEPT !.needsInventory = FALSE, !.pendingInventory = s.inventoryGeneration]
    ELSE [s EXCEPT !.needsQuery = FALSE, !.pendingQuery = Request(s)]

\* take_request undone by reject_submission.
Rejected(s) ==
    IF s.needsInventory THEN [s EXCEPT !.pendingInventory = 0, !.failed = TRUE]
    ELSE [s EXCEPT !.pendingQuery = NoQuery, !.failed = TRUE]

OfInventory(id) == DOMAIN id = {"inventory"}

\* The identities of the answers waited for.
Pending(s) == ({s.pendingQuery} \ {NoQuery})
              \union {[inventory |-> n] : n \in {s.pendingInventory} \ {0}}

Admissible(s, id) ==
    /\ s.open /\ id \in Pending(s)
    /\ IF OfInventory(id) THEN id.inventory = s.inventoryGeneration
       ELSE id = [inventory |-> s.inventory.generation, query |-> s.queryGeneration]

AdmitInventory(s, id, root, listed) ==
    IF listed THEN [BumpQuery(s) EXCEPT !.pendingInventory = 0, !.needsQuery = TRUE,
                        !.inventory = [generation |-> id.inventory, root |-> root],
                        !.result = NoResult, !.failed = FALSE]
    ELSE [s EXCEPT !.pendingInventory = 0, !.failed = TRUE]

AdmitQuery(s, id, root, text, matched) ==
    [s EXCEPT !.pendingQuery = NoQuery, !.failed = ~matched,
              !.result = IF matched THEN [id |-> id, root |-> root, text |-> text] ELSE @]

Admit(s, id, root, text, done) ==
    IF ~Admissible(s, id) THEN s
    ELSE IF OfInventory(id) THEN AdmitInventory(s, id, root, done)
    ELSE AdmitQuery(s, id, root, text, done)
=============================================================================
