----------------------------- MODULE FindRequests -----------------------------
(* FindState of apps/alpine-editor/src/find.rs, with the editor's flag         *)
(* find_needs_search: one search of the open document at a time, identified by *)
(* the document's revision and the query's generation.  The revision of the    *)
(* buffer moves with the document's and is not repeated; fields, carets,       *)
(* composition and the active match are left out; `failed` is the status that  *)
(* an error leaves.                                                            *)
EXTENDS Integers

NoText == ""
NoIdentity == [document |-> 0, generation |-> 0]
NoResult == [id |-> NoIdentity, text |-> NoText]

Initial == [open |-> FALSE, query |-> NoText, generation |-> 0, needs |-> FALSE,
            pending |-> NoIdentity, result |-> NoResult, failed |-> FALSE]

\* EditorCommand::OpenFind and OpenReplace, on an open bar too.
Open(s) == [s EXCEPT !.open = TRUE, !.needs = @ \/ s.query # NoText]

\* Closing keeps waiting for the search under way.
MutantClose(s) == [s EXCEPT !.open = FALSE, !.result = NoResult, !.failed = FALSE]

\* The bar alone is closed by Escape; whatever closes it on the way to
\* something else clears the flag as well.
Close(s) == [s EXCEPT !.open = FALSE, !.pending = NoIdentity, !.result = NoResult, !.failed = FALSE]
Dismiss(s) == [Close(s) EXCEPT !.needs = FALSE]

\* Typing over a query keeps what was found for it.
MutantType(s, text) == [s EXCEPT !.query = text, !.needs = TRUE]

\* apply_edit, of the query field.
Type(s, text) ==
    IF text = s.query THEN s
    ELSE [s EXCEPT !.query = text, !.generation = @ + 1, !.needs = TRUE,
                   !.pending = NoIdentity, !.result = NoResult, !.failed = FALSE]

\* document_changed
DocumentChanged(s) ==
    LET cleared == [s EXCEPT !.pending = NoIdentity, !.result = NoResult]
    IN IF s.open /\ s.query # NoText
       THEN [cleared EXCEPT !.generation = @ + 1, !.needs = TRUE] ELSE cleared

Wants(s) == s.needs /\ s.open /\ s.query # NoText

Request(s, revision) == [document |-> revision, generation |-> s.generation]

Taken(s, revision) == 
    [s EXCEPT !.needs = FALSE, !.pending = Request(s, revision), !.failed = FALSE]

\* request and defer_submission, which the editor answers by asking again.
Deferred(s) == [s EXCEPT !.pending = NoIdentity, !.failed = FALSE]

\* prepare_find_request when there is nothing to search for.
Unwanted(s) ==
    IF s.needs THEN [s EXCEPT !.needs = FALSE, !.pending = NoIdentity, !.result = NoResult] ELSE s

\* The identities of the answers waited for.
Pending(s) == {s.pending} \ {NoIdentity}

Admissible(s, id, revision) ==
    id \in Pending(s) /\ id = [document |-> revision, generation |-> s.generation]

Admit(s, id, text, revision, found) ==
    IF ~Admissible(s, id, revision) THEN s
    ELSE [s EXCEPT !.pending = NoIdentity, !.failed = ~found,
                   !.result = IF found THEN [id |-> id, text |-> text] ELSE NoResult]

\* active_range: matches of another revision or generation are not used.
Shown(s, revision) == s.result # NoResult /\ s.result.id = Request(s, revision)
===============================================================================
