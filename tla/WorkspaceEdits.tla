---------------------------- MODULE WorkspaceEdits ----------------------------
(* WorkspaceEditPanel of apps/alpine-editor/src/rust_workspace_ui.rs: a rename *)
(* or a formatting that a language server answers is prepared on a worker,     *)
(* shown, and published on a worker.  An identity is the document and the      *)
(* workspace it was asked for; the preview's lines, the rename field and the   *)
(* language server's own state are left out.                                   *)
EXTENDS Integers

NoIdentity == [document |-> 0, root |-> 0]

Closed == [state |-> "closed", id |-> NoIdentity]
Initial == Closed

IsOpen(s) == s.state # "closed"
IsPublicationPending(s) == s.state \in {"queued", "publishing"}

\* wait: the language server has been asked about the document as it is.
Wait(s, document, root) == [state |-> "waiting", id |-> [document |-> document, root |-> root]]

\* Escape and the loss of focus
Cancel(s) == IF IsPublicationPending(s) THEN s ELSE Closed

\* preparation_started, for an answer that is still about the document
Answer(s) == [s EXCEPT !.state = "answered"]

\* queue_publication: the preview must still be about the document.
Queue(s, document, root) ==
    IF s.state # "preview" THEN s
    ELSE IF s.id = [document |-> document, root |-> root] THEN [s EXCEPT !.state = "queued"]
    ELSE Closed

Wants(s) == s.state \in {"answered", "queued"}

Request(s) == [work |-> IF s.state = "queued" THEN "publish" ELSE "prepare", of |-> s.id]

Taken(s) == [s EXCEPT !.state = IF @ = "queued" THEN "publishing" ELSE "preparing"]

\* preparation_failed and publication_failed, for a job the pool refused.
Rejected(s) == IF s.state = "queued" THEN [s EXCEPT !.state = "preview"] ELSE Closed

\* The identities of the answers waited for.
Pending(s) ==
    {[work |-> work, of |-> s.id] : work \in
        CASE s.state = "publishing" -> {"publish"} [] s.state = "preparing" -> {"prepare"} [] OTHER -> {}}

\* complete, and apply_workspace_edit_publication_output: an answer about
\* another document closes the panel, a failed publication returns to the
\* preview and a failed preparation closes it.
Admit(s, id, document, root, done) ==
    IF id \notin Pending(s) THEN s
    ELSE IF id.of # [document |-> document, root |-> root] THEN Closed
    ELSE IF id.work = "publish" THEN IF done THEN Closed ELSE [s EXCEPT !.state = "preview"]
    ELSE IF done THEN [s EXCEPT !.state = "preview"] ELSE Closed
===============================================================================
