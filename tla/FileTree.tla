------------------------------- MODULE FileTree -------------------------------
(* FileTreeState of apps/alpine-editor/src/file_tree.rs: the directories shown, *)
(* each with a generation and the state of its listing, and the one listing    *)
(* that is being read.  Directories are numbered in the order of their paths,  *)
(* 0 is the root, and Parent gives the tree that is on disk.  Files, rows,     *)
(* the selection, session restore and the cache limits are left out.           *)
EXTENDS Integers, FiniteSetsExt

CONSTANT Parent    \* [directory other than the root -> the one that contains it]

Dirs == {0} \union DOMAIN Parent
NoRequest == [directory |-> 0, request |-> 0]

Node(generation) == [generation |-> generation, expanded |-> TRUE, load |-> "dormant",
                     request |-> 0, listing |-> -1, root |-> 0]

\* FileTreeState::default, then prime_workspace_launch: visible, not focused.
Initial == [visible |-> TRUE, focused |-> FALSE, directoryGeneration |-> 1,
            requestGeneration |-> 0, pending |-> NoRequest, nodes |-> [d \in {0} |-> Node(1)]]

Above[d \in Dirs] == IF d = 0 THEN {} ELSE {Parent[d]} \union Above[Parent[d]]
Beneath(d) == {e \in Dirs : d \in Above[e]}

Open(s, d) == d \in DOMAIN s.nodes /\ s.nodes[d].expanded /\ s.nodes[d].load = "ready"

\* Directories with a row of their own.
Shown(s) == {d \in DOMAIN Parent : \A e \in Above[d] : Open(s, e)}

\* activate, of the same workspace
Activate(s) == [s EXCEPT !.visible = TRUE, !.focused = TRUE]
Unfocus(s) == [s EXCEPT !.focused = FALSE]

Of(s, id) == {d \in DOMAIN s.nodes : s.nodes[d].generation = id.directory}

\* cancel_pending: the directory can be asked for again.
Released(s) ==
    [s EXCEPT !.pending = NoRequest,
              !.nodes = [d \in DOMAIN @ |-> IF s.pending # NoRequest /\ d \in Of(s, s.pending)
                                            THEN [@[d] EXCEPT !.load = "dormant"] ELSE @[d]]]

Hide(s) == [Released(s) EXCEPT !.visible = FALSE, !.focused = FALSE]

\* toggle_directory: collapsing a directory forgets everything beneath it.
Toggle(s, d) ==
    IF d \notin DOMAIN s.nodes
    THEN [s EXCEPT !.directoryGeneration = @ + 1,
                   !.nodes = [e \in DOMAIN @ \union {d} |->
                                 IF e = d THEN Node(s.directoryGeneration + 1) ELSE @[e]]]
    ELSE IF s.nodes[d].expanded
    THEN [s EXCEPT !.nodes = [e \in DOMAIN @ \ Beneath(d) |->
                                 IF e = d THEN [@[e] EXCEPT !.expanded = FALSE] ELSE @[e]]]
    ELSE [s EXCEPT !.nodes[d].expanded = TRUE,
                   !.nodes[d].load = IF @ = "failed" THEN "dormant" ELSE @]

Dormant(s) == {d \in DOMAIN s.nodes : s.nodes[d].expanded /\ s.nodes[d].load = "dormant"}

Wants(s) == s.visible /\ s.pending = NoRequest /\ Dormant(s) # {}

Wanted(s) == Min(Dormant(s))

Request(s) == [directory |-> s.nodes[Wanted(s)].generation, request |-> s.requestGeneration + 1]

Taken(s) ==
    [s EXCEPT !.requestGeneration = @ + 1, !.pending = Request(s),
              !.nodes[Wanted(s)].load = "loading", !.nodes[Wanted(s)].request = s.requestGeneration + 1]

\* take_request undone by reject_submission: the number it used is given again
\* here, since nobody has seen it.
Rejected(s) == s

\* The identities of the answers waited for.
Pending(s) == {s.pending} \ {NoRequest}

\* The directory an answer belongs to, if it still has one.
Answered(s, id, d) ==
    {e \in Of(s, id) : e = d /\ s.nodes[e].load = "loading" /\ s.nodes[e].request = id.request}

Admissible(s, id, d) == s.visible /\ id \in Pending(s) /\ Answered(s, id, d) # {}

Admit(s, id, d, root, listed) ==
    IF ~Admissible(s, id, d) THEN s
    ELSE [s EXCEPT !.pending = NoRequest,
                   !.nodes[d].load = IF listed THEN "ready" ELSE "failed",
                   !.nodes[d].listing = IF listed THEN d ELSE @,
                   !.nodes[d].root = IF listed THEN root ELSE @]

\* The tree once the listing of its root has been admitted.
Loaded(root) == Admit(Taken(Initial), Request(Initial), 0, root, TRUE)
===============================================================================
