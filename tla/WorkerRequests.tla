---------------------------- MODULE WorkerRequests ----------------------------
(* The parts of the editor that ask the worker pool for something, composed    *)
(* with the events that make them ask and with the runtime that answers them   *)
(* (apps/alpine-editor/src/lib.rs): find in the document, quick open, project  *)
(* search, the file tree, the settings and the edits of a language server.     *)
(* The main thread handles one event at a time and ends each by submitting     *)
(* what is asked for; workers answer in any order, succeed or fail, and the    *)
(* runtime drops an answer whose document revision is no longer the            *)
(* foreground's (Runtime models that step with its channels and threads).      *)
(*                                                                             *)
(* An overlay that only takes keys, the palette or go to line, is closed again *)
(* within the step that opens it.  The runtime's workspace revision is left    *)
(* out because the editor never advances it.  A published edit of the file on  *)
(* screen moves the document's revision too, and does nothing else of what a   *)
(* change does (apply_persisted_workspace_edit); here the revision stays.  No  *)
(* property depends on it: no panel that shows answers is open then, and what  *)
(* waits without a panel loses its answer to a typed change in the same way.   *)
EXTENDS Integers, FiniteSetsExt

NoText == ""

CONSTANTS Texts,       \* queries that can be typed
          Batches,     \* batches of one project search
          Parent,      \* the directories on disk, see FileTree
          Capacity,    \* jobs the pool takes before it is saturated
          Together,    \* bound: panels used in one behavior
          MaxEvents    \* bound: events other than wakes

ASSUME WorkerRequestsAssumption ==
    /\ NoText \in Texts
    /\ {Batches, Capacity} \subseteq Nat \ {0} /\ {Together, MaxEvents} \subseteq Nat

VARIABLES
    editor,   \* EditorApp: the revisions and its six requesters
    jobs,     \* accepted by the pool and not answered
    lost,     \* history: answers thrown away that a requester still waits for
    used,     \* bound: the requesters that this behavior uses
    events    \* bound: events so far
vars == <<editor, jobs, lost, used, events>>

Find == INSTANCE FindRequests
Quick == INSTANCE QuickOpen
Search == INSTANCE ProjectSearch
Tree == INSTANCE FileTree
Settings == INSTANCE SettingsReload
Edits == INSTANCE WorkspaceEdits

\* The order in which finish_event submits.
Order == [edits |-> 1, find |-> 2, quick |-> 3, search |-> 4, tree |-> 5, settings |-> 6]
Requesters == DOMAIN Order

\* Settings and tree ask for something as the editor starts; a behavior that
\* uses neither starts when they have been answered.
Init ==
    /\ used \in {panels \in SUBSET Requesters : Cardinality(panels) <= Together}
    /\ editor = [revision |-> 1, root |-> 1, edits |-> Edits!Initial, find |-> Find!Initial,
                 quick |-> Quick!Initial, search |-> Search!Initial,
                 tree |-> IF "tree" \in used THEN Tree!Initial ELSE Tree!Loaded(1),
                 settings |-> IF "settings" \in used THEN Settings!Initial ELSE Settings!Loaded(1)]
    /\ jobs = {} /\ lost = {} /\ events = 0

(***************************************************************************)
(* Submitting                                                              *)
(***************************************************************************)

Wants(e, p) ==
    CASE p = "edits" -> Edits!Wants(e.edits)
      [] p = "find" -> Find!Wants(e.find)
      [] p = "quick" -> Quick!Wants(e.quick)
      [] p = "search" -> Search!Wants(e.search)
      [] p = "tree" -> Tree!Wants(e.tree)
      [] p = "settings" -> Settings!Wants(e.settings)

Request(e, p) ==
    CASE p = "edits" -> Edits!Request(e.edits)
      [] p = "find" -> Find!Request(e.find, e.revision)
      [] p = "quick" -> Quick!Request(e.quick)
      [] p = "search" -> Search!Request(e.search)
      [] p = "tree" -> Tree!Request(e.tree)
      [] p = "settings" -> Settings!Request(e.settings)

\* What the pool's yes and its no leave of a requester.
Taken(e, p) ==
    CASE p = "edits" -> Edits!Taken(e.edits)
      [] p = "find" -> Find!Taken(e.find, e.revision)
      [] p = "quick" -> Quick!Taken(e.quick)
      [] p = "search" -> Search!Taken(e.search)
      [] p = "tree" -> Tree!Taken(e.tree)
      [] p = "settings" -> Settings!Taken(e.settings)

Refused(e, p) ==
    CASE p = "edits" -> Edits!Rejected(e.edits)
      [] p = "find" -> Find!Deferred(e.find)
      [] p = "quick" -> Quick!Rejected(e.quick)
      [] p = "search" -> Search!Rejected(e.search)
      [] p = "tree" -> Tree!Rejected(e.tree)
      [] p = "settings" -> Settings!Deferred(e.settings)

\* What a job needs besides its identity: the directory it lists, or the
\* batch it scans.
Item(e, p) ==
    CASE p = "tree" -> Tree!Wanted(e.tree)
      [] p = "search" -> e.search.cursor + 1
      [] OTHER -> 0

Text(e, p) ==
    CASE p = "find" -> e.find.query
      [] p = "quick" -> e.quick.query
      [] p = "search" -> e.search.query
      [] OTHER -> NoText

\* spawn: the job carries the revision and a copy of what it works on.  A
\* batch reads the files beneath the root of now, whatever inventory it has.
Job(e, p) == [panel |-> p, id |-> Request(e, p), revision |-> e.revision,
              root |-> e.root, text |-> Text(e, p), item |-> Item(e, p)]

Pending(e, p) ==
    CASE p = "edits" -> Edits!Pending(e.edits)
      [] p = "find" -> Find!Pending(e.find)
      [] p = "quick" -> Quick!Pending(e.quick)
      [] p = "search" -> Search!Pending(e.search)
      [] p = "tree" -> Tree!Pending(e.tree)
      [] p = "settings" -> Settings!Pending(e.settings)

Waits(e, job) == job.id \in Pending(e, job.panel)

\* Who asks, and whom the pool takes when there is room for that many.
Asking(e, submitters) == {p \in submitters : Wants(e, p)}
Before(p, asking) == {q \in asking : Order[q] < Order[p]}
Accepted(asking, room) == {p \in asking : Cardinality(Before(p, asking)) < room}

Submit(e, pool, answers, accepted, refused) ==
    /\ editor' = [f \in DOMAIN e |-> IF f \in accepted THEN Taken(e, f)
                                     ELSE IF f \in refused THEN Refused(e, f) ELSE e[f]]
    /\ jobs' = pool \union {Job(e, p) : p \in accepted}
    /\ lost' = {job \in answers : Waits(editor', job)}

\* The end of a turn: `e` is what its handler left.  Those of `submitters` that
\* want something ask in turn, and the pool takes as many as it has room for.
Finish(e, pool, answers, submitters) ==
    \E asking \in {Asking(e, submitters)} :
    \E accepted \in {Accepted(asking, Capacity - Cardinality(pool))} :
        Submit(e, pool, answers, accepted, asking \ accepted)

\* finish_event: a find without a query is answered on the spot.
FinishEvent(e) == Finish([e EXCEPT !.find = IF Find!Wants(@) THEN @ ELSE Find!Unwanted(@)],
                         jobs, lost, Requesters)

Event(e) ==
    /\ events < MaxEvents /\ events' = events + 1
    /\ FinishEvent(e) /\ UNCHANGED used

\* Any event that changes nothing here, the runtime's own wake among them.
Wake == UNCHANGED <<used, events>> /\ FinishEvent(editor)

(***************************************************************************)
(* The document, the tabs and the workspace                                *)
(***************************************************************************)

\* Keys reach the requester that is open: edits, search, quick open, find,
\* then the focused tree, then the text.
EditsClosed == ~Edits!IsOpen(editor.edits)
NoModal == EditsClosed /\ ~editor.quick.open /\ ~editor.search.open
InText == NoModal /\ ~editor.find.open

\* The overlays closed when another one opens.
Dismissed(e) == [e EXCEPT !.find = Find!Dismiss(@), !.quick = Quick!Close(@), !.search = Search!Close(@)]

\* finish_event, for a change of the text: find starts again, the revision
\* moves and the runtime hears of it before anything is submitted.
TextChanged(e) == [e EXCEPT !.find = Find!DocumentChanged(@), !.revision = @ + 1]

TypeText == InText /\ ~editor.tree.focused /\ Event(TextChanged(editor))

ReplaceMatch ==
    /\ NoModal /\ editor.find.open /\ Find!Shown(editor.find, editor.revision)
    /\ Event(TextChanged(editor))

\* Another file, by the menu while anything is open: apply_document_view.
SwitchDocument == Event([Dismissed(editor) EXCEPT !.revision = @ + 1])

\* open_workspace_root: the tree starts again and the settings are asked for,
\* but the revision stays, and quick open and project search are not told.
SwitchWorkspace ==
    /\ editor.root = 1
    /\ Event([editor EXCEPT !.root = 2, !.find = Find!Dismiss(@), !.tree = Tree!Initial,
                            !.settings = Settings!Requested(@)])

(***************************************************************************)
(* The requesters' own events                                              *)
(***************************************************************************)

OpenFind == "find" \in used /\ NoModal /\ Event([editor EXCEPT !.find = Find!Open(@)])

TypeFind(text) == NoModal /\ editor.find.open /\ Event([editor EXCEPT !.find = Find!Type(@, text)])

CloseFind == NoModal /\ editor.find.open /\ Event([editor EXCEPT !.find = Find!Close(@)])

\* open_quick_open_from_key
OpenQuick ==
    /\ "quick" \in used /\ NoModal
    /\ Event([Dismissed(editor) EXCEPT !.quick = Quick!Open(@)])

InQuick == EditsClosed /\ editor.quick.open
TypeQuick(text) == InQuick /\ Event([editor EXCEPT !.quick = Quick!Type(@, text)])
CloseQuick == InQuick /\ Event([editor EXCEPT !.quick = Quick!Close(@)])

\* open_project_search, over an open quick open too
OpenSearch ==
    /\ "search" \in used /\ EditsClosed /\ ~editor.search.open
    /\ Event([Dismissed(editor) EXCEPT !.search = Search!Open(@), !.tree = Tree!Unfocus(@)])

InSearch == EditsClosed /\ editor.search.open
TypeSearch(text) == InSearch /\ Event([editor EXCEPT !.search = Search!Type(@, text)])
CloseSearch == InSearch /\ Event([editor EXCEPT !.search = Search!Close(@)])

\* toggle_file_tree, over an open quick open too
ToggleTree ==
    /\ "tree" \in used /\ EditsClosed /\ ~editor.search.open
    /\ Event([Dismissed(editor) EXCEPT
                 !.tree = IF @.visible /\ @.focused THEN Tree!Hide(@) ELSE Tree!Activate(@)])

\* A row of the tree is clicked: an open find bar closes first.
InSidebar ==
    /\ "tree" \in used /\ editor.tree.visible /\ ~editor.quick.open /\ ~editor.search.open
    /\ ~Edits!IsPublicationPending(editor.edits)

ToggleDirectory(d) ==
    /\ InSidebar /\ d \in Tree!Shown(editor.tree)
    /\ Event([editor EXCEPT !.find = IF @.open THEN Find!Close(@) ELSE @, !.tree = Tree!Toggle(@, d)])

\* Escape in the tree, or a click in the text
LeaveTree == editor.tree.focused /\ InText /\ Event([editor EXCEPT !.tree = Tree!Unfocus(@)])

\* "Preferences: Reload Settings", from the palette, which closes the rest
ReloadSettings ==
    /\ "settings" \in used /\ EditsClosed
    /\ Event([Dismissed(editor) EXCEPT !.tree = Tree!Unfocus(@), !.settings = Settings!Requested(@)])

\* A rename or a formatting, and the answer of the language server to it.
RequestEdit ==
    /\ "edits" \in used /\ InText
    /\ Event([editor EXCEPT !.edits = Edits!Wait(@, editor.revision, editor.root)])

AnswerEdit ==
    /\ editor.edits.state = "waiting"
    /\ editor.edits.id = [document |-> editor.revision, root |-> editor.root]
    /\ Event([editor EXCEPT !.edits = Edits!Answer(@)])

ApplyEdit ==
    /\ editor.edits.state = "preview"
    /\ Event([editor EXCEPT !.edits = Edits!Queue(@, editor.revision, editor.root)])

CancelEdit ==
    /\ ~EditsClosed /\ ~Edits!IsPublicationPending(editor.edits)
    /\ Event([editor EXCEPT !.edits = Edits!Cancel(@)])

(***************************************************************************)
(* Answers                                                                 *)
(***************************************************************************)

Outcomes(job) ==
    {"done", "failed"} \union
    (IF job.panel = "search" /\ Search!CanCancel(editor.search, job.id) THEN {"cancelled"} ELSE {})

Admitted(e, job, outcome) ==
    LET done == outcome = "done"
    IN CASE job.panel = "edits" ->
              [e EXCEPT !.edits = Edits!Admit(@, job.id, e.revision, e.root, done)]
         [] job.panel = "find" ->
              [e EXCEPT !.find = Find!Admit(@, job.id, job.text, e.revision, done)]
         [] job.panel = "quick" ->
              [e EXCEPT !.quick = Quick!Admit(@, job.id, job.root, job.text, done)]
         [] job.panel = "search" ->
              [e EXCEPT !.search = Search!Admit(@, job.id,
                  [root |-> job.root, text |-> job.text, number |-> job.item], outcome)]
         [] job.panel = "tree" ->
              [e EXCEPT !.tree = Tree!Admit(@, job.id, job.item, job.root, done)]
         [] job.panel = "settings" ->
              [e EXCEPT !.settings = Settings!Admit(@, job.id, job.root, done)]

\* FileTreeState::admit calls the listing of a directory that was folded away
\* stale, and goes on waiting for it.
Ignored(e, job) == job.panel = "tree" /\ Waits(e, job)

\* dispatch_worker_result submits again, for all but find.
WithoutFind == Requesters \ {"find"}

Deliver(job) ==
    /\ job.revision = editor.revision /\ UNCHANGED <<used, events>>
    /\ \E outcome \in Outcomes(job) :
          Finish(Admitted(editor, job, outcome), jobs \ {job},
                 lost \union {j \in {job} : Ignored(Admitted(editor, j, outcome), j)}, WithoutFind)

\* drain_worker_results: an answer about another revision goes no further.
Drop(job) ==
    /\ job.revision # editor.revision
    /\ jobs' = jobs \ {job}
    /\ lost' = lost \union {j \in {job} : Waits(editor, j)}
    /\ UNCHANGED <<editor, used, events>>

Next ==
    \/ TypeText \/ ReplaceMatch \/ SwitchDocument \/ SwitchWorkspace
    \/ OpenFind \/ CloseFind \/ OpenQuick \/ CloseQuick \/ OpenSearch \/ CloseSearch
    \/ \E text \in Texts : TypeFind(text) \/ TypeQuick(text) \/ TypeSearch(text)
    \/ ToggleTree \/ LeaveTree \/ \E d \in DOMAIN Parent : ToggleDirectory(d)
    \/ ReloadSettings
    \/ RequestEdit \/ AnswerEdit \/ ApplyEdit \/ CancelEdit
    \/ \E job \in jobs : Deliver(job) \/ Drop(job)
    \/ Wake

Spec == Init /\ [][Next]_vars

\* A worker always finishes its job, and every answer wakes the main thread.
Fairness == WF_vars(\E job \in jobs : Deliver(job) \/ Drop(job)) /\ WF_vars(Wake)

FairSpec == Spec /\ Fairness

(***************************************************************************)
(* Properties                                                              *)
(***************************************************************************)

TypeOK ==
    /\ editor.revision \in 1 .. MaxEvents + 1 /\ editor.root \in 1 .. 2
    /\ Cardinality(jobs) <= Capacity /\ \A job \in jobs \union lost : job.panel \in Requesters
    /\ used \subseteq Requesters /\ events \in 0 .. MaxEvents

\* What is shown answers the question on screen, however late the answers came
\* and whatever was typed or closed meanwhile: the matches in the document and
\* the files for the present query, the batches of the present search once
\* each and in order, and in each directory its own listing.
PanelsShowQuery ==
    /\ TypeOK
    /\ Find!Shown(editor.find, editor.revision) => editor.find.result.text = editor.find.query
    /\ LET quick == editor.quick
       IN quick.result # Quick!NoResult =>
             quick.result.text = quick.query /\ quick.result.id.inventory = quick.inventory.generation
    /\ LET results == editor.search.results
       IN \A n \in DOMAIN results : results[n].number = n /\ results[n].text = editor.search.query
    /\ \A d \in DOMAIN editor.tree.nodes :
          editor.tree.nodes[d].load = "ready" => editor.tree.nodes[d].listing = d

\* Requesters whose wait a change of the document does not end.
Bystanders == {"edits", "tree", "settings"}

Serves(job, p, id) ==
    /\ job.panel = p /\ job.id = id
    /\ p \in Bystanders \/ job.revision = editor.revision

\* No requester waits for an answer that nobody will give.  What find, quick
\* open and project search wait for is a job of the present revision, which
\* cannot be dropped: the changes that would have it dropped close the panel
\* or ask again.  The others are served, or their answer is known to be lost:
\* the runtime threw it away without telling the requester.
EveryWaitIsServed ==
    \A p \in Requesters : \A id \in Pending(editor, p) :
        \E job \in jobs \union (IF p \in Bystanders THEN lost ELSE {}) : Serves(job, p, id)

Asks(p) == Wants(editor, p) \/ Pending(editor, p) # {}

\* A question on screen that has no answer yet is being asked, by an open find
\* bar, quick open with an inventory, or project search, unless an error is
\* shown; and settings that nobody loads are loaded as last requested, or have
\* been said to be wrong.
NothingForgotten ==
    /\ LET find == editor.find
       IN find.open /\ find.query # Find!NoText /\ ~find.failed /\ find.result = Find!NoResult => Asks("find") \/ find.needs
    /\ LET quick == editor.quick
       IN quick.open /\ Quick!HasInventory(quick) /\ ~quick.failed /\ quick.result = Quick!NoResult
             => Asks("quick")
    /\ LET search == editor.search
       IN search.open /\ search.query # Search!NoText /\ ~search.terminal => Asks("search")
    /\ ~Asks("settings") => editor.settings.reported = editor.settings.requested

\* Once the user stops, every question is answered: no requester asks or waits
\* for ever, except for an answer that was thrown away.
QuestionsEnd ==
    <>[](\A p \in Requesters : ~Wants(editor, p) /\ \A id \in Pending(editor, p) :
            \E job \in lost : job.panel = p /\ job.id = id)
=============================================================================
