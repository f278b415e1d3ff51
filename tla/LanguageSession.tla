---------------------------- MODULE LanguageSession ----------------------------
(* What the editor knows of the open document's analysis, and what a language  *)
(* server knows of the document (apps/alpine-editor/src/rust_diagnostics.rs,   *)
(* lsp_client.rs, lsp_json.rs): a session starts a server, opens the document, *)
(* sends each change, asks for completions, follows a switch to another        *)
(* document, and starts the server again when it ends or breaks the protocol.  *)
(* Completion stands for the other requests, which are handled alike.          *)
(*                                                                             *)
(* LanguageProcess models the supervisor.  Here its epochs are folded away: a  *)
(* restart drops at once what the old server sends and is sent.  What is left  *)
(* is whether the supervisor still reads what it is sent, and the event queue, *)
(* which other events may have filled.  The server is external: it answers and *)
(* publishes at any time, numbers its diagnostics, and may exit or break the   *)
(* protocol; several of its messages may share a packet.                       *)
(*                                                                             *)
(* A text is the number of the edit that made it; Length tells texts of        *)
(* different length apart, which matters to a change applied to another text   *)
(* than it was computed for.                                                   *)
EXTENDS Integers, SequencesExt

CONSTANTS Documents,        \* paths of one workspace
          First,            \* the one a session starts with
          ControlCapacity, EventCapacity,
          PacketSize,       \* bound: messages of one packet
          MaxRestarts,      \* MAX_RESTARTS_PER_DOCUMENT
          MaxTurns,         \* bound: events of the user
          MaxPublished      \* bound: diagnostics published

ASSUME LanguageSessionAssumption ==
    /\ {ControlCapacity, EventCapacity, PacketSize} \subseteq Nat \ {0}
    /\ {MaxRestarts, MaxTurns, MaxPublished} \subseteq Nat /\ First \in Documents

VARIABLES
    session,   \* RustDiagnostics.session, with its client's peer
    texts,     \* the buffers: the text of each document
    control,   \* what was sent and the server has not read
    events,    \* what the session has not polled
    server,    \* the server and its supervisor
    lost,      \* history: a message the documents depend on is lost
    turns,     \* bound: events so far, which also number texts and identities
    published  \* bound
vars == <<session, texts, control, events, server, lost, turns, published>>

Length(text) == 1 + (text % 2)
NoSession == [state |-> "none", status |-> ""]
Nothing == [id |-> 0]
NoDiagnostics == [version |-> 0]
Closed == [version |-> 0]

\* No server.  Its supervisor goes on; or has refused to start one, without a
\* word; or has stopped it for a reason of its own, and will read nothing more
\* before it returns; or has returned, and the channels are closed.
Down == [up |-> FALSE, supervisor |-> "runs"]
Silent == [up |-> FALSE, supervisor |-> "silent"]
Returning == [up |-> FALSE, supervisor |-> "returning"]
Gone == [up |-> FALSE, supervisor |-> "gone"]

\* A process whose supervisor has not yet spawned its child.
Starting == <<[kind |-> "start"]>>

\* start; refused is a history: since the last restart or question there was an
\* error of which no restart came.
NewSession(d, identity) ==
    [state |-> "starting", started |-> FALSE, status |-> "", doc |-> d, identity |-> identity,
     text |-> texts[d], version |-> 1, synced |-> texts[d], change |-> FALSE, restarts |-> 0,
     opening |-> 0, diagnostics |-> NoDiagnostics, pending |-> Nothing, completion |-> Nothing,
     next |-> 0, asked |-> {}, cancelled |-> {}, refused |-> FALSE]

Init ==
    /\ texts = [d \in Documents |-> 0] /\ session = NoSession
    /\ control = <<>> /\ events = <<>> /\ server = Down
    /\ lost = FALSE /\ turns = 0 /\ published = 0

(***************************************************************************)
(* A turn of the main thread, as what it leaves of session and channel     *)
(***************************************************************************)

Turn(s) == [s |-> s, out |-> control, lost |-> lost, closed |-> server = Gone, restarted |-> FALSE]

HasPlace(t) == ~t.closed /\ Len(t.out) < ControlCapacity
CanSend(t) == t.s.started /\ HasPlace(t)

\* A send whose failure is ignored.
Sent(t, message) == IF CanSend(t) THEN [t EXCEPT !.out = Append(@, message)] ELSE t

Report(t, status) == [t EXCEPT !.s.status = status]

Cleared(s) == [s EXCEPT !.diagnostics = NoDiagnostics, !.pending = Nothing, !.completion = Nothing]

\* fail
Fail(t) == Report([t EXCEPT !.s = Cleared(@)], "error")

\* restart_or_fail: when the control channel has no room either, or is closed,
\* the session is left as it is.
RestartOrFail(t) ==
    LET refused == [t EXCEPT !.s.refused = TRUE]
    IN IF t.s.restarts = MaxRestarts THEN Fail(refused)
       ELSE IF ~HasPlace(t) THEN Report(refused, "error")
       ELSE [s |-> [Cleared(t.s) EXCEPT !.state = "starting", !.started = FALSE, !.change = FALSE,
                                       !.restarts = @ + 1, !.next = 0, !.asked = {}, !.cancelled = {},
                                       !.refused = FALSE, !.status = ""],
             out |-> Starting, lost |-> FALSE, closed |-> FALSE, restarted |-> TRUE]

\* A message the documents depend on: without it the server is out of step.
Required(t, message) ==
    IF CanSend(t) THEN Sent(t, message) ELSE RestartOrFail([t EXCEPT !.lost = TRUE])

\* LspClient::cancel: the answer to come is expected no longer.
Cancelled(t) ==
    LET id == t.s.pending.id
        asked == {question \in t.s.asked : question.id = id}
    IN IF id = 0 THEN t
       ELSE IF ~t.s.started THEN [t EXCEPT !.s.pending = Nothing]
       ELSE Sent([t EXCEPT !.s.pending = Nothing, !.s.asked = @ \ asked,
                           !.s.cancelled = @ \union {id}], [kind |-> "cancel"])

\* Mutant: the text last sent is not remembered.
MutantFlushed(t) ==
    LET s == t.s
    IN IF ~s.change \/ s.state # "open" THEN t
       ELSE IF ~CanSend(t) THEN Report(t, "error")
       ELSE LET message == [kind |-> "change", doc |-> s.doc, text |-> s.text,
                            base |-> s.synced, version |-> s.version]
            IN Report([Sent(t, message) EXCEPT !.s.change = FALSE], "")

\* flush_change: the range replaced ends where the last text sent ended.
Flushed(t) ==
    LET s == t.s
    IN IF ~s.change \/ s.state # "open" THEN t
       ELSE IF ~CanSend(t) THEN Report(t, "error")
       ELSE LET message == [kind |-> "change", doc |-> s.doc, text |-> s.text,
                            base |-> s.synced, version |-> s.version]
            IN Report([Sent(t, message) EXCEPT !.s.synced = s.text, !.s.change = FALSE], "")

\* open_document; its opening is a history of how often documents were opened.
OpenMessage(s) == [kind |-> "open", doc |-> s.doc, text |-> s.text, version |-> s.version,
                   opening |-> s.opening]

OpenDocument(t) ==
    LET s == [t.s EXCEPT !.opening = @ + 1]
        sent == Required([t EXCEPT !.s = s], OpenMessage(s))
    IN IF ~CanSend(t) THEN sent
       ELSE Report([sent EXCEPT !.s.state = "open", !.s.synced = s.text, !.s.change = FALSE], "")

\* begin_completion, and what becomes of the session when it is refused; an error
\* shown before is cleared by a new question, and not by one that is retried.
Ask(t, retried) ==
    LET id == t.s.next + 1
        question == [id |-> id, identity |-> t.s.identity]
        pending == [id |-> id, identity |-> t.s.identity, version |-> t.s.version,
                    retried |-> retried, early |-> t.s.change]
    IN IF ~CanSend(t) THEN Fail([t EXCEPT !.s.next = id])
       ELSE [Sent(t, [kind |-> "request", id |-> id, doc |-> t.s.doc])
                EXCEPT !.s.next = id, !.s.asked = @ \union {question}, !.s.pending = pending,
                       !.s.refused = FALSE, !.s.status = IF retried THEN @ ELSE ""]

\* Whom a restart is sent to: until the supervisor reads it, the old server may
\* still make it return.
Restarting(v) == IF v.up THEN {Down, Returning} ELSE IF v = Returning THEN {Returning} ELSE {Down}

\* The end of a turn.
Finish(t, rest) ==
    /\ session' = t.s /\ control' = t.out /\ lost' = t.lost
    /\ IF t.restarted THEN events' = <<>> /\ server' \in Restarting(server)
       ELSE events' = rest /\ UNCHANGED server
    /\ UNCHANGED published

(***************************************************************************)
(* The user's events: sync runs at the end of each                         *)
(***************************************************************************)

User == turns < MaxTurns /\ turns' = turns + 1 /\ UNCHANGED published
Active == session.state # "none"

\* replace_session, for a document without a session; bound: one session of a
\* behavior, since a stop leaves nothing of the last.
Start ==
    /\ ~Active /\ turns = 0
    /\ session' = NewSession(First, turns) /\ control' = Starting
    /\ lost' = FALSE /\ UNCHANGED <<texts, events, server, turns, published>>

\* stop, for a view without such a document
Stop ==
    /\ Active /\ User
    /\ session' = NoSession /\ control' = <<>> /\ events' = <<>> /\ server' = Down
    /\ UNCHANGED <<texts, lost>>

\* sync, of another identity: what is shown or asked of the last one is gone.
Moved(t) == [Cancelled(t) EXCEPT !.s.completion = Nothing, !.s.identity = turns + 1]

\* sync, of another buffer revision
Edited(t, text) ==
    [Moved(t) EXCEPT !.s.version = @ + 1, !.s.text = text, !.s.change = t.s.state = "open",
                     !.s.diagnostics = NoDiagnostics]

Edit ==
    /\ Active /\ User
    /\ texts' = [texts EXCEPT ![session.doc] = turns + 1]
    /\ Finish(Flushed(Edited(Turn(session), turns + 1)), events)

MoveCaret ==
    /\ Active /\ User /\ UNCHANGED texts
    /\ Finish(Flushed(Moved(Turn(session))), events)

\* request_completion, in the handler of a key and so before sync
Complete ==
    /\ Active /\ User /\ UNCHANGED texts
    /\ LET t == [Cancelled(Turn(session)) EXCEPT !.s.completion = Nothing]
       IN Finish(Flushed(IF session.state = "open" THEN Ask(t, FALSE) ELSE Report(t, "error")), events)

\* switch_document: the new document starts again at version 1.
SwitchDocument(d) ==
    /\ Active /\ d # session.doc /\ User /\ UNCHANGED texts
    /\ LET from == session.doc
           t == Cancelled(Turn(session))
           s == [Cleared(t.s) EXCEPT !.doc = d, !.identity = turns + 1, !.version = 1,
                                     !.text = texts[d], !.synced = texts[d], !.change = FALSE,
                                     !.status = "",
                                     !.opening = IF @ = 0 THEN 0 ELSE @ + 1]
           closed == [t EXCEPT !.s = s]
       IN Finish(IF s.state # "open" THEN closed
                 ELSE IF ~CanSend(closed) THEN RestartOrFail([closed EXCEPT !.lost = TRUE])
                 ELSE Required(Sent(closed, [kind |-> "close", doc |-> from]), OpenMessage(s)), events)

(***************************************************************************)
(* Polling                                                                 *)
(***************************************************************************)

\* Where in a packet messages of a kind are, and the last one of these.
Of(body, kind) == {n \in DOMAIN body : body[n].kind = kind}
LastOf(body, places) == body[Max(places)]

\* begin_initialize
Initialize(t) ==
    LET ready == [t EXCEPT !.s.started = TRUE]
    IN IF ~CanSend(ready) THEN RestartOrFail([ready EXCEPT !.lost = TRUE])
       ELSE Report([Sent(ready, [kind |-> "initialize"])
                       EXCEPT !.s.state = "initializing", !.s.next = 1], "")

\* Mutant: diagnostics of another version of the document are shown as well.
MutantAdmit(t, body) ==
    LET batches == Of(body, "diagnostics")
        batch == LastOf(body, batches)
    IN IF batches # {} /\ batch.doc = t.s.doc
       THEN Report([t EXCEPT !.s.diagnostics = [batch EXCEPT !.version = t.s.version]], "") ELSE t

\* admit: the last diagnostics of the packet, for this document and version.
Admit(t, body) ==
    LET batches == Of(body, "diagnostics")
        batch == LastOf(body, batches)
    IN IF batches = {} THEN t
       ELSE IF batch.doc = t.s.doc /\ batch.version = t.s.version
            THEN Report([t EXCEPT !.s.diagnostics = batch], "")
            ELSE Report(t, "error")

\* receive_response: each answer is expected once, and dropped if its request
\* was cancelled or belongs to another identity than the one that waits.
Current(t, answer) ==
    /\ answer.id \notin t.s.cancelled
    /\ \E question \in t.s.asked :
          question.id = answer.id /\ t.s.pending.id # 0 /\ question.identity = t.s.pending.identity

Received(t, body) ==
    LET ids == {body[n].id : n \in Of(body, "answer")}
    IN [t EXCEPT !.s.cancelled = @ \ ids, !.s.asked = {question \in @ : question.id \notin ids}]

\* admit_completion: a retryable error is retried once.
AdmitCompletion(t, answer) ==
    LET pending == t.s.pending
        idle == [t EXCEPT !.s.pending = Nothing]
    IN IF pending.id # answer.id \/ pending.identity # t.s.identity \/ pending.version # t.s.version
       THEN idle
       ELSE IF answer.outcome = "done"
            THEN Report([idle EXCEPT !.s.completion = [id |-> answer.id, identity |-> pending.identity,
                                                       of |-> answer.of, early |-> pending.early]], "")
       ELSE IF pending.retried THEN Report(idle, "error") ELSE Ask(idle, TRUE)

\* collect_poll_candidates, and the order in which poll uses them
Protocol(t, body) ==
    LET initialized == Of(body, "ready") # {}
        current == {n \in Of(body, "answer") : Current(t, body[n])}
        opened == IF initialized THEN OpenDocument(Sent(t, [kind |-> "initialized"])) ELSE t
        admitted == Admit(Received(opened, body), body)
    IN IF initialized /\ ~CanSend(t) THEN RestartOrFail([t EXCEPT !.lost = TRUE])
       ELSE IF current = {} THEN admitted ELSE AdmitCompletion(admitted, LastOf(body, current))

\* Mutant: the end of a server is taken note of, and no more.
MutantPolled(t, event) ==
    CASE event.kind = "started" -> Initialize(t)
      [] event.kind = "output" -> Protocol(t, event.body)
      [] event.kind = "rejected" -> Report([t EXCEPT !.s.change = t.s.state = "open"], "error")
      [] event.kind = "ended" -> [t EXCEPT !.s.started = FALSE]

Polled(t, event) ==
    CASE event.kind = "started" -> Initialize(t)
      [] event.kind = "output" -> Protocol(t, event.body)
      [] event.kind = "rejected" -> Report([t EXCEPT !.s.change = t.s.state = "open"], "error")
      [] event.kind = "ended" -> RestartOrFail([t EXCEPT !.s.started = FALSE])

\* poll, of one event, between the flush of sync and its own.
Poll ==
    /\ Active /\ events # <<>>
    /\ Finish(Flushed(Polled(Flushed(Turn(session)), Head(events))), Tail(events))
    /\ UNCHANGED <<texts, turns>>

\* The server asks more than there is room to reply to.
Flooded(t) ==
    IF t.closed THEN t
    ELSE [t EXCEPT !.out = @ \o [n \in 1 .. ControlCapacity - Len(@) |-> [kind |-> "reply"]]]

\* poll, of a packet with an error in it, in a message or in the reply to one:
\* what comes before has been received, and is thrown away.
Broken(t, body, flooded) ==
    LET sent == IF Of(body, "ready") # {} THEN Sent(t, [kind |-> "initialized"]) ELSE t
    IN RestartOrFail(Received(IF flooded THEN Flooded(sent) ELSE sent, body))

PollBroken ==
    /\ Active /\ events # <<>> /\ Head(events).kind = "output"
    /\ \E n \in 0 .. Len(Head(events).body), flooded \in BOOLEAN :
          Finish(Flushed(Broken(Flushed(Turn(session)), SubSeq(Head(events).body, 1, n), flooded)),
                 Tail(events))
    /\ UNCHANGED <<texts, turns>>

\* poll, on a wake without an event, once the channel is closed.
PollStopped ==
    /\ Active /\ events = <<>> /\ server = Gone
    /\ Finish(Flushed(RestartOrFail(Flushed(Turn(session)))), <<>>) /\ UNCHANGED <<texts, turns>>

\* Any other turn: what waits for room is flushed.
Wake ==
    /\ Active /\ session.change /\ Finish(Flushed(Turn(session)), events) /\ UNCHANGED <<texts, turns>>

(***************************************************************************)
(* The supervisor and the server                                           *)
(***************************************************************************)

Outside == UNCHANGED <<session, texts, turns>>

\* What a process has sent is still there when the next one starts.
Spawn ==
    /\ control # <<>> /\ Head(control).kind = "start" /\ server = Down
    /\ control' = Tail(control)
    /\ \/ /\ server' = [up |-> TRUE, docs |-> [d \in Documents |-> Closed], asked |-> {}]
          /\ events' = <<[kind |-> "started"]>>
       \/ events' = <<[kind |-> "ended"]>> /\ UNCHANGED server
       \/ session.restarts > 0 /\ server' = Silent /\ UNCHANGED events
    /\ Outside /\ UNCHANGED <<lost, published>>

HasRoom == Len(events) < EventCapacity

\* What can be lost without a trace in the documents.
Harmless == {"start", "cancel", "reply"}

\* admit_input: a message for which the server's input has no room, or no
\* server, is dropped; the session is told if that has room.
Reject ==
    /\ control # <<>> /\ Head(control).kind # "start" /\ server \notin {Returning, Gone}
    /\ lost => Head(control).kind \in Harmless   \* bound: one loss of each process
    /\ control' = Tail(control)
    /\ events' \in {events} \union IF HasRoom THEN {Append(events, [kind |-> "rejected"])} ELSE {}
    /\ lost' = (lost \/ Head(control).kind \notin Harmless)
    /\ Outside /\ UNCHANGED <<server, published>>

\* What a message makes of the documents the server has open.  A change of a
\* text longer than it was computed for leaves the rest of it behind.
Applied(docs, message) ==
    CASE message.kind = "open" ->
           [docs EXCEPT ![message.doc] = [text |-> message.text, rest |-> 0,
                                          version |-> message.version, opening |-> message.opening]]
      [] message.kind = "close" -> [docs EXCEPT ![message.doc] = Closed]
      [] message.kind = "change" /\ docs[message.doc] # Closed ->
           LET old == docs[message.doc]
               over == Length(old.text) + old.rest - Length(message.base)
           IN [docs EXCEPT ![message.doc] = [old EXCEPT !.text = message.text, !.version = message.version,
                                                        !.rest = IF over > 0 THEN over ELSE 0]]
      [] OTHER -> docs

\* What all that is under way makes of them.
After(docs, messages) ==
    LET after[n \in 0 .. Len(messages)] == IF n = 0 THEN docs ELSE Applied(after[n - 1], messages[n])
    IN after[Len(messages)]

\* In a packet of its own, or after the last one that is still being read.
Write(message) ==
    \/ /\ HasRoom /\ events' = Append(events, [kind |-> "output", body |-> <<message>>])
    \/ /\ events # <<>> /\ Last(events).kind = "output" /\ Len(Last(events).body) < PacketSize
       /\ events' = [events EXCEPT ![Len(events)].body = Append(@, message)]

Content(d) == [text |-> server.docs[d].text, rest |-> server.docs[d].rest]

\* The server reads a message.
Handle ==
    /\ server.up /\ control # <<>> /\ Head(control).kind # "start" /\ control' = Tail(control)
    /\ LET message == Head(control)
       IN CASE message.kind = "initialize" -> Write([kind |-> "ready"]) /\ UNCHANGED server
            [] message.kind = "request" /\ server.docs[message.doc] # Closed ->
                 /\ server' = [server EXCEPT !.asked = @ \union {[id |-> message.id, of |-> Content(message.doc)]}]
                 /\ UNCHANGED events
            [] message.kind = "request" /\ server.docs[message.doc] = Closed ->
                 /\ Write([kind |-> "answer", id |-> message.id, outcome |-> "retry", of |-> Nothing])
                 /\ UNCHANGED server
            [] OTHER -> server' = [server EXCEPT !.docs = Applied(@, message)] /\ UNCHANGED events
    /\ Outside /\ UNCHANGED <<lost, published>>

\* A retryable error, like "content modified", or the completion.
Answer(question) ==
    /\ \E outcome \in {"done", "retry"} :
          Write([kind |-> "answer", id |-> question.id, outcome |-> outcome, of |-> question.of])
    /\ server' = [server EXCEPT !.asked = @ \ {question}]
    /\ Outside /\ UNCHANGED <<control, lost, published>>

Publish(d) ==
    /\ server.up /\ server.docs[d] # Closed
    /\ published < MaxPublished /\ published' = published + 1
    /\ Write([kind |-> "diagnostics", doc |-> d, version |-> server.docs[d].version,
              opening |-> server.docs[d].opening, of |-> Content(d)])
    /\ Outside /\ UNCHANGED <<control, server, lost>>

\* The server exits, or is stopped because its output or the events overflow;
\* its end is announced in the reserve of the queue.
Exit ==
    /\ server.up /\ server' \in {Down, Returning}
    /\ events' = Append(events, [kind |-> "ended"])
    /\ Outside /\ UNCHANGED <<control, lost, published>>

\* The supervisor returns, and with it goes what it was sent.
Return ==
    /\ server = Returning /\ server' = Gone
    /\ control' = <<>>
    /\ lost' = (lost \/ \E n \in DOMAIN control : control[n].kind \notin Harmless)
    /\ Outside /\ UNCHANGED <<events, published>>

Respond == server.up /\ \E question \in server.asked : Answer(question)

Next ==
    \/ \E d \in Documents : SwitchDocument(d) \/ Publish(d)
    \/ Start \/ Stop \/ Edit \/ MoveCaret \/ Complete
    \/ Poll \/ PollBroken \/ PollStopped \/ Wake
    \/ Spawn \/ Reject \/ Handle \/ Exit \/ Return \/ Respond

Spec == Init /\ [][Next]_vars

(***************************************************************************)
(* Properties                                                              *)
(***************************************************************************)

TypeOK ==
    /\ Len(control) <= ControlCapacity /\ Len(events) <= EventCapacity + 1
    /\ Active => session.state \in {"starting", "initializing", "open"} /\ session.doc \in Documents
    /\ lost \in BOOLEAN /\ turns \in 0 .. MaxTurns /\ published \in 0 .. MaxPublished

\* What is shown was computed for what is on screen, however long it was under
\* way and whatever was typed, opened, cancelled or restarted meanwhile:
\* diagnostics for the present text of the present document, completions for
\* the present caret too.  The exceptions: a message was lost; diagnostics of
\* an earlier opening of the document, whose versions started at 1 as well; a
\* completion asked for while a change still waited for room.
AnalysisIsCurrent ==
    /\ TypeOK
    /\ Active =>
        LET shown == session.diagnostics
            completion == session.completion
            present == [text |-> session.text, rest |-> 0]
        IN /\ shown # NoDiagnostics =>
                 /\ shown.doc = session.doc /\ shown.version = session.version
                 /\ shown.of = present \/ lost \/ shown.opening # session.opening
           /\ completion # Nothing =>
                 /\ completion.identity = session.identity
                 /\ completion.of = present \/ lost \/ completion.early

\* Once the server has read what is under way to it, it has one document open,
\* the one on screen, with the text last sent; and with no change waiting, that
\* is the text on screen at the version on screen.  Only a lost message breaks
\* this, until the next restart.
ServerInStep ==
    Active /\ session.state = "open" /\ session.started /\ server.up /\ ~lost =>
        LET docs == After(server.docs, control)
        IN /\ \A d \in Documents \ {session.doc} : docs[d] = Closed
           /\ docs[session.doc].text = session.synced /\ docs[session.doc].rest = 0
           /\ docs[session.doc].opening = session.opening
           /\ ~session.change => session.synced = session.text /\ docs[session.doc].version = session.version

\* Nothing is under way: no message, no event, no answer, no flush.
Quiescent ==
    /\ Active /\ ~session.change
    /\ control = <<>> /\ events = <<>> /\ (server.up => server.asked = {})

\* A session that waits for nothing has come to rest: its document is open and
\* every question answered, withdrawn or given up.  So no session stalls between
\* two steps of starting, restarting, opening or asking, but for these:
\*   - an error is shown, or a message the documents depend on was lost;
\*   - a restart was spent or refused before the document was open (and a switch
\*     of documents has taken the error of that away);
\*   - the server was started and stopped at once, for want of room to say so;
\*   - the supervisor took the restart and returned without reading it;
\*   - a restart was refused while a question was under way, whose answer the
\*     broken packet may have held.
RestsOpen ==
    Quiescent =>
        \/ session.status = "error" \/ lost
        \/ session.state # "open" /\ (session.refused \/ server \in {Silent, Gone})
        \/ /\ session.state = "open" /\ session.started
           /\ session.pending = Nothing \/ session.refused
=============================================================================
